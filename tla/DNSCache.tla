------------------------------ MODULE DNSCache ------------------------------
(***************************************************************************)
(* cache.DNSCache: Lookup gives the mutex back while it asks the resolver. *)
(***************************************************************************)
EXTENDS LruEntries

CONSTANT Client

VARIABLES
    pc, host,   \* of every Lookup
    used        \* history: entries in the order of their last use

vars == <<lruVars, pc, host, used>>

\* The latest at the end (history).
Uses(e) == used' = Append(Without(used, e), e)

Init ==
    /\ LruInit
    /\ pc = [c \in Client |-> "idle"]
    /\ host = [c \in Client |-> CHOOSE k \in Key : TRUE]
    /\ used = <<>>

\* Lookup of a host that is cached.
Hit(c, k) ==
    /\ pc[c] = "idle" /\ entries[k] # None /\ entries[k] \in fresh
    /\ MoveToFront(entries[k])
    /\ Uses(entries[k])
    /\ UNCHANGED <<entries, keyOf, fresh, made, pc, host>>

Resolves(c, k) ==
    /\ pc' = [pc EXCEPT ![c] = "resolving"]
    /\ host' = [host EXCEPT ![c] = k]
    /\ UNCHANGED used

Expired(c, k) ==
    /\ pc[c] = "idle" /\ entries[k] # None /\ entries[k] \notin fresh
    /\ DelEntry(entries[k])
    /\ Resolves(c, k)

Miss(c, k) ==
    /\ pc[c] = "idle" /\ entries[k] = None
    /\ UNCHANGED lruVars
    /\ Resolves(c, k)

NoSuchHost(c) ==
    /\ pc[c] = "resolving"
    /\ pc' = [pc EXCEPT ![c] = "idle"]
    /\ UNCHANGED <<lruVars, host, used>>

\* Mutant: set does not look for the key again.
AddsAgain(c) ==
    /\ pc[c] = "resolving"
    /\ pc' = [pc EXCEPT ![c] = "idle"]
    /\ Add(host[c]) /\ Uses(made')
    /\ UNCHANGED host

\* net.LookupHost answers: set.
Set(c) ==
    /\ pc[c] = "resolving"
    /\ pc' = [pc EXCEPT ![c] = "idle"]
    /\ LET e == entries[host[c]] IN
       IF e # None
         THEN /\ fresh' = fresh \cup {e}
              /\ MoveToFront(e) /\ Uses(e)
              /\ UNCHANGED <<entries, keyOf, made>>
         ELSE Add(host[c]) /\ Uses(made')
    /\ UNCHANGED host

Next ==
    \/ \E c \in Client, k \in Key : Hit(c, k) \/ Expired(c, k) \/ Miss(c, k)
    \/ \E c \in Client : NoSuchHost(c) \/ Set(c)
    \/ Expire /\ UNCHANGED <<pc, host, used>>

Spec == Init /\ [][Next]_vars

-----------------------------------------------------------------------------
\* What is thrown out of a full cache is what was not used for the longest
\* time.
EvictsLeastUsed ==
    [][\A e \in Listed \ {lru'[i] : i \in DOMAIN lru'} :
          made' # made =>
             \A f \in Listed : \E i, j \in DOMAIN used :
                i <= j /\ used[i] = e /\ used[j] = f]_vars
=============================================================================
