---------------------------- MODULE ResultCache ----------------------------
(***************************************************************************)
(* cache.ResultCache: Get looks its entry up under the mutex and goes on   *)
(* to use it without; Put changes the entries that Get holds.  A result is *)
(* more than a word wide, so Put writes and Get reads it in two parts.     *)
(***************************************************************************)
EXTENDS LruEntries

CONSTANTS Client,
          MaxPuts, MaxGets      \* bounds on the calls of Put and Get

ASSUME ResultAssumption ==
    MaxPuts \in Nat /\ MaxGets \in Nat /\ "free" \notin Client

VARIABLES
    first, second,  \* the parts of e.result: the number of the Put
    mu,             \* the holder of the write lock
    pc, held, got,  \* of every client: its entry, the first part it has read
    puts, hits, misses,
    \* history
    gets,           \* calls of Get that found out whether they hit
    stored,         \* the last result put under every key
    since,          \* stored[k] when the client began to Get k
    result          \* what the last Get of every client returned

vars == <<lruVars, first, second, mu, pc, held, got, puts, hits, misses, gets,
          stored, since, result>>

resultVars == <<first, second, puts, stored>>
getVars == <<hits, misses, gets, since, result>>

Init ==
    /\ LruInit
    /\ first = [e \in Entry |-> 0] /\ second = [e \in Entry |-> 0]
    /\ mu = "free"
    /\ pc = [c \in Client |-> "idle"] /\ held = [c \in Client |-> None]
    /\ got = [c \in Client |-> 0]
    /\ puts = 0 /\ hits = 0 /\ misses = 0 /\ gets = 0
    /\ stored = [k \in Key |-> 0] /\ since = [c \in Client |-> 0]
    /\ result = [c \in Client |-> <<0, 0>>]

Goto(c, there) == pc' = [pc EXCEPT ![c] = there]

\* Get, under RLock.
Lookup(c, k) ==
    /\ pc[c] = "idle" /\ mu = "free" /\ gets < MaxGets
    /\ held' = [held EXCEPT ![c] = entries[k]]
    /\ since' = [since EXCEPT ![c] = stored[k]]
    /\ Goto(c, IF entries[k] = None THEN "missed" ELSE "found")
    /\ UNCHANGED <<lruVars, resultVars, mu, got, hits, misses, gets, result>>

Missed(c) ==
    /\ pc[c] = "missed" /\ mu = "free"
    /\ misses' = misses + 1 /\ gets' = gets + 1
    /\ Goto(c, "idle")
    /\ UNCHANGED <<lruVars, resultVars, mu, held, got, hits, since, result>>

\* Mutant: the comparison is the wrong way round.
ExpiresFresh(c) ==
    /\ pc[c] = "found"
    /\ Goto(c, IF held[c] \in fresh THEN "expired" ELSE "fresh")
    /\ UNCHANGED <<lruVars, resultVars, mu, held, got, getVars>>

\* time.Since(e.timestamp), without the mutex.
CheckTTL(c) ==
    /\ pc[c] = "found"
    /\ Goto(c, IF held[c] \in fresh THEN "fresh" ELSE "expired")
    /\ UNCHANGED <<lruVars, resultVars, mu, held, got, getVars>>

Drop(c) ==
    /\ pc[c] = "expired" /\ mu = "free"
    /\ DelEntry(held[c])
    /\ misses' = misses + 1 /\ gets' = gets + 1
    /\ Goto(c, "idle")
    /\ UNCHANGED <<resultVars, mu, held, got, hits, since, result>>

Touch(c) ==
    /\ pc[c] = "fresh" /\ mu = "free"
    /\ MoveToFront(held[c])
    /\ hits' = hits + 1 /\ gets' = gets + 1
    /\ Goto(c, "reading")
    /\ UNCHANGED <<entries, keyOf, fresh, made, resultVars, mu, held, got,
                   misses, since, result>>

\* return e.result, without the mutex.
ReadFirst(c) ==
    /\ pc[c] = "reading"
    /\ got' = [got EXCEPT ![c] = first[held[c]]]
    /\ Goto(c, "returning")
    /\ UNCHANGED <<lruVars, resultVars, mu, held, getVars>>

ReadSecond(c) ==
    /\ pc[c] = "returning"
    /\ result' = [result EXCEPT ![c] = <<got[c], second[held[c]]>>]
    /\ Goto(c, "idle")
    /\ UNCHANGED <<lruVars, resultVars, mu, held, got, hits, misses, gets,
                   since>>

-----------------------------------------------------------------------------
\* Mutant: Put does not look for the key.
PutsAnyway(c, k) ==
    /\ pc[c] = "idle" /\ mu = "free" /\ puts < MaxPuts
    /\ Add(k)
    /\ puts' = puts + 1
    /\ first' = [first EXCEPT ![made'] = puts']
    /\ second' = [second EXCEPT ![made'] = puts']
    /\ stored' = [stored EXCEPT ![k] = puts']
    /\ UNCHANGED <<mu, pc, held, got, getVars>>

\* Put of a key that is not in the map.  Nobody else knows the new entry yet.
PutNew(c, k) ==
    /\ pc[c] = "idle" /\ mu = "free" /\ puts < MaxPuts /\ entries[k] = None
    /\ Add(k)
    /\ puts' = puts + 1
    /\ first' = [first EXCEPT ![made'] = puts']
    /\ second' = [second EXCEPT ![made'] = puts']
    /\ stored' = [stored EXCEPT ![k] = puts']
    /\ UNCHANGED <<mu, pc, held, got, getVars>>

\* Put of a key that is.
PutOver(c, k) ==
    /\ pc[c] = "idle" /\ mu = "free" /\ puts < MaxPuts /\ entries[k] # None
    /\ mu' = c
    /\ puts' = puts + 1
    /\ held' = [held EXCEPT ![c] = entries[k]]
    /\ first' = [first EXCEPT ![entries[k]] = puts']
    /\ Goto(c, "putting")
    /\ UNCHANGED <<lruVars, second, stored, got, getVars>>

\* Mutant: the rest of the result stays as it was.
PutsHalf(c) ==
    /\ pc[c] = "putting"
    /\ fresh' = fresh \cup {held[c]}
    /\ stored' = [stored EXCEPT ![keyOf[held[c]]] = first[held[c]]]
    /\ MoveToFront(held[c])
    /\ mu' = "free"
    /\ Goto(c, "idle")
    /\ UNCHANGED <<entries, keyOf, made, first, second, puts, held, got,
                   getVars>>

FinishPut(c) ==
    /\ pc[c] = "putting"
    /\ second' = [second EXCEPT ![held[c]] = first[held[c]]]
    /\ fresh' = fresh \cup {held[c]}
    /\ stored' = [stored EXCEPT ![keyOf[held[c]]] = first[held[c]]]
    /\ MoveToFront(held[c])
    /\ mu' = "free"
    /\ Goto(c, "idle")
    /\ UNCHANGED <<entries, keyOf, made, first, puts, held, got, getVars>>

Next ==
    \/ \E c \in Client, k \in Key : Lookup(c, k) \/ PutNew(c, k) \/ PutOver(c, k)
    \/ \E c \in Client :
          \/ Missed(c) \/ CheckTTL(c) \/ Drop(c) \/ Touch(c)
          \/ ReadFirst(c) \/ ReadSecond(c) \/ FinishPut(c)
    \/ Expire /\ UNCHANGED <<resultVars, mu, pc, held, got, getVars>>

Spec == Init /\ [][Next]_vars

-----------------------------------------------------------------------------
\* Get returns what was stored last when it began, or something newer.
ReturnsLatest ==
    [][\A c \in Client : ReadSecond(c) =>
          /\ result'[c][1] >= since[c] /\ result'[c][2] >= since[c]]_vars

\* Nobody has put a result under the key since the client began its Get.
Undisturbed(c) == mu = "free" /\ stored[keyOf[held[c]]] = since[c]

\* An entry is taken out of the map for its age only when it is that old,
\* unless a Put of the same key overlapped the Get: the entry is dropped
\* without another look at its timestamp.
DropsOnlyExpired ==
    [][\A c \in Client : Drop(c) /\ Undisturbed(c) =>
          LET e == entries[keyOf[held[c]]] IN e # None => e \notin fresh]_vars
=============================================================================
