----------------------------- MODULE LruEntries -----------------------------
(***************************************************************************)
(* The map and the list that both caches (cache.DNSCache, ResultCache) are *)
(* made of.  An entry is known by the number of its creation: code that    *)
(* holds a pointer to it may still use it when the map has another one     *)
(* under its key, or none.                                                 *)
(***************************************************************************)
EXTENDS Integers, Sequences

CONSTANTS Key, MaxSize,
          MaxEntries    \* bound on the entries ever created

ASSUME LruAssumption == MaxSize \in Nat \ {0} /\ MaxEntries \in Nat

Entry == 1..MaxEntries

None == 0

VARIABLES
    entries,    \* the map
    lru,        \* the list, from its back to its front
    keyOf,      \* e.key
    fresh,      \* entries whose timestamp is within the ttl
    made        \* entries created so far

lruVars == <<entries, lru, keyOf, fresh, made>>

Listed == {lru[i] : i \in DOMAIN lru}

\* list.Remove
Without(s, e) ==
    IF \E i \in DOMAIN s : s[i] = e
      THEN LET at == CHOOSE i \in DOMAIN s : s[i] = e IN
           [j \in 1..(Len(s) - 1) |-> s[IF j < at THEN j ELSE j + 1]]
      ELSE s

LruInit ==
    /\ entries = [k \in Key |-> None] /\ lru = <<>>
    /\ keyOf = [e \in Entry |-> CHOOSE k \in Key : TRUE]
    /\ fresh = {} /\ made = 0

\* delEntry, which does not ask whether the map still has this entry.
DelEntry(e) ==
    /\ entries' = [entries EXCEPT ![keyOf[e]] = None]
    /\ lru' = Without(lru, e)
    /\ UNCHANGED <<keyOf, fresh, made>>

\* Mutant: the element is moved to the back.
MoveToBack(e) ==
    lru' = IF e \in Listed THEN <<e>> \o Without(lru, e) ELSE lru

\* list.MoveToFront does nothing for an element that was removed.
MoveToFront(e) ==
    lru' = IF e \in Listed THEN Append(Without(lru, e), e) ELSE lru

Evicts(n) == n > MaxSize

\* The tail of Put and set: a new entry, and evictOldest.
Add(k) ==
    LET e == made + 1
        back == Head(Append(lru, e)) IN
    /\ e \in Entry
    /\ made' = e
    /\ keyOf' = [keyOf EXCEPT ![e] = k]
    /\ fresh' = fresh \cup {e}
    /\ IF Evicts(Len(lru) + 1)
         THEN /\ lru' = Tail(Append(lru, e))
              /\ entries' = [j \in Key |-> IF j = keyOf'[back] THEN None
                                           ELSE IF j = k THEN e
                                           ELSE entries[j]]
         ELSE /\ lru' = Append(lru, e)
              /\ entries' = [entries EXCEPT ![k] = e]

\* The clock passes timestamp + ttl.
Expire ==
    /\ \E e \in fresh : fresh' = fresh \ {e}
    /\ UNCHANGED <<entries, lru, keyOf, made>>

Use(e) ==
    /\ MoveToFront(e)
    /\ fresh' \in {fresh, fresh \cup {e}}
    /\ UNCHANGED <<entries, keyOf, made>>

\* What any number of callers may do, with whatever entry they hold.
LruNext ==
    \/ \E k \in Key : entries[k] = None /\ Add(k)
    \/ \E e \in 1..made : DelEntry(e) \/ Use(e)
    \/ Expire

LruSpec == LruInit /\ [][LruNext]_lruVars

-----------------------------------------------------------------------------
LruTypeOK ==
    /\ made \in 0..MaxEntries
    /\ entries \in [Key -> 0..made]
    /\ lru \in Seq(1..made)
    /\ keyOf \in [Entry -> Key]
    /\ fresh \subseteq 1..made

\* However the calls interleave, the list stays within the size of the cache
\* and every entry that the map can return is on it, under its own key, so
\* that eviction can reach it: the cache does not grow.
Bounded ==
    /\ Len(lru) <= MaxSize
    /\ \A k \in Key : entries[k] # None =>
          entries[k] \in Listed /\ keyOf[entries[k]] = k
=============================================================================
