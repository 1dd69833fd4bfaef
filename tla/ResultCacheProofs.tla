-------------------------- MODULE ResultCacheProofs --------------------------
(***************************************************************************)
(* Proofs about LruEntries, for all keys, sizes and numbers of entries,    *)
(* and about ResultCache and DNSCache, for any number of concurrent        *)
(* callers.                                                                *)
(***************************************************************************)
EXTENDS ResultCache, TLAPS

USE LruAssumption

-----------------------------------------------------------------------------
(***************************************************************************)
(* LruEntries.                                                             *)
(***************************************************************************)
LInv == LruTypeOK /\ Bounded

\* Removing an element takes one place away and no other element.
LEMMA WithoutFacts ==
    ASSUME NEW S, NEW s \in Seq(S), NEW e
    PROVE  /\ Without(s, e) \in Seq(S)
           /\ Len(Without(s, e)) <= Len(s)
           /\ (\E i \in DOMAIN s : s[i] = e) =>
                 Len(Without(s, e)) = Len(s) - 1
           /\ \A i \in DOMAIN s : s[i] # e =>
                 \E j \in DOMAIN Without(s, e) : Without(s, e)[j] = s[i]
<1>1. CASE ~ \E i \in DOMAIN s : s[i] = e
  BY <1>1 DEF Without
<1>2. CASE \E i \in DOMAIN s : s[i] = e
  <2> DEFINE at == CHOOSE i \in DOMAIN s : s[i] = e
             t  == [j \in 1..(Len(s) - 1) |-> s[IF j < at THEN j ELSE j + 1]]
  <2>1. at \in 1..Len(s) /\ s[at] = e /\ Len(s) \in Nat
    BY <1>2
  <2>2. Without(s, e) = t
    BY <1>2 DEF Without
  <2> HIDE DEF at
  <2>3. t \in Seq(S) /\ Len(t) = Len(s) - 1 /\ DOMAIN t = 1..(Len(s) - 1)
    BY <2>1
  <2>4. ASSUME NEW i \in DOMAIN s, s[i] # e
        PROVE  \E j \in DOMAIN t : t[j] = s[i]
    <3>1. i \in 1..Len(s) /\ i # at
      BY <2>1, <2>4
    <3>2. CASE i < at
      BY <2>1, <2>3, <3>1, <3>2
    <3>3. CASE i > at
      <4>1. i - 1 \in 1..(Len(s) - 1) /\ ~(i - 1 < at) /\ (i - 1) + 1 = i
        BY <2>1, <3>1, <3>3
      <4> QED BY <2>3, <4>1
    <3> QED BY <2>1, <3>1, <3>2, <3>3
  <2> HIDE DEF t
  <2>5. Len(t) <= Len(s)
    BY <2>1, <2>3
  <2> QED BY <2>2, <2>3, <2>4, <2>5
<1> QED BY <1>1, <1>2

LEMMA DelEntryKeeps ==
    ASSUME LInv, NEW e \in 1..made, DelEntry(e)
    PROVE  LInv'
<1> USE DEF LInv, LruTypeOK, DelEntry
<1>1. /\ lru' \in Seq(1..made) /\ Len(lru') <= Len(lru)
      /\ \A i \in DOMAIN lru : lru[i] # e =>
            \E j \in DOMAIN lru' : lru'[j] = lru[i]
  BY WithoutFacts
<1>2. LruTypeOK'
  <2>1. made' = made /\ keyOf' = keyOf /\ fresh' = fresh
    OBVIOUS
  <2>2. /\ entries \in [Key -> 0..made] /\ 0 \in 0..made
        /\ entries' = [entries EXCEPT ![keyOf[e]] = 0]
    BY DEF None
  <2>3. entries' \in [Key -> 0..made]
    BY <2>2
  <2> QED BY <1>1, <2>1, <2>3
<1>3. Len(lru') <= MaxSize
  BY <1>1 DEF Bounded
<1>4. ASSUME NEW k \in Key, entries'[k] # None
      PROVE  entries'[k] \in Listed' /\ keyOf'[entries'[k]] = k
  <2>1. e \in Entry /\ k # keyOf[e] /\ entries'[k] = entries[k]
    BY <1>4 DEF Entry, None
  <2>2. entries[k] \in Listed /\ keyOf[entries[k]] = k /\ entries[k] # e
    BY <1>4, <2>1 DEF Bounded
  <2> QED BY <1>1, <2>1, <2>2 DEF Listed
<1> QED BY <1>2, <1>3, <1>4 DEF Bounded

LEMMA UseKeeps ==
    ASSUME LInv, NEW e \in 1..made, Use(e)
    PROVE  LInv'
<1>0. lru \in Seq(1..made)
  BY DEF LInv, LruTypeOK
<1>1. /\ lru' \in Seq(1..made) /\ Len(lru') <= Len(lru)
      /\ \A i \in DOMAIN lru : \E j \in DOMAIN lru' : lru'[j] = lru[i]
  <2>1. CASE e \in Listed
    <3> DEFINE w == Without(lru, e)
    <3>4. \E i \in DOMAIN lru : lru[i] = e
      BY <2>1 DEF Listed
    <3>5. /\ w \in Seq(1..made)
          /\ (\E i \in DOMAIN lru : lru[i] = e) => Len(w) = Len(lru) - 1
          /\ \A i \in DOMAIN lru : lru[i] # e => \E j \in DOMAIN w : w[j] = lru[i]
      BY <1>0, WithoutFacts
    <3> HIDE DEF w
    <3>1. /\ w \in Seq(1..made) /\ Len(w) = Len(lru) - 1 /\ Len(w) \in Nat
          /\ \A i \in DOMAIN lru : lru[i] # e => \E j \in DOMAIN w : w[j] = lru[i]
      BY <3>4, <3>5
    <3>2. lru' = Append(w, e)
      BY <2>1 DEF Use, MoveToFront, w
    <3>3. /\ lru' \in Seq(1..made) /\ Len(lru') = Len(w) + 1
          /\ lru'[Len(w) + 1] = e /\ Len(w) + 1 \in DOMAIN lru'
          /\ \A j \in DOMAIN w : j \in DOMAIN lru' /\ lru'[j] = w[j]
      BY <3>1, <3>2
    <3> QED BY <3>1, <3>3
  <2>2. CASE e \notin Listed
    BY <1>0, <2>2 DEF Use, MoveToFront
  <2> QED BY <2>1, <2>2
<1> USE DEF LInv, LruTypeOK, Use
<1>2. LruTypeOK'
  BY <1>1
<1>3. Len(lru') <= MaxSize
  BY <1>1 DEF Bounded
<1>4. ASSUME NEW k \in Key, entries'[k] # None
      PROVE  entries'[k] \in Listed' /\ keyOf'[entries'[k]] = k
  <2>1. entries[k] \in Listed /\ keyOf[entries[k]] = k
    BY <1>4 DEF Bounded
  <2> QED BY <1>1, <2>1 DEF Listed
<1> QED BY <1>2, <1>3, <1>4 DEF Bounded

\* The head of a sequence that is known to be one longer than a number.
LEMMA HeadOfLonger ==
    ASSUME NEW S, NEW s \in Seq(S), NEW n \in Nat, Len(s) = n + 1
    PROVE  s # <<>> /\ 1 \in DOMAIN s /\ Head(s) = s[1] /\ s[1] \in S
<1>1. Len(s) \in Nat \ {0} /\ DOMAIN s = 1..Len(s)
  OBVIOUS
<1>2. s # <<>> /\ 1 \in DOMAIN s
  BY <1>1
<1> QED BY <1>2

LEMMA AddKeeps ==
    ASSUME LInv, NEW k \in Key, Add(k)
    PROVE  LInv'
<1> DEFINE e    == made + 1
           full == Append(lru, e)
           back == Head(full)
<1> USE DEF LInv, LruTypeOK
<1>1. /\ made \in Nat /\ e \in Entry /\ made' = e /\ e \notin 0..made
      /\ keyOf' = [keyOf EXCEPT ![e] = k] /\ fresh' = fresh \cup {e}
  BY DEF Add, Entry
<1>2. /\ full \in Seq(1..e) /\ Len(full) = Len(lru) + 1 /\ Len(lru) \in Nat
      /\ full[Len(lru) + 1] = e
      /\ \A i \in DOMAIN lru : i \in DOMAIN full /\ full[i] = lru[i]
  BY <1>1
<1>3. back \in 1..e /\ back = full[1] /\ back \in Entry
  <2>1. back = full[1] /\ full[1] \in 1..e
    <3> HIDE DEF full
    <3> QED BY <1>2, HeadOfLonger
  <2> QED BY <1>1, <2>1 DEF Entry
<1>4. \A f \in Entry : f # e => keyOf'[f] = keyOf[f]
  BY <1>1
<1>5. keyOf'[e] = k /\ keyOf' \in [Entry -> Key] /\ fresh' \subseteq 1..made'
  BY <1>1
<1>6. CASE Evicts(Len(lru) + 1)
  <2>1. /\ lru' = Tail(full)
        /\ entries' = [j \in Key |-> IF j = keyOf'[back] THEN None
                                     ELSE IF j = k THEN e ELSE entries[j]]
    BY <1>6 DEF Add
  <2>2. Len(lru) \in 1..MaxSize
    BY <1>2, <1>6 DEF Evicts, Bounded
  <2>3. /\ lru' \in Seq(1..e) /\ Len(lru') = Len(lru)
        /\ \A i \in 2..(Len(lru) + 1) : /\ i - 1 \in DOMAIN lru'
                                        /\ lru'[i - 1] = full[i]
    <3> HIDE DEF full
    <3>1. full # <<>> /\ Len(full) \in Nat
      BY <1>2, <2>2
    <3>2. /\ Tail(full) \in Seq(1..e) /\ Len(Tail(full)) = Len(full) - 1
          /\ \A i \in 1..(Len(full) - 1) : Tail(full)[i] = full[i + 1]
      BY <1>2, <3>1
    <3>3. Len(Tail(full)) = Len(lru)
      BY <1>2, <3>2
    <3>4. ASSUME NEW i \in 2..(Len(lru) + 1)
          PROVE  i - 1 \in DOMAIN Tail(full) /\ Tail(full)[i - 1] = full[i]
      <4>1. i - 1 \in 1..(Len(full) - 1) /\ (i - 1) + 1 = i
        BY <1>2
      <4> QED BY <3>2, <4>1
    <3> QED BY <2>1, <3>2, <3>3, <3>4
  <2>4. entries' \in [Key -> 0..made']
    BY <1>1, <2>1 DEF None
  <2>5. ASSUME NEW j \in Key, entries'[j] # None
        PROVE  entries'[j] \in Listed' /\ keyOf'[entries'[j]] = j
    <3>1. j # keyOf'[back]
      BY <2>1, <2>5
    <3>2. CASE j = k
      <4>1. entries'[j] = e
        BY <2>1, <3>1, <3>2
      <4>2. e \in Listed'
        <5> HIDE DEF full, e
        <5>1. Len(lru) + 1 \in 2..(Len(lru) + 1) /\ (Len(lru) + 1) - 1 = Len(lru)
          BY <2>2
        <5>2. Len(lru) \in DOMAIN lru' /\ lru'[Len(lru)] = e
          BY <1>2, <2>3, <5>1
        <5> QED BY <5>2 DEF Listed
      <4> QED BY <1>5, <3>2, <4>1, <4>2
    <3>3. CASE j # k
      <4>1. entries'[j] = entries[j] /\ entries[j] # None
        BY <2>1, <2>5, <3>1, <3>3
      <4>2. /\ entries[j] \in Listed /\ keyOf[entries[j]] = j
            /\ entries[j] \in 1..made
        BY <4>1 DEF Bounded, None
      <4>3. keyOf'[entries[j]] = j /\ entries[j] # back
        BY <1>1, <1>4, <3>1, <4>2 DEF Entry
      <4>4. PICK i \in DOMAIN lru : lru[i] = entries[j]
        BY <4>2 DEF Listed
      <4>5. i \in 2..(Len(lru) + 1) /\ full[i] = entries[j]
        BY <1>2, <1>3, <4>3, <4>4
      <4>6. entries[j] \in Listed'
        BY <2>3, <4>5 DEF Listed
      <4> QED BY <4>1, <4>3, <4>6
    <3> QED BY <3>2, <3>3
  <2> HIDE DEF full, back
  <2>6. lru' \in Seq(1..made') /\ made' \in 0..MaxEntries
    BY <1>1, <2>3 DEF Entry
  <2>7. Len(lru') <= MaxSize
    BY <2>2, <2>3
  <2> QED BY <1>5, <2>4, <2>5, <2>6, <2>7 DEF Bounded
<1>7. CASE ~Evicts(Len(lru) + 1)
  <2>1. lru' = full /\ entries' = [entries EXCEPT ![k] = e]
    BY <1>7 DEF Add
  <2>2. Len(lru') <= MaxSize
    BY <1>2, <1>7, <2>1 DEF Evicts
  <2>3. entries' \in [Key -> 0..made'] /\ lru' \in Seq(1..made')
    BY <1>1, <1>2, <2>1
  <2>4. ASSUME NEW j \in Key, entries'[j] # None
        PROVE  entries'[j] \in Listed' /\ keyOf'[entries'[j]] = j
    <3>1. CASE j = k
      BY <1>2, <1>5, <2>1, <3>1 DEF Listed
    <3>2. CASE j # k
      <4>1. entries'[j] = entries[j] /\ entries[j] # None
        BY <2>1, <2>4, <3>2
      <4>2. /\ entries[j] \in Listed /\ keyOf[entries[j]] = j
            /\ entries[j] \in 1..made
        BY <4>1 DEF Bounded, None
      <4>3. keyOf'[entries[j]] = j
        BY <1>1, <1>4, <4>2 DEF Entry
      <4>4. entries[j] \in Listed'
        BY <1>2, <2>1, <4>2 DEF Listed
      <4> QED BY <4>1, <4>3, <4>4
    <3> QED BY <3>1, <3>2
  <2> HIDE DEF full, back
  <2>5. made' \in 0..MaxEntries
    BY <1>1 DEF Entry
  <2> QED BY <1>5, <2>2, <2>3, <2>4, <2>5 DEF Bounded
<1> QED BY <1>6, <1>7

LEMMA LruInitInv == (Key # {} /\ LruInit) => LInv
<1> SUFFICES ASSUME Key # {}, LruInit PROVE LInv
  OBVIOUS
<1>1. (CHOOSE k \in Key : TRUE) \in Key
  OBVIOUS
<1>2. /\ entries \in [Key -> 0..made] /\ keyOf \in [Entry -> Key]
      /\ made = 0 /\ lru = <<>> /\ fresh = {}
  <2>1. made = 0 /\ lru = <<>> /\ fresh = {} /\ 0 \in 0..made
    BY DEF LruInit
  <2>2. entries = [k \in Key |-> 0]
    BY DEF LruInit, None
  <2>3. entries \in [Key -> 0..made]
    BY <2>1, <2>2
  <2>4. keyOf \in [Entry -> Key]
    BY <1>1 DEF LruInit
  <2> QED BY <2>1, <2>3, <2>4
<1>3. lru \in Seq(1..made) /\ Len(lru) = 0
  BY <1>2
<1>4. \A k \in Key : entries[k] = None
  BY DEF LruInit
<1> QED BY <1>2, <1>3, <1>4 DEF LInv, LruTypeOK, Bounded

LEMMA LruStepInv == LInv /\ [LruNext]_lruVars => LInv'
<1> SUFFICES ASSUME LInv, [LruNext]_lruVars PROVE LInv'
  OBVIOUS
<1>1. CASE \E k \in Key : entries[k] = None /\ Add(k)
  BY <1>1, AddKeeps
<1>2. CASE \E e \in 1..made : DelEntry(e) \/ Use(e)
  BY <1>2, DelEntryKeeps, UseKeeps
<1>3. CASE Expire
  BY <1>3 DEF Expire, LInv, LruTypeOK, Bounded, Listed
<1>4. CASE UNCHANGED lruVars
  BY <1>4 DEF lruVars, LInv, LruTypeOK, Bounded, Listed
<1> QED BY <1>1, <1>2, <1>3, <1>4 DEF LruNext

\* However many callers there are and whatever entries they still hold: the
\* list never outgrows the size of the cache, and the map returns only entries
\* that eviction can reach.
THEOREM BoundedHolds ==
    ASSUME Key # {}
    PROVE  LruSpec => []Bounded
<1>1. LInv => Bounded
  BY DEF LInv
<1> QED BY <1>1, LruInitInv, LruStepInv, PTL DEF LruSpec

-----------------------------------------------------------------------------
(***************************************************************************)
(* ResultCache.                                                            *)
(***************************************************************************)
USE ResultAssumption

\* A Get that holds an entry.
Getting == {"found", "expired", "fresh", "reading", "returning"}

Shapes ==
    /\ pc \in [Client -> Getting \cup {"idle", "missed", "putting"}]
    /\ held \in [Client -> 0..made]
    /\ got \in [Client -> Nat] /\ since \in [Client -> Nat]
    /\ first \in [Entry -> Nat] /\ second \in [Entry -> Nat]
    /\ stored \in [Key -> Nat] /\ puts \in Nat
    /\ \A c \in Client : pc[c] \in Getting \cup {"putting"} => held[c] # None

\* The client that is in the middle of a Put has the mutex.
Locked ==
    /\ \A c \in Client : pc[c] = "putting" =>
          mu = c /\ entries[keyOf[held[c]]] = held[c]
    /\ mu = "free" => \A c \in Client : pc[c] # "putting"

\* The parts of a result grow with every Put, the first one first.
Ordered == \A e \in Entry : second[e] <= first[e] /\ first[e] <= puts

\* What the map has is what was stored, or is being stored.
Current ==
    \A k \in Key : entries[k] # None =>
       stored[k] <= first[entries[k]] /\ stored[k] <= second[entries[k]]

\* What a Get holds is not older than what was stored when it began.
HeldIsCurrent ==
    \A c \in Client :
       /\ pc[c] \in Getting => /\ since[c] <= first[held[c]]
                               /\ since[c] <= second[held[c]]
       /\ pc[c] = "returning" => since[c] <= got[c]

GetInv == Shapes /\ Locked /\ Ordered /\ Current /\ HeldIsCurrent
IInv == LInv /\ GetInv /\ result \in [Client -> Nat \X Nat]

LEMMA MadeIsNat ==
    ASSUME LInv
    PROVE  /\ made \in Nat /\ (1..made) \subseteq Entry
           /\ \A k \in Key : entries[k] \in 0..made
           /\ keyOf \in [Entry -> Key] /\ Entry \subseteq Nat /\ 0 \notin Entry
BY DEF LInv, LruTypeOK, Entry

\* Every step does to the map and the list what LruNext allows.
LEMMA StepRefines ==
    ASSUME IInv, [Next]_vars
    PROVE  [LruNext]_lruVars
<1> USE MadeIsNat DEF IInv
<1>h. \A c \in Client : pc[c] \in Getting \cup {"putting"} => held[c] \in 1..made
  BY DEF GetInv, Shapes, None
<1>1. ASSUME NEW c \in Client, NEW k \in Key, PutNew(c, k)
      PROVE  LruNext
  BY <1>1 DEF PutNew, LruNext
<1>2. ASSUME NEW c \in Client, Drop(c)
      PROVE  LruNext
  BY <1>2, <1>h DEF Drop, LruNext, Getting
<1>3. ASSUME NEW c \in Client, Touch(c)
      PROVE  LruNext
  <2>1. held[c] \in 1..made /\ Use(held[c])
    BY <1>3, <1>h DEF Touch, Use, Getting
  <2> QED BY <2>1 DEF LruNext
<1>4. ASSUME NEW c \in Client, FinishPut(c)
      PROVE  LruNext
  <2>1. held[c] \in 1..made /\ Use(held[c])
    BY <1>4, <1>h DEF FinishPut, Use
  <2> QED BY <2>1 DEF LruNext
<1>5. ASSUME NEW c \in Client,
             \/ \E k \in Key : Lookup(c, k) \/ PutOver(c, k)
             \/ Missed(c) \/ CheckTTL(c) \/ ReadFirst(c) \/ ReadSecond(c)
      PROVE  UNCHANGED lruVars
  BY <1>5 DEF Lookup, PutOver, Missed, CheckTTL, ReadFirst, ReadSecond, lruVars
<1>6. CASE Expire
  BY <1>6 DEF LruNext
<1>7. CASE UNCHANGED vars
  BY <1>7 DEF vars
<1> QED BY <1>1, <1>2, <1>3, <1>4, <1>5, <1>6, <1>7 DEF Next

LEMMA CacheInit == Key # {} /\ Init => IInv
<1> SUFFICES ASSUME Key # {}, Init PROVE IInv
  OBVIOUS
<1>1. LInv
  BY LruInitInv DEF Init
<1>2. /\ made = 0 /\ held = [c \in Client |-> 0]
      /\ \A k \in Key : entries[k] = None
  BY DEF Init, LruInit, None
<1>3. Shapes
  BY <1>2 DEF Init, Shapes, Getting
<1>4. Locked /\ Ordered /\ Current /\ HeldIsCurrent
  BY <1>2 DEF Init, Locked, Ordered, Current, HeldIsCurrent, Getting
<1>5. result \in [Client -> Nat \X Nat]
  BY DEF Init
<1> QED BY <1>1, <1>3, <1>4, <1>5 DEF IInv, GetInv

\* An entry leaves the map, or the map stays: what it has is still current.
LEMMA CurrentStays ==
    ASSUME Current, UNCHANGED <<first, second, stored>>,
           \A k \in Key : entries'[k] \in {None, entries[k]}
    PROVE  Current'
BY DEF Current, None

LEMMA AddEffect ==
    ASSUME LInv, NEW k \in Key, Add(k)
    PROVE  /\ made' = made + 1 /\ made' \in Entry
           /\ keyOf' = [keyOf EXCEPT ![made'] = k]
           /\ \A j \in Key : entries'[j] \in {None, entries[j]} \/
                             (j = k /\ entries'[j] = made')
<1>1. entries \in [Key -> 0..made]
  BY DEF LInv, LruTypeOK
<1> QED BY <1>1 DEF Add

LEMMA StepKeepsGetInv ==
    ASSUME IInv, [Next]_vars
    PROVE  GetInv'
<1> USE MadeIsNat DEF IInv, GetInv
<1>h. /\ \A c \in Client : pc[c] \in Getting \cup {"putting"} =>
                              held[c] \in 1..made /\ held[c] \in Entry
      /\ pc \in [Client -> Getting \cup {"idle", "missed", "putting"}]
      /\ held \in [Client -> 0..made] /\ puts \in Nat
      /\ first \in [Entry -> Nat] /\ second \in [Entry -> Nat]
      /\ got \in [Client -> Nat] /\ since \in [Client -> Nat]
      /\ stored \in [Key -> Nat]
  BY DEF Shapes, None
<1>e. \A k \in Key : entries[k] # None => entries[k] \in Entry /\ keyOf[entries[k]] = k
  BY DEF LInv, Bounded, None
<1>1. ASSUME NEW c \in Client, NEW k \in Key, Lookup(c, k)
      PROVE  GetInv'
  <2> USE <1>1 DEF Lookup, Goto
  <2>1. Shapes'
    BY <1>h DEF Shapes, lruVars, resultVars, Getting
  <2>2. Locked'
    BY <1>h DEF Locked, lruVars, resultVars
  <2>3. Ordered' /\ Current'
    BY DEF Ordered, Current, lruVars, resultVars
  <2>4. HeldIsCurrent'
    BY <1>h DEF HeldIsCurrent, Current, Getting, resultVars
  <2> QED BY <2>1, <2>2, <2>3, <2>4
<1>2. ASSUME NEW c \in Client,
             Missed(c) \/ CheckTTL(c) \/ ReadFirst(c) \/ ReadSecond(c) \/ Touch(c)
      PROVE  GetInv'
  <2>1. /\ UNCHANGED <<entries, keyOf, made, resultVars, mu, held, since>>
        /\ pc[c] \in Getting \cup {"missed"}
        /\ \/ /\ Goto(c, "idle") \/ (Goto(c, "reading") /\ pc[c] = "fresh")
                                 \/ (pc[c] = "found" /\ CheckTTL(c))
              /\ got' = got
           \/ /\ pc[c] = "reading" /\ Goto(c, "returning")
              /\ got' = [got EXCEPT ![c] = first[held[c]]]
    BY <1>2 DEF Missed, CheckTTL, ReadFirst, ReadSecond, Touch, lruVars, getVars,
       Getting
  <2>2. /\ pc' \in [Client -> Getting \cup {"idle", "missed", "putting"}]
        /\ \A d \in Client : d # c => pc'[d] = pc[d]
        /\ pc'[c] \in Getting \cup {"idle"}
        /\ pc'[c] \in Getting => pc[c] \in Getting
        /\ pc'[c] = "returning" => got'[c] = first[held[c]]
        /\ \A d \in Client : d # c => got'[d] = got[d]
        /\ got' \in [Client -> Nat]
    BY <2>1, <1>h DEF Goto, Getting, CheckTTL
  <2>3. Shapes'
    BY <2>1, <2>2, <1>h DEF Shapes, resultVars, Getting
  <2>4. Locked'
    BY <2>1, <2>2 DEF Locked, Getting
  <2>5. Ordered' /\ Current'
    BY <2>1 DEF Ordered, Current, resultVars
  <2>6. HeldIsCurrent'
    BY <2>1, <2>2 DEF HeldIsCurrent, resultVars
  <2> QED BY <2>3, <2>4, <2>5, <2>6
<1>3. ASSUME NEW c \in Client, Drop(c)
      PROVE  GetInv'
  <2> USE <1>3 DEF Drop, Goto, DelEntry
  <2>0. \A k \in Key : entries'[k] \in {None, entries[k]}
    BY DEF LInv, LruTypeOK
  <2>1. Shapes'
    BY <1>h DEF Shapes, resultVars, Getting
  <2>2. Locked'
    BY <1>h DEF Locked
  <2>3. Ordered' /\ Current'
    BY <2>0, CurrentStays DEF Ordered, resultVars
  <2>4. HeldIsCurrent'
    BY <1>h DEF HeldIsCurrent, resultVars, Getting
  <2> QED BY <2>1, <2>2, <2>3, <2>4
<1>4. ASSUME NEW c \in Client, NEW k \in Key, PutNew(c, k)
      PROVE  GetInv'
  <2> DEFINE e == made + 1
  <2>1. /\ e \in Entry /\ made' = e /\ puts' = puts + 1
        /\ first' = [first EXCEPT ![e] = puts + 1]
        /\ second' = [second EXCEPT ![e] = puts + 1]
        /\ stored' = [stored EXCEPT ![k] = puts + 1]
        /\ UNCHANGED <<mu, pc, held, got, since>> /\ mu = "free"
    BY <1>4, AddEffect DEF PutNew, getVars
  <2>2. \A j \in Key : entries'[j] \in {None, entries[j]} \/
                       (j = k /\ entries'[j] = e)
    BY <1>4, <2>1, AddEffect DEF PutNew
  <2>3. entries[k] = None
    BY <1>4 DEF PutNew
  <2>4. Shapes'
    BY <1>h, <2>1 DEF Shapes
  <2>5. Locked'
    BY <1>h, <2>1 DEF Locked
  <2>6. Ordered'
    BY <1>h, <2>1 DEF Ordered
  <2>7. \A f \in 1..made : f \in Entry /\ f # e /\ first'[f] = first[f]
                           /\ second'[f] = second[f]
    BY <1>h, <2>1
  <2>8. Current'
    <3> SUFFICES ASSUME NEW j \in Key, entries'[j] # None
                 PROVE  /\ stored'[j] <= first'[entries'[j]]
                        /\ stored'[j] <= second'[entries'[j]]
      BY DEF Current
    <3>1. CASE j = k
      BY <1>h, <2>1, <2>2, <2>3, <3>1
    <3>2. CASE j # k
      <4>1. /\ entries'[j] = entries[j] /\ entries[j] \in 1..made
            /\ stored'[j] = stored[j]
        BY <1>h, <2>1, <2>2, <3>2 DEF None
      <4> QED BY <2>7, <4>1 DEF Current
    <3> QED BY <3>1, <3>2
  <2>9. HeldIsCurrent'
    BY <1>h, <2>1, <2>7 DEF HeldIsCurrent
  <2> QED BY <2>4, <2>5, <2>6, <2>8, <2>9
<1>5. ASSUME NEW c \in Client, NEW k \in Key, PutOver(c, k)
      PROVE  GetInv'
  <2> DEFINE e == entries[k]
  <2>1. /\ e \in Entry /\ e # None /\ keyOf[e] = k /\ puts' = puts + 1
        /\ first' = [first EXCEPT ![e] = puts + 1]
        /\ UNCHANGED <<entries, keyOf, made, second, stored, got, since>>
        /\ mu = "free" /\ mu' = c /\ pc[c] = "idle"
        /\ held' = [held EXCEPT ![c] = e]
        /\ pc' = [pc EXCEPT ![c] = "putting"]
    BY <1>5, <1>e DEF PutOver, Goto, lruVars, getVars
  <2>2. \A f \in Entry : first[f] <= first'[f] /\ first'[f] \in Nat
    BY <1>h, <2>1 DEF Ordered
  <2>3. Shapes'
    BY <1>h, <2>1, <2>2 DEF Shapes, Getting
  <2>4. Locked'
    BY <1>h, <2>1 DEF Locked
  <2>5. Ordered'
    BY <1>h, <2>1 DEF Ordered
  <2>6. Current'
    BY <1>h, <1>e, <2>1, <2>2 DEF Current
  <2>7. HeldIsCurrent'
    BY <1>h, <2>1, <2>2 DEF HeldIsCurrent, Getting
  <2> QED BY <2>3, <2>4, <2>5, <2>6, <2>7
<1>6. ASSUME NEW c \in Client, FinishPut(c)
      PROVE  GetInv'
  <2> DEFINE e == held[c]
  <2>1. /\ e \in Entry /\ entries[keyOf[e]] = e /\ mu = c /\ keyOf[e] \in Key
        /\ second' = [second EXCEPT ![e] = first[e]]
        /\ stored' = [stored EXCEPT ![keyOf[e]] = first[e]]
        /\ UNCHANGED <<entries, keyOf, made, first, puts, held, got, since>>
        /\ mu' = "free" /\ pc[c] = "putting"
        /\ pc' = [pc EXCEPT ![c] = "idle"]
    BY <1>6, <1>h DEF FinishPut, Goto, getVars, Locked
  <2>2. \A f \in Entry : second[f] <= second'[f] /\ second'[f] \in Nat
    BY <1>h, <2>1 DEF Ordered
  <2>3. Shapes'
    BY <1>h, <2>1 DEF Shapes, Getting
  <2>4. Locked'
    BY <1>h, <2>1 DEF Locked
  <2>5. Ordered'
    BY <1>h, <2>1 DEF Ordered
  <2>6. Current'
    <3> SUFFICES ASSUME NEW j \in Key, entries'[j] # None
                 PROVE  /\ stored'[j] <= first'[entries'[j]]
                        /\ stored'[j] <= second'[entries'[j]]
      BY DEF Current
    <3>1. CASE j = keyOf[e]
      BY <1>h, <2>1, <3>1
    <3>2. CASE j # keyOf[e]
      <4>1. entries[j] \in Entry /\ entries[j] # e /\ entries'[j] = entries[j]
        BY <1>e, <2>1, <3>2
      <4> QED BY <1>h, <2>1, <3>2, <4>1 DEF Current
    <3> QED BY <3>1, <3>2
  <2>7. HeldIsCurrent'
    BY <1>h, <2>1, <2>2 DEF HeldIsCurrent, Getting
  <2> QED BY <2>3, <2>4, <2>5, <2>6, <2>7
<1>7. CASE Expire /\ UNCHANGED <<resultVars, mu, pc, held, got, getVars>>
  BY <1>7 DEF Expire, Shapes, Locked, Ordered, Current, HeldIsCurrent, resultVars,
     getVars
<1>8. CASE UNCHANGED vars
  BY <1>8 DEF vars, lruVars, Shapes, Locked, Ordered, Current, HeldIsCurrent
<1> QED
  BY <1>1, <1>2, <1>3, <1>4, <1>5, <1>6, <1>7, <1>8 DEF Next

LEMMA StepKeepsResult ==
    ASSUME IInv, [Next]_vars
    PROVE  result' \in [Client -> Nat \X Nat]
<1>1. ASSUME NEW c \in Client, ReadSecond(c)
      PROVE  result' \in [Client -> Nat \X Nat]
  <2>1. held[c] \in Entry
    BY <1>1, MadeIsNat DEF IInv, GetInv, Shapes, ReadSecond, Getting, None
  <2>2. <<got[c], second[held[c]]>> \in Nat \X Nat
    BY <2>1 DEF IInv, GetInv, Shapes
  <2> QED BY <1>1, <2>2 DEF IInv, ReadSecond
<1>2. ASSUME NEW c \in Client,
             \/ \E k \in Key : Lookup(c, k) \/ PutNew(c, k) \/ PutOver(c, k)
             \/ Missed(c) \/ CheckTTL(c) \/ Drop(c) \/ Touch(c)
             \/ ReadFirst(c) \/ FinishPut(c)
      PROVE  result' = result
  BY <1>2 DEF Lookup, PutNew, PutOver, Missed, CheckTTL, Drop, Touch, ReadFirst,
     FinishPut, getVars
<1>3. CASE (Expire /\ UNCHANGED getVars) \/ UNCHANGED vars
  BY <1>3 DEF getVars, vars, IInv
<1> QED BY <1>1, <1>2, <1>3 DEF Next, IInv

LEMMA Invariant == Key # {} => (Spec => []IInv)
<1>1. IInv /\ [Next]_vars => IInv'
  <2> SUFFICES ASSUME IInv, [Next]_vars PROVE IInv'
    OBVIOUS
  <2>1. LInv'
    BY StepRefines, LruStepInv DEF IInv
  <2> QED BY <2>1, StepKeepsGetInv, StepKeepsResult DEF IInv
<1> QED BY <1>1, CacheInit, PTL DEF Spec

\* ResultCache, with Gets that use an entry the map no longer has, does
\* nothing to the map and the list that LruEntries does not allow.
THEOREM ImplementsLru ==
    ASSUME Key # {}
    PROVE  Spec => LruSpec
<1>1. Init => LruInit
  BY DEF Init
<1>2. IInv /\ [Next]_vars => [LruNext]_lruVars
  BY StepRefines
<1> QED BY <1>1, <1>2, Invariant, PTL DEF Spec, LruSpec

\* The cache never grows beyond its size, whatever its callers do at once.
THEOREM CacheBoundedHolds ==
    ASSUME Key # {}
    PROVE  Spec => []Bounded
BY ImplementsLru, BoundedHolds, PTL

\* A Get returns what had been stored when it began, or something newer.
THEOREM ReturnsLatestHolds ==
    ASSUME Key # {}
    PROVE  Spec => ReturnsLatest
<1>1. ASSUME IInv, NEW c \in Client, ReadSecond(c)
      PROVE  result'[c][1] >= since[c] /\ result'[c][2] >= since[c]
  <2>1. result'[c] = <<got[c], second[held[c]]>>
    BY <1>1 DEF IInv, ReadSecond
  <2>2. since[c] <= got[c] /\ since[c] <= second[held[c]]
    BY <1>1 DEF IInv, GetInv, HeldIsCurrent, ReadSecond, Getting
  <2> QED BY <2>1, <2>2
<1>2. IInv /\ [Next]_vars =>
         [\A c \in Client : ReadSecond(c) =>
             /\ result'[c][1] >= since[c] /\ result'[c][2] >= since[c]]_vars
  BY <1>1
<1> QED BY <1>2, Invariant, PTL DEF Spec, ReturnsLatest
-----------------------------------------------------------------------------
(***************************************************************************)
(* What a Get drops.  The numbers of the puts tell whether the key of its  *)
(* entry was written since the Get began.                                  *)
(***************************************************************************)
\* What is stored was put, and what is being put is newer than all of it.
PutsGrow ==
    /\ \A k \in Key : stored[k] <= puts
    /\ \A c \in Client : pc[c] = "putting" =>
          first[held[c]] = puts /\ \A k \in Key : stored[k] < puts

\* Unless its key was written, an entry that a Get looks at, or found too old,
\* is the one in the map and too old, or the map has none.
LooksAt(c) ==
    LET k == keyOf[held[c]] IN
    /\ since[c] <= stored[k]
    /\ stored[k] = since[c] =>
          /\ entries[k] \in {None, held[c]}
          /\ pc[c] = "expired" => entries[k] = None \/ entries[k] \notin fresh

DropInv ==
    /\ PutsGrow
    /\ \A c \in Client : pc[c] \in {"found", "expired"} => LooksAt(c)

\* Nothing is stored, the map only loses entries and no entry becomes fresh.
Quiet ==
    /\ UNCHANGED <<stored, since>>
    /\ \A k \in Key : entries'[k] \in {None, entries[k]}
    /\ fresh' \subseteq fresh

LEMMA LooksQuietly ==
    ASSUME IInv, Quiet, NEW c \in Client, LooksAt(c),
           pc[c] \in {"found", "expired"}, pc'[c] = pc[c], held'[c] = held[c],
           keyOf'[held[c]] = keyOf[held[c]]
    PROVE  LooksAt(c)'
<1>1. keyOf[held[c]] \in Key
  BY MadeIsNat DEF IInv, GetInv, Shapes, Getting, None
<1> QED BY <1>1 DEF LooksAt, Quiet, None

LEMMA DropStep == IInv /\ DropInv /\ [Next]_vars => DropInv'
<1> SUFFICES ASSUME IInv, DropInv, [Next]_vars PROVE DropInv'
  OBVIOUS
<1>h. /\ \A c \in Client : pc[c] \in Getting \cup {"putting"} =>
                 held[c] \in 1..made /\ held[c] \in Entry /\ keyOf[held[c]] \in Key
      /\ pc \in [Client -> Getting \cup {"idle", "missed", "putting"}]
      /\ held \in [Client -> 0..made] /\ puts \in Nat /\ made \in Nat
      /\ first \in [Entry -> Nat] /\ since \in [Client -> Nat]
      /\ stored \in [Key -> Nat] /\ keyOf \in [Entry -> Key]
      /\ \A k \in Key : entries[k] \in 0..made
  BY MadeIsNat DEF IInv, GetInv, Shapes, None
<1>e. \A k \in Key : entries[k] # None => entries[k] \in Entry /\ keyOf[entries[k]] = k
  BY <1>h, MadeIsNat DEF IInv, LInv, Bounded, None
<1>f. mu = "free" => \A c \in Client : pc[c] # "putting"
  BY DEF IInv, GetInv, Locked
<1>g. \A c, d \in Client : pc[c] = "putting" /\ pc[d] = "putting" => c = d
  BY DEF IInv, GetInv, Locked
<1> USE DEF Goto, Getting
<1>1. ASSUME NEW c \in Client, NEW k \in Key, Lookup(c, k) PROVE DropInv'
  <2>1. /\ UNCHANGED <<stored, entries, fresh, keyOf, first, puts>>
        /\ held' = [held EXCEPT ![c] = entries[k]]
        /\ pc' = [pc EXCEPT ![c] = IF entries[k] = None THEN "missed" ELSE "found"]
        /\ since' = [since EXCEPT ![c] = stored[k]]
    BY <1>1 DEF Lookup, lruVars, resultVars
  <2>2. PutsGrow'
    BY <1>h, <2>1 DEF DropInv, PutsGrow
  <2>3. ASSUME NEW d \in Client, pc'[d] \in {"found", "expired"} PROVE LooksAt(d)'
    <3>1. CASE d = c
      BY <1>h, <1>e, <2>1, <2>3, <3>1 DEF LooksAt
    <3>2. CASE d # c
      BY <1>h, <2>1, <2>3, <3>2 DEF DropInv, LooksAt
    <3> QED BY <3>1, <3>2
  <2> QED BY <2>2, <2>3 DEF DropInv
<1>2. ASSUME NEW c \in Client, CheckTTL(c) PROVE DropInv'
  <2>1. /\ UNCHANGED <<stored, since, entries, fresh, keyOf, first, puts, held>>
        /\ pc[c] = "found"
        /\ pc' = [pc EXCEPT ![c] = IF held[c] \in fresh THEN "fresh" ELSE "expired"]
    BY <1>2 DEF CheckTTL, lruVars, resultVars, getVars
  <2>2. PutsGrow'
    BY <1>h, <2>1 DEF DropInv, PutsGrow
  <2>3. ASSUME NEW d \in Client, pc'[d] \in {"found", "expired"} PROVE LooksAt(d)'
    <3>1. CASE d = c
      BY <1>h, <2>1, <2>3, <3>1 DEF DropInv, LooksAt
    <3>2. CASE d # c
      BY <1>h, <2>1, <2>3, <3>2 DEF DropInv, LooksAt
    <3> QED BY <3>1, <3>2
  <2> QED BY <2>2, <2>3 DEF DropInv
<1>3. ASSUME NEW c \in Client,
             Missed(c) \/ Drop(c) \/ Touch(c) \/ ReadFirst(c) \/ ReadSecond(c)
      PROVE  DropInv'
  <2>1. /\ UNCHANGED <<stored, since, fresh, keyOf, first, puts, held>>
        /\ \A k \in Key : entries'[k] \in {None, entries[k]}
        /\ \E there \in {"idle", "reading", "returning"} :
              pc' = [pc EXCEPT ![c] = there]
    BY <1>h, <1>3 DEF Missed, Drop, Touch, ReadFirst, ReadSecond, DelEntry, lruVars,
       resultVars, getVars, IInv, LInv, LruTypeOK
  <2>2. PutsGrow'
    BY <1>h, <2>1 DEF DropInv, PutsGrow
  <2>3. ASSUME NEW d \in Client, pc'[d] \in {"found", "expired"} PROVE LooksAt(d)'
    <3>1. pc'[d] = pc[d]
      BY <1>h, <2>1, <2>3
    <3> QED BY <2>1, <2>3, <3>1, LooksQuietly DEF DropInv, Quiet
  <2> QED BY <2>2, <2>3 DEF DropInv
<1>4. ASSUME NEW c \in Client, NEW k \in Key, PutNew(c, k) PROVE DropInv'
  <2>1. /\ puts' = puts + 1 /\ stored' = [stored EXCEPT ![k] = puts']
        /\ UNCHANGED <<pc, held, since>> /\ mu = "free"
        /\ Add(k)
    BY <1>4 DEF PutNew, getVars
  <2>2. /\ made' = made + 1 /\ made' \in Entry
        /\ keyOf' = [keyOf EXCEPT ![made'] = k]
        /\ \A j \in Key : entries'[j] \in {None, entries[j]} \/
                          (j = k /\ entries'[j] = made')
        /\ fresh' = fresh \cup {made'}
    BY <2>1, AddEffect DEF IInv, Add
  <2>3. PutsGrow'
    BY <1>h, <1>f, <2>1 DEF DropInv, PutsGrow
  <2>4. ASSUME NEW d \in Client, pc'[d] \in {"found", "expired"} PROVE LooksAt(d)'
    <3>1. pc[d] = pc'[d] /\ held[d] \in 1..made /\ LooksAt(d)
      BY <1>h, <2>1, <2>4 DEF DropInv
    <3>2. keyOf'[held[d]] = keyOf[held[d]] /\ keyOf[held[d]] \in Key
      <4>1. held[d] \in Entry /\ keyOf[held[d]] \in Key
        BY <1>h, <2>1, <2>4
      <4>2. held[d] # made'
        BY <1>h, <2>2, <3>1
      <4> QED BY <1>h, <2>2, <4>1, <4>2
    <3>3. CASE keyOf[held[d]] = k
      <4>1. since[d] <= stored[k] /\ stored[k] <= puts /\ stored'[k] = puts + 1
        BY <1>h, <2>1, <3>1, <3>3 DEF LooksAt, DropInv, PutsGrow
      <4>2. since'[d] < stored'[k] /\ keyOf'[held'[d]] = k
        BY <1>h, <2>1, <3>2, <3>3, <4>1
      <4>3. since'[d] \in Nat /\ stored'[k] \in Nat
        BY <1>h, <2>1, <4>1
      <4> QED BY <4>2, <4>3 DEF LooksAt
    <3>4. CASE keyOf[held[d]] # k
      <4> DEFINE j == keyOf[held[d]]
      <4>1. entries'[j] \in {None, entries[j]} /\ stored'[j] = stored[j]
        BY <1>h, <2>1, <2>2, <3>2, <3>4
      <4>2. entries'[j] \in fresh' => entries'[j] \in fresh
        BY <1>h, <2>2, <3>2, <4>1 DEF None
      <4>3. keyOf'[held'[d]] = j /\ held'[d] = held[d] /\ since'[d] = since[d]
        BY <2>1, <3>2
      <4> HIDE DEF j
      <4>4. LooksAt(d) /\ j = keyOf[held[d]]
        BY <3>1 DEF j
      <4> QED BY <3>1, <4>1, <4>2, <4>3, <4>4 DEF LooksAt, None
    <3> QED BY <3>3, <3>4
  <2> QED BY <2>3, <2>4 DEF DropInv
<1>5. ASSUME NEW c \in Client, NEW k \in Key, PutOver(c, k) PROVE DropInv'
  <2>1. /\ puts' = puts + 1 /\ mu = "free"
        /\ UNCHANGED <<entries, keyOf, fresh, stored, since>>
        /\ held' = [held EXCEPT ![c] = entries[k]]
        /\ first' = [first EXCEPT ![entries[k]] = puts']
        /\ pc' = [pc EXCEPT ![c] = "putting"] /\ entries[k] # None
    BY <1>5 DEF PutOver, lruVars, getVars
  <2>2. PutsGrow'
    <3>1. \A j \in Key : stored'[j] <= puts' /\ stored'[j] < puts'
      BY <1>h, <2>1 DEF DropInv, PutsGrow
    <3>2. ASSUME NEW d \in Client, pc'[d] = "putting" PROVE first'[held'[d]] = puts'
      <4>1. d = c
        BY <1>h, <1>f, <2>1, <3>2
      <4> QED BY <1>h, <1>e, <2>1, <4>1
    <3> QED BY <3>1, <3>2 DEF PutsGrow
  <2>3. ASSUME NEW d \in Client, pc'[d] \in {"found", "expired"} PROVE LooksAt(d)'
    <3>1. d # c
      BY <1>h, <2>1, <2>3
    <3> QED BY <1>h, <2>1, <2>3, <3>1 DEF DropInv, LooksAt
  <2> QED BY <2>2, <2>3 DEF DropInv
<1>6. ASSUME NEW c \in Client, FinishPut(c) PROVE DropInv'
  <2> DEFINE k == keyOf[held[c]]
  <2>1. /\ UNCHANGED <<entries, keyOf, first, puts, held, since>>
        /\ fresh' = fresh \cup {held[c]}
        /\ stored' = [stored EXCEPT ![k] = first[held[c]]]
        /\ pc[c] = "putting" /\ pc' = [pc EXCEPT ![c] = "idle"]
    BY <1>6 DEF FinishPut, getVars
  <2>2. /\ first[held[c]] = puts /\ k \in Key
        /\ \A j \in Key : stored[j] < puts
    BY <1>h, <2>1 DEF DropInv, PutsGrow
  <2>3. \A d \in Client : pc'[d] # "putting"
    BY <1>h, <1>g, <2>1
  <2>4. PutsGrow'
    BY <1>h, <2>1, <2>2, <2>3 DEF PutsGrow
  <2>5. ASSUME NEW d \in Client, pc'[d] \in {"found", "expired"} PROVE LooksAt(d)'
    <3>1. pc[d] = pc'[d] /\ keyOf[held[d]] \in Key /\ LooksAt(d)
      BY <1>h, <2>1, <2>5 DEF DropInv
    <3>2. CASE keyOf[held[d]] = k
      <4>1. since[d] <= stored[k] /\ stored[k] < puts /\ stored'[k] = puts
        BY <1>h, <2>1, <2>2, <3>1, <3>2 DEF LooksAt
      <4>2. since'[d] < stored'[k] /\ keyOf'[held'[d]] = k
        BY <1>h, <2>1, <2>2, <3>2, <4>1
      <4>3. since'[d] \in Nat /\ stored'[k] \in Nat
        BY <1>h, <2>1, <4>1
      <4> QED BY <4>2, <4>3 DEF LooksAt
    <3>3. CASE keyOf[held[d]] # k
      <4> DEFINE j == keyOf[held[d]]
      <4>1. stored'[j] = stored[j] /\ j \in Key
        BY <1>h, <2>1, <3>1, <3>3
      <4>2. entries[j] # None => entries[j] # held[c]
        BY <1>e, <3>3, <4>1
      <4> HIDE DEF j
      <4>3. j = keyOf[held[d]] /\ LooksAt(d)
        BY <3>1 DEF j
      <4> QED BY <2>1, <3>1, <4>1, <4>2, <4>3 DEF LooksAt
    <3> QED BY <3>2, <3>3
  <2> QED BY <2>4, <2>5 DEF DropInv
<1>7. CASE Expire /\ UNCHANGED <<resultVars, mu, pc, held, got, getVars>>
  <2>1. /\ UNCHANGED <<stored, since, keyOf, first, puts, held, pc, entries>>
        /\ fresh' \subseteq fresh
    BY <1>7 DEF Expire, resultVars, getVars
  <2>2. Quiet
    BY <2>1 DEF Quiet
  <2> QED BY <2>1, <2>2, LooksQuietly DEF DropInv, PutsGrow
<1>8. CASE UNCHANGED vars
  <2>1. UNCHANGED <<stored, since, keyOf, first, puts, held, pc, entries, fresh>>
    BY <1>8 DEF vars, lruVars, resultVars, getVars
  <2> QED BY <2>1 DEF DropInv, PutsGrow, LooksAt
<1> QED BY <1>1, <1>2, <1>3, <1>4, <1>5, <1>6, <1>7, <1>8 DEF Next

\* A Get takes an entry out of the map only when it is too old, unless a Put
\* of its key overlapped the Get, for any number of callers and keys.
THEOREM DropsOnlyExpiredHolds ==
    ASSUME Key # {}
    PROVE  Spec => DropsOnlyExpired
<1>1. Init => DropInv
  BY DEF Init, DropInv, PutsGrow
<1>2. DropInv => \A c \in Client : Drop(c) /\ Undisturbed(c) =>
          LET e == entries[keyOf[held[c]]] IN e # None => e \notin fresh
  BY DEF DropInv, LooksAt, Drop, Undisturbed
<1>3. Spec => []IInv
  BY Invariant
<1> QED BY <1>1, <1>2, <1>3, DropStep, PTL DEF Spec, DropsOnlyExpired

-----------------------------------------------------------------------------
(***************************************************************************)
(* DNSCache, on the same entries.                                          *)
(***************************************************************************)
VARIABLES host, used

D == INSTANCE DNSCache

\* What a Lookup asks the resolver for is a key.
DnsInv == LInv /\ host \in [Client -> Key]

\* The helpers of both caches are the same.
LEMMA SameHelpers ==
    /\ D!LruInit => LruInit
    /\ D!Expire => Expire
    /\ \A e : D!DelEntry(e) => DelEntry(e)
    /\ \A e : D!MoveToFront(e) => MoveToFront(e)
    /\ \A k : D!Add(k) => Add(k)
    /\ D!None = None
<1>1. \A s, e : D!Without(s, e) = Without(s, e)
  BY DEF D!Without, Without
<1>2. D!Entry = Entry /\ D!None = None /\ D!Listed = Listed
  BY DEF D!Entry, Entry, D!None, None, D!Listed, Listed
<1>3. D!LruInit => LruInit
  BY <1>2 DEF D!LruInit, LruInit
<1>4. D!Expire => Expire
  BY DEF D!Expire, Expire
<1>5. \A e : D!DelEntry(e) => DelEntry(e)
  BY <1>1, <1>2 DEF D!DelEntry, DelEntry
<1>6. \A e : D!MoveToFront(e) => MoveToFront(e)
  BY <1>1, <1>2 DEF D!MoveToFront, MoveToFront
<1>7. \A k : D!Add(k) => Add(k)
  BY <1>2 DEF D!Add, Add, D!Evicts, Evicts
<1> QED BY <1>2, <1>3, <1>4, <1>5, <1>6, <1>7

LEMMA DnsStepRefines ==
    ASSUME DnsInv, [D!Next]_D!vars
    PROVE  [LruNext]_lruVars /\ host' \in [Client -> Key]
<1> USE MadeIsNat, SameHelpers DEF DnsInv
<1>1. ASSUME NEW c \in Client, NEW k \in Key, D!Hit(c, k)
      PROVE  [LruNext]_lruVars /\ host' = host
  <2>1. entries[k] \in 1..made
    BY <1>1 DEF D!Hit, None
  <2>2. Use(entries[k])
    BY <1>1 DEF D!Hit, Use
  <2> QED BY <1>1, <2>1, <2>2 DEF LruNext, D!Hit
<1>2. ASSUME NEW c \in Client, NEW k \in Key, D!Expired(c, k)
      PROVE  [LruNext]_lruVars /\ host' \in [Client -> Key]
  <2>1. entries[k] \in 1..made
    BY <1>2 DEF D!Expired, None
  <2>2. DelEntry(entries[k])
    BY <1>2 DEF D!Expired
  <2> QED BY <1>2, <2>1, <2>2 DEF LruNext, D!Expired, D!Resolves
<1>3. ASSUME NEW c \in Client, NEW k \in Key, D!Miss(c, k)
      PROVE  [LruNext]_lruVars /\ host' \in [Client -> Key]
  BY <1>3 DEF D!Miss, D!Resolves, D!lruVars, lruVars
<1>4. ASSUME NEW c \in Client, D!NoSuchHost(c)
      PROVE  [LruNext]_lruVars /\ host' = host
  BY <1>4 DEF D!NoSuchHost, D!lruVars, lruVars
<1>5. ASSUME NEW c \in Client, D!Set(c)
      PROVE  [LruNext]_lruVars /\ host' = host
  <2>1. host[c] \in Key
    OBVIOUS
  <2>2. CASE entries[host[c]] = None
    <3>1. Add(host[c]) /\ host' = host
      BY <1>5, <2>2 DEF D!Set
    <3> QED BY <2>1, <2>2, <3>1 DEF LruNext
  <2>3. CASE entries[host[c]] # None
    <3>1. entries[host[c]] \in 1..made
      BY <2>1, <2>3 DEF None
    <3>2. Use(entries[host[c]]) /\ host' = host
      BY <1>5, <2>3 DEF D!Set, Use
    <3> QED BY <3>1, <3>2 DEF LruNext
  <2> QED BY <2>2, <2>3
<1>6. ASSUME D!Expire /\ UNCHANGED <<pc, host, used>>
      PROVE  [LruNext]_lruVars /\ host' = host
  BY <1>6 DEF LruNext
<1>7. ASSUME UNCHANGED D!vars
      PROVE  [LruNext]_lruVars /\ host' = host
  BY <1>7 DEF D!vars, D!lruVars, lruVars
<1> QED BY <1>1, <1>2, <1>3, <1>4, <1>5, <1>6, <1>7 DEF D!Next

\* A DNSCache does nothing to its map and list that LruEntries does not allow,
\* so it stays within its size, for any number of concurrent lookups.
THEOREM DnsImplementsLru ==
    ASSUME Key # {}
    PROVE  D!Spec => LruSpec /\ []Bounded
<1>1. D!Init => LruInit /\ DnsInv
  <2>1. (CHOOSE k \in Key : TRUE) \in Key
    OBVIOUS
  <2> QED BY <2>1, SameHelpers, LruInitInv DEF D!Init, DnsInv
<1>2. DnsInv /\ [D!Next]_D!vars => [LruNext]_lruVars /\ DnsInv'
  BY DnsStepRefines, LruStepInv DEF DnsInv
<1>3. LruSpec => []Bounded
  BY BoundedHolds
<1> QED BY <1>1, <1>2, <1>3, PTL DEF D!Spec, LruSpec
-----------------------------------------------------------------------------
(***************************************************************************)
(* Eviction.                                                               *)
(***************************************************************************)
Precedes(s, a, b) == \E p, q \in DOMAIN s : p < q /\ s[p] = a /\ s[q] = b

\* The list has no entry twice, and its entries are in the order of their last
\* use.
InOrder(list, uses) ==
    /\ \A i, j \in DOMAIN list : list[i] = list[j] => i = j
    /\ \A i \in DOMAIN list : \E j \in DOMAIN uses : uses[j] = list[i]
    /\ \A i, j \in DOMAIN list : i < j => Precedes(uses, list[i], list[j])

\* Removing an element changes the order of no two others.
LEMMA WithoutOrder ==
    ASSUME NEW S, NEW s \in Seq(S), NEW e
    PROVE  /\ \A p, q \in DOMAIN s : p < q /\ s[p] # e /\ s[q] # e =>
                 Precedes(Without(s, e), s[p], s[q])
           /\ \A i \in DOMAIN Without(s, e) :
                 \E p \in DOMAIN s : s[p] = Without(s, e)[i]
           /\ \A i, j \in DOMAIN Without(s, e) : i < j =>
                 Precedes(s, Without(s, e)[i], Without(s, e)[j])
           /\ (\A i, j \in DOMAIN s : s[i] = s[j] => i = j) =>
                 /\ \A i \in DOMAIN Without(s, e) : Without(s, e)[i] # e
                 /\ \A i, j \in DOMAIN Without(s, e) :
                       Without(s, e)[i] = Without(s, e)[j] => i = j
<1>1. CASE ~ \E i \in DOMAIN s : s[i] = e
  BY <1>1 DEF Without, Precedes
<1>2. CASE \E i \in DOMAIN s : s[i] = e
  <2> DEFINE at == CHOOSE i \in DOMAIN s : s[i] = e
             t  == [j \in 1..(Len(s) - 1) |-> s[IF j < at THEN j ELSE j + 1]]
  <2>1. at \in 1..Len(s) /\ s[at] = e /\ Len(s) \in Nat /\ DOMAIN s = 1..Len(s)
    BY <1>2
  <2>2. Without(s, e) = t
    BY <1>2 DEF Without
  <2> HIDE DEF at
  <2>3. /\ DOMAIN t = 1..(Len(s) - 1)
        /\ \A j \in 1..(Len(s) - 1) : t[j] = IF j < at THEN s[j] ELSE s[j + 1]
    BY <2>1
  <2> HIDE DEF t
  <2> DEFINE from(j) == IF j < at THEN j ELSE j + 1
             to(i)   == IF i < at THEN i ELSE i - 1
  <2>4. /\ \A j \in DOMAIN t : from(j) \in DOMAIN s \ {at} /\ t[j] = s[from(j)]
        /\ \A i, j \in DOMAIN t : i < j => from(i) < from(j)
        /\ \A i, j \in DOMAIN t : from(i) = from(j) => i = j
    BY <2>1, <2>3
  <2>5. /\ \A i \in DOMAIN s \ {at} : to(i) \in DOMAIN t /\ t[to(i)] = s[i]
        /\ \A i, j \in DOMAIN s \ {at} : i < j => to(i) < to(j)
    <3>1. ASSUME NEW i \in DOMAIN s \ {at} PROVE to(i) \in DOMAIN t /\ t[to(i)] = s[i]
      <4>1. CASE i < at
        BY <2>1, <2>3, <4>1
      <4>2. CASE i > at
        <5>1. i - 1 \in DOMAIN t /\ ~(i - 1 < at) /\ (i - 1) + 1 = i /\ to(i) = i - 1
          BY <2>1, <2>3, <4>2
        <5>2. t[i - 1] = s[(i - 1) + 1]
          BY <2>3, <5>1
        <5> QED BY <5>1, <5>2
      <4> QED BY <2>1, <4>1, <4>2
    <3>2. ASSUME NEW i \in DOMAIN s \ {at}, NEW j \in DOMAIN s \ {at}, i < j
          PROVE  to(i) < to(j)
      BY <2>1, <3>2
    <3> QED BY <3>1, <3>2
  <2> HIDE DEF from, to
  <2>6. ASSUME NEW p \in DOMAIN s, NEW q \in DOMAIN s, p < q, s[p] # e, s[q] # e
        PROVE  Precedes(t, s[p], s[q])
    BY <2>1, <2>5, <2>6 DEF Precedes
  <2>7. ASSUME NEW i \in DOMAIN t, NEW j \in DOMAIN t, i < j
        PROVE  Precedes(s, t[i], t[j])
    BY <2>4, <2>7 DEF Precedes
  <2>8. ASSUME \A i, j \in DOMAIN s : s[i] = s[j] => i = j
        PROVE  /\ \A i \in DOMAIN t : t[i] # e
               /\ \A i, j \in DOMAIN t : t[i] = t[j] => i = j
    BY <2>1, <2>4, <2>8
  <2> QED BY <2>2, <2>4, <2>6, <2>7, <2>8
<1> QED BY <1>1, <1>2

\* What is used comes last in both.
LEMMA OrderOfUse ==
    ASSUME NEW S, NEW list \in Seq(S), NEW uses \in Seq(S), NEW e \in S,
           InOrder(list, uses)
    PROVE  InOrder(Append(Without(list, e), e), Append(Without(uses, e), e))
<1> DEFINE l == Without(list, e)
           u == Without(uses, e)
           ll == Append(l, e)
           uu == Append(u, e)
<1>1. l \in Seq(S) /\ u \in Seq(S)
  BY WithoutFacts
<1>2. /\ \A i \in DOMAIN l : \E p \in DOMAIN list : list[p] = l[i]
      /\ \A i, j \in DOMAIN l : i < j => Precedes(list, l[i], l[j])
      /\ \A i \in DOMAIN l : l[i] # e
      /\ \A i, j \in DOMAIN l : l[i] = l[j] => i = j
  BY WithoutOrder DEF InOrder
<1>3. /\ \A p, q \in DOMAIN uses : p < q /\ uses[p] # e /\ uses[q] # e =>
            Precedes(u, uses[p], uses[q])
      /\ \A i \in DOMAIN uses : uses[i] # e => \E j \in DOMAIN u : u[j] = uses[i]
  BY WithoutFacts, WithoutOrder
<1> HIDE DEF l, u
<1>4. /\ DOMAIN l = 1..Len(l) /\ Len(l) \in Nat /\ DOMAIN ll = 1..(Len(l) + 1)
      /\ \A i \in DOMAIN l : ll[i] = l[i]
      /\ ll[Len(l) + 1] = e
  BY <1>1
<1>5. /\ DOMAIN u = 1..Len(u) /\ Len(u) \in Nat /\ DOMAIN uu = 1..(Len(u) + 1)
      /\ \A i \in DOMAIN u : uu[i] = u[i]
      /\ uu[Len(u) + 1] = e
  BY <1>1
<1> HIDE DEF ll, uu
<1>6. \A i \in DOMAIN l : \E j \in DOMAIN u : u[j] = l[i]
  BY <1>2, <1>3 DEF InOrder
<1>7. ASSUME NEW i \in DOMAIN l, NEW j \in DOMAIN l, i < j
      PROVE  Precedes(u, l[i], l[j])
  <2>1. PICK p \in DOMAIN list, q \in DOMAIN list :
           p < q /\ list[p] = l[i] /\ list[q] = l[j]
    BY <1>2, <1>7 DEF Precedes
  <2>2. Precedes(uses, l[i], l[j])
    BY <2>1 DEF InOrder
  <2>3. PICK m \in DOMAIN uses, n \in DOMAIN uses :
           m < n /\ uses[m] = l[i] /\ uses[n] = l[j]
    BY <2>2 DEF Precedes
  <2> QED BY <1>2, <1>3, <2>3
<1>8. \A i, j \in DOMAIN ll : ll[i] = ll[j] => i = j
  BY <1>2, <1>4
<1>9. \A i \in DOMAIN ll : \E j \in DOMAIN uu : uu[j] = ll[i]
  BY <1>4, <1>5, <1>6
<1>10. ASSUME NEW i \in DOMAIN ll, NEW j \in DOMAIN ll, i < j
       PROVE  Precedes(uu, ll[i], ll[j])
  <2>1. i \in DOMAIN l
    BY <1>4, <1>10
  <2>2. CASE j \in DOMAIN l
    <3>1. PICK p \in DOMAIN u, q \in DOMAIN u : p < q /\ u[p] = l[i] /\ u[q] = l[j]
      BY <1>7, <1>10, <2>1, <2>2 DEF Precedes
    <3>2. p \in DOMAIN uu /\ q \in DOMAIN uu /\ uu[p] = ll[i] /\ uu[q] = ll[j]
      BY <1>4, <1>5, <2>1, <2>2, <3>1
    <3> QED BY <3>1, <3>2 DEF Precedes
  <2>3. CASE j = Len(l) + 1
    <3>1. PICK p \in DOMAIN u : u[p] = l[i]
      BY <1>6, <2>1
    <3>2. /\ p \in DOMAIN uu /\ Len(u) + 1 \in DOMAIN uu /\ p < Len(u) + 1
          /\ uu[p] = ll[i] /\ uu[Len(u) + 1] = ll[j]
      BY <1>4, <1>5, <2>1, <2>3, <3>1
    <3> QED BY <3>2 DEF Precedes
  <2> QED BY <1>4, <2>2, <2>3
<1>11. InOrder(ll, uu)
  BY <1>8, <1>9, <1>10 DEF InOrder
<1> QED BY <1>11 DEF ll, uu, l, u

LEMMA OrderOfRest ==
    ASSUME NEW S, NEW list \in Seq(S), NEW uses \in Seq(S), NEW e,
           InOrder(list, uses)
    PROVE  InOrder(Without(list, e), uses)
<1> DEFINE l == Without(list, e)
<1>1. /\ \A i \in DOMAIN l : \E p \in DOMAIN list : list[p] = l[i]
      /\ \A i, j \in DOMAIN l : i < j => Precedes(list, l[i], l[j])
      /\ \A i, j \in DOMAIN l : l[i] = l[j] => i = j
  BY WithoutOrder DEF InOrder
<1> HIDE DEF l
<1>2. \A i \in DOMAIN l : \E j \in DOMAIN uses : uses[j] = l[i]
  BY <1>1 DEF InOrder
<1>3. ASSUME NEW i \in DOMAIN l, NEW j \in DOMAIN l, i < j
      PROVE  Precedes(uses, l[i], l[j])
  <2>1. PICK p \in DOMAIN list, q \in DOMAIN list :
           p < q /\ list[p] = l[i] /\ list[q] = l[j]
    BY <1>1, <1>3 DEF Precedes
  <2> QED BY <2>1 DEF InOrder
<1>4. InOrder(l, uses)
  BY <1>1, <1>2, <1>3 DEF InOrder
<1> QED BY <1>4 DEF l

LEMMA OrderOfTail ==
    ASSUME NEW S, NEW list \in Seq(S), NEW uses, list # <<>>, InOrder(list, uses)
    PROVE  InOrder(Tail(list), uses)
<1> DEFINE t == Tail(list)
<1>1. /\ Len(list) \in Nat \ {0} /\ DOMAIN list = 1..Len(list)
      /\ DOMAIN t = 1..(Len(list) - 1)
      /\ \A i \in 1..(Len(list) - 1) : t[i] = list[i + 1]
  OBVIOUS
<1> HIDE DEF t
<1>2. /\ \A i \in DOMAIN t : i + 1 \in DOMAIN list /\ t[i] = list[i + 1]
      /\ \A i, j \in DOMAIN t : (i + 1 = j + 1 => i = j) /\ (i < j => i + 1 < j + 1)
  BY <1>1
<1>3. InOrder(t, uses)
  BY <1>2 DEF InOrder
<1> QED BY <1>3 DEF t

LRUInv == used \in Seq(1..made) /\ InOrder(lru, used)

\* A step in which an entry of the list, or a new one, is used.
LEMMA Used ==
    ASSUME LInv, LRUInv, NEW e \in 1..made, e \in Listed, MoveToFront(e), made' = made,
           D!Uses(e)
    PROVE  LRUInv'
<1>1. lru \in Seq(1..made) /\ used \in Seq(1..made) /\ InOrder(lru, used)
  BY DEF LInv, LruTypeOK, LRUInv
<1>2. lru' = Append(Without(lru, e), e) /\ used' = Append(Without(used, e), e)
  BY DEF MoveToFront, D!Uses, D!Without, Without
<1>3. Without(used, e) \in Seq(1..made)
  BY <1>1, WithoutFacts
<1>4. used' \in Seq(1..made)
  BY <1>2, <1>3
<1> QED BY <1>1, <1>2, <1>4, OrderOfUse DEF LRUInv

LEMMA Added ==
    ASSUME LInv, LRUInv, NEW k \in Key, Add(k), D!Uses(made')
    PROVE  /\ LRUInv'
           /\ \A e \in Listed \ Listed' : e = lru[1] /\ lru # <<>>
<1> DEFINE e    == made + 1
           full == Append(lru, e)
<1>1. /\ made \in Nat /\ made' = e /\ lru \in Seq(1..made)
      /\ used \in Seq(1..made) /\ InOrder(lru, used)
  BY DEF Add, LInv, LruTypeOK, LRUInv
<1>2. /\ lru \in Seq(1..e) /\ used \in Seq(1..e) /\ e \in 1..e
      /\ \A i \in DOMAIN lru : lru[i] # e
  <2>1. 1..made \subseteq 1..e
    BY <1>1
  <2>2. \A i \in DOMAIN lru : lru[i] \in 1..made
    BY <1>1
  <2> QED BY <1>1, <2>1, <2>2
<1>3. Without(lru, e) = lru
  BY <1>2 DEF Without
<1>4. used' = Append(Without(used, e), e)
  BY <1>1 DEF D!Uses, D!Without, Without
<1>5. used' \in Seq(1..e)
  <2>1. Without(used, e) \in Seq(1..e)
    BY <1>2, WithoutFacts
  <2> QED BY <1>2, <1>4, <2>1
<1>6. InOrder(full, used')
  <2>1. InOrder(Append(Without(lru, e), e), Append(Without(used, e), e))
    BY <1>1, <1>2, OrderOfUse
  <2> QED BY <1>3, <1>4, <2>1
<1>7. /\ full \in Seq(1..e) /\ Len(full) = Len(lru) + 1 /\ Len(lru) \in Nat
      /\ full # <<>> /\ \A i \in DOMAIN lru : full[i] = lru[i]
      /\ DOMAIN lru = 1..Len(lru)
  <2>1. DOMAIN lru = 1..Len(lru) /\ Len(lru) \in Nat
    BY <1>2
  <2>2. /\ full \in Seq(1..e) /\ Len(full) = Len(lru) + 1
        /\ \A i \in 1..Len(lru) : full[i] = lru[i]
    BY <1>2
  <2> HIDE DEF full
  <2>3. full # <<>>
    BY <2>1, <2>2
  <2> QED BY <2>1, <2>2, <2>3
<1>8. lru' = full \/ lru' = Tail(full)
  BY Zenon DEF Add
<1> HIDE DEF full
<1>9. InOrder(lru', used')
  BY <1>6, <1>7, <1>8, OrderOfTail
<1>10. ASSUME NEW f \in Listed \ Listed' PROVE f = lru[1] /\ lru # <<>>
  <2>1. PICK i \in DOMAIN lru : lru[i] = f
    BY <1>10 DEF Listed
  <2>2. CASE lru' = full
    <3>1. i \in DOMAIN full /\ full[i] = f
      BY <1>7, <2>1
    <3> QED BY <1>10, <2>2, <3>1 DEF Listed
  <2>3. CASE lru' = Tail(full)
    <3>1. /\ Len(Tail(full)) = Len(lru) /\ DOMAIN Tail(full) = 1..Len(lru)
          /\ \A j \in 1..Len(lru) : Tail(full)[j] = full[j + 1]
      BY <1>7
    <3>2. CASE i # 1
      <4>1. i - 1 \in 1..Len(lru) /\ (i - 1) + 1 = i
        BY <1>7, <2>1, <3>2
      <4>2. lru'[i - 1] = f /\ i - 1 \in DOMAIN lru'
        BY <1>7, <2>1, <2>3, <3>1, <4>1
      <4> QED BY <1>10, <4>2 DEF Listed
    <3>3. CASE i = 1
      <4>1. 1 \in 1..Len(lru) /\ lru # <<>>
        BY <1>7, <2>1, <3>3
      <4> QED BY <2>1, <3>3, <4>1
    <3> QED BY <3>2, <3>3
  <2> QED BY <1>8, <2>2, <2>3
<1> QED BY <1>1, <1>5, <1>9, <1>10 DEF LRUInv
LEMMA DnsOrderStep ==
    ASSUME DnsInv, LRUInv, [D!Next]_D!vars
    PROVE  /\ LRUInv'
           /\ made' # made => \A e \in Listed \ Listed' : e = lru[1] /\ lru # <<>>
<1> USE SameHelpers, MadeIsNat DEF DnsInv
<1>1. ASSUME lru' = lru, used' = used, made' = made PROVE LRUInv'
  BY <1>1 DEF LRUInv
<1>2. ASSUME NEW k \in Key, entries[k] # None
      PROVE  entries[k] \in 1..made /\ entries[k] \in Listed
  BY <1>2 DEF LInv, LruTypeOK, Bounded, None
<1>3. ASSUME NEW c \in Client, NEW k \in Key, D!Hit(c, k)
      PROVE  LRUInv' /\ made' = made
  <2>1. entries[k] # None /\ MoveToFront(entries[k]) /\ made' = made /\ D!Uses(entries[k])
    BY <1>3 DEF D!Hit
  <2>2. entries[k] \in 1..made /\ entries[k] \in Listed
    BY <1>2, <2>1
  <2> QED BY <2>1, <2>2, Used
<1>4. ASSUME NEW c \in Client, NEW k \in Key, D!Expired(c, k)
      PROVE  LRUInv' /\ made' = made
  <2>1. DelEntry(entries[k]) /\ used' = used
    BY <1>4 DEF D!Expired, D!Resolves
  <2>2. lru' = Without(lru, entries[k]) /\ made' = made
    BY <2>1 DEF DelEntry
  <2>3. lru \in Seq(1..made) /\ used \in Seq(1..made) /\ InOrder(lru, used)
    BY DEF LInv, LruTypeOK, LRUInv
  <2>4. InOrder(lru', used)
    BY <2>2, <2>3, OrderOfRest
  <2> QED BY <2>1, <2>2, <2>3, <2>4 DEF LRUInv
<1>5. ASSUME NEW c \in Client, NEW k \in Key, D!Miss(c, k)
      PROVE  LRUInv' /\ made' = made
  BY <1>1, <1>5 DEF D!Miss, D!Resolves, D!lruVars
<1>6. ASSUME NEW c \in Client, D!NoSuchHost(c) PROVE LRUInv' /\ made' = made
  BY <1>1, <1>6 DEF D!NoSuchHost, D!lruVars
<1>7. ASSUME NEW c \in Client, D!Set(c)
      PROVE  /\ LRUInv'
             /\ made' # made => \A e \in Listed \ Listed' : e = lru[1] /\ lru # <<>>
  <2>1. host[c] \in Key
    OBVIOUS
  <2>2. CASE entries[host[c]] = None
    <3>1. Add(host[c]) /\ D!Uses(made')
      BY <1>7, <2>2 DEF D!Set
    <3> QED BY <2>1, <3>1, Added
  <2>3. CASE entries[host[c]] # None
    <3>1. /\ MoveToFront(entries[host[c]]) /\ made' = made
          /\ D!Uses(entries[host[c]])
      BY <1>7, <2>3 DEF D!Set
    <3>2. entries[host[c]] \in 1..made /\ entries[host[c]] \in Listed
      BY <1>2, <2>1, <2>3
    <3> QED BY <3>1, <3>2, Used
  <2> QED BY <2>2, <2>3
<1>8. ASSUME D!Expire /\ UNCHANGED <<pc, host, used>> PROVE LRUInv' /\ made' = made
  BY <1>1, <1>8 DEF Expire
<1>9. ASSUME UNCHANGED D!vars PROVE LRUInv' /\ made' = made
  BY <1>1, <1>9 DEF D!vars, D!lruVars
<1> QED BY <1>3, <1>4, <1>5, <1>6, <1>7, <1>8, <1>9 DEF D!Next

\* A full DNSCache throws out what was not used for the longest time, for any
\* number of hosts, entries and concurrent lookups.
THEOREM EvictsLeastUsedHolds ==
    ASSUME Key # {}
    PROVE  D!Spec => D!EvictsLeastUsed
<1> DEFINE Step == \A e \in D!Listed \ {lru'[i] : i \in DOMAIN lru'} :
                      made' # made =>
                         \A f \in D!Listed : \E i, j \in DOMAIN used :
                            i <= j /\ used[i] = e /\ used[j] = f
<1>1. D!Init => DnsInv /\ LRUInv
  <2> SUFFICES ASSUME D!Init PROVE DnsInv /\ LRUInv
    OBVIOUS
  <2>1. (CHOOSE k \in Key : TRUE) \in Key
    OBVIOUS
  <2>2. DnsInv
    BY <2>1, SameHelpers, LruInitInv DEF D!Init, DnsInv
  <2>3. used = <<>> /\ lru = <<>>
    BY DEF D!Init, D!LruInit
  <2>4. used \in Seq(1..made) /\ DOMAIN lru = {}
    BY <2>3
  <2> QED BY <2>2, <2>4 DEF LRUInv, InOrder
<1>2. DnsInv /\ LRUInv /\ [D!Next]_D!vars => (DnsInv /\ LRUInv)'
  BY DnsStepRefines, LruStepInv, DnsOrderStep DEF DnsInv
<1>3. DnsInv /\ LRUInv /\ [D!Next]_D!vars => [Step]_D!vars
  <2> SUFFICES ASSUME DnsInv, LRUInv, [D!Next]_D!vars, made' # made,
                      NEW e \in Listed \ Listed', NEW f \in Listed
               PROVE  \E i, j \in DOMAIN used : i <= j /\ used[i] = e /\ used[j] = f
    BY DEF D!Listed, Listed
  <2>1. e = lru[1] /\ lru # <<>>
    BY DnsOrderStep
  <2>2. lru \in Seq(1..made) /\ used \in Seq(1..made) /\ InOrder(lru, used)
    BY DEF DnsInv, LInv, LruTypeOK, LRUInv
  <2>3. PICK n \in DOMAIN lru : lru[n] = f
    BY DEF Listed
  <2>4. 1 \in DOMAIN lru /\ n \in Nat /\ 1 <= n
    BY <2>1, <2>2, <2>3
  <2>5. \A i \in DOMAIN used : i \in Nat
    BY <2>2
  <2>6. CASE n = 1
    <3>1. PICK i \in DOMAIN used : used[i] = e
      BY <2>1, <2>2, <2>4 DEF InOrder
    <3> QED BY <2>1, <2>3, <2>5, <2>6, <3>1
  <2>7. CASE 1 < n
    <3>1. Precedes(used, e, f)
      BY <2>1, <2>2, <2>3, <2>4, <2>7 DEF InOrder
    <3> QED BY <2>5, <3>1 DEF Precedes
  <2> QED BY <2>4, <2>6, <2>7
<1> QED BY <1>1, <1>2, <1>3, PTL DEF D!Spec, D!EvictsLeastUsed
=============================================================================
