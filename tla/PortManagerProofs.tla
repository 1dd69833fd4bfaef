------------------------- MODULE PortManagerProofs -------------------------
(***************************************************************************)
(* Proofs about PortManager, for every range and every set of clients.     *)
(***************************************************************************)
EXTENDS PortManager, TLAPS

\* The scan in progress, told by the cursor.
Walked == IF next = start THEN {}
          ELSE IF start < next THEN start .. (next - 1)
          ELSE (start .. (base + limit - 1)) \cup (base .. (next - 1))

\* One client scans at a time, it holds nothing yet, and what it has tried is
\* what lies between the start of its scan and the cursor.
ScanInv ==
    \A c \in Client :
       /\ pc[c] # "out" => held[c] = NoPort
       /\ pc[c] = "scan" => mu = c /\ tried = Walked

IInv == TypeOK /\ Exclusive /\ ScanInv

USE PortsAssumption DEF Port, NoPort, Free

\* The cursor stays in the range.
LEMMA AdvanceInRange == ASSUME NEW n \in Port PROVE Advance(n) \in Port
BY DEF Advance

\* A scan that goes on adds the port under the cursor to the stretch it has
\* walked; one that ends has walked the whole range.
LEMMA WalkOn ==
    ASSUME next \in Port, start \in Port, next' = Advance(next),
           start' = start
    PROVE  /\ Advance(next) # start => Walked' = Walked \cup {next}
           /\ Advance(next) = start => Port = Walked \cup {next}
<1>1. CASE Advance(next) # start
  <2>1. CASE next + 1 >= base + limit
    BY <1>1, <2>1 DEF Advance, Walked
  <2>2. CASE next + 1 < base + limit
    BY <1>1, <2>2 DEF Advance, Walked
  <2> QED BY <1>1, <2>1, <2>2
<1>2. CASE Advance(next) = start
  BY <1>2 DEF Advance, Walked
<1> QED BY <1>1, <1>2

LEMMA InitInv == Init => IInv
BY DEF Init, IInv, TypeOK, Exclusive, ScanInv

\* Every step keeps the invariant.
LEMMA StepInv == IInv /\ [Next]_vars => IInv'
<1> SUFFICES ASSUME IInv, [Next]_vars PROVE IInv'
  OBVIOUS
<1> USE DEF IInv
<1>1. CASE Elsewhere
  BY <1>1 DEF Elsewhere, TypeOK, Exclusive, ScanInv, Walked
<1>2. ASSUME NEW c \in Client, Call(c) PROVE IInv'
  BY <1>2 DEF Call, TypeOK, Exclusive, ScanInv, Walked
<1>3. ASSUME NEW c \in Client, Lock(c) PROVE IInv'
  <2>1. TypeOK' /\ Exclusive'
    BY <1>3 DEF Lock, TypeOK, Exclusive
  <2>2. Walked' = {}
    BY <1>3 DEF Lock, Walked
  <2>3. ScanInv'
    BY <1>3, <2>2 DEF Lock, TypeOK, ScanInv
  <2> QED BY <2>1, <2>3
<1>4. ASSUME NEW c \in Client, Take(c) PROVE IInv'
  <2>1. TypeOK'
    BY <1>4, AdvanceInRange DEF Take, Unlock, TypeOK
  <2>2. Exclusive'
    <3>1. held[c] = NoPort /\ next \notin allocated
      BY <1>4 DEF Take, Usable, ScanInv
    <3>2. /\ held' = [held EXCEPT ![c] = next]
          /\ allocated' = allocated \cup {next}
      BY <1>4 DEF Take
    <3>3. next # NoPort
      BY DEF TypeOK
    <3>4. allocated' = {held'[d] : d \in Client} \ {NoPort}
      BY <3>1, <3>2, <3>3 DEF Exclusive, TypeOK
    <3>5. \A d \in Client : held[d] # next
      BY <3>1, <3>3 DEF Exclusive
    <3> QED BY <3>2, <3>4, <3>5 DEF Exclusive, TypeOK
  <2>3. ScanInv'
    BY <1>4 DEF Take, Unlock, TypeOK, ScanInv
  <2> QED BY <2>1, <2>2, <2>3
<1>5. ASSUME NEW c \in Client, Skip(c) PROVE IInv'
  <2>1. TypeOK' /\ Exclusive'
    BY <1>5, AdvanceInRange DEF Skip, TypeOK, Exclusive
  <2>2. Walked' = Walked \cup {next}
    BY <1>5, WalkOn DEF Skip, TypeOK
  <2>3. ScanInv'
    BY <1>5, <2>2 DEF Skip, TypeOK, ScanInv
  <2> QED BY <2>1, <2>3
<1>6. ASSUME NEW c \in Client, Exhausted(c) PROVE IInv'
  <2>1. TypeOK' /\ Exclusive'
    BY <1>6, AdvanceInRange DEF Exhausted, Unlock, TypeOK, Exclusive
  <2>2. ScanInv'
    BY <1>6 DEF Exhausted, Unlock, TypeOK, ScanInv
  <2> QED BY <2>1, <2>2
<1>7. ASSUME NEW c \in Client, Release(c) PROVE IInv'
  <2>1. TypeOK' /\ ScanInv'
    BY <1>7 DEF Release, TypeOK, ScanInv, Walked
  <2>2. Exclusive'
    BY <1>7 DEF Release, TypeOK, Exclusive
  <2> QED BY <2>1, <2>2
<1>8. ASSUME NEW c \in Client, NEW p \in Port, Reserve(c, p) PROVE IInv'
  <2>1. TypeOK' /\ ScanInv'
    BY <1>8 DEF Reserve, TypeOK, ScanInv, Walked
  <2>2. Exclusive'
    <3>1. \A d \in Client : held[d] # p
      BY <1>8 DEF Reserve, Exclusive
    <3>2. allocated' = {held'[d] : d \in Client} \ {NoPort}
      BY <1>8, <3>1 DEF Reserve, Exclusive, TypeOK
    <3> QED BY <1>8, <3>1, <3>2 DEF Reserve, Exclusive, TypeOK
  <2> QED BY <2>1, <2>2
<1>9. CASE UNCHANGED vars
  BY <1>9 DEF vars, TypeOK, Exclusive, ScanInv, Walked
<1> QED
  BY <1>1, <1>2, <1>3, <1>4, <1>5, <1>6, <1>7, <1>8, <1>9 DEF Next, Allocate

LEMMA Invariant == Spec => []IInv
BY InitInv, StepInv, PTL DEF Spec

\* Every variable of the manager keeps its type; the cursor never leaves the
\* range (Allocate's wrap at base+limit).
THEOREM PortTypes == Spec => []TypeOK
BY Invariant, PTL DEF IInv

\* However calls of Allocate, Reserve and Release interleave, no port is out
\* twice and the allocated map holds exactly the ports that are out.
THEOREM ExclusiveHolds == Spec => []Exclusive
BY Invariant, PTL DEF IInv

\* The "exhausted" error of Allocate is only returned after a walk over the
\* whole range, from any position of the cursor and for any length.
THEOREM RefusesOnlyWhenFullHolds == Spec => RefusesOnlyWhenFull
<1>1. IInv /\ [Next]_vars =>
         [\A c \in Client : Exhausted(c) => tried' = Port]_vars
  <2> SUFFICES ASSUME IInv, NEW c \in Client, Exhausted(c)
               PROVE  tried' = Port
    OBVIOUS
  <2>1. tried' = Walked \cup {next}
    BY DEF Exhausted, IInv, ScanInv
  <2>2. Port = Walked \cup {next}
    BY WalkOn DEF Exhausted, IInv, TypeOK
  <2> QED BY <2>1, <2>2
<1> QED BY <1>1, Invariant, PTL DEF Spec, RefusesOnlyWhenFull

\* The walk under the mutex is, to its callers, the one step of PortAllocator.
THEOREM ImplementsAllocatorHolds == Spec => ImplementsAllocator
<1>1. Init => Promise!Init
  BY DEF Init, Promise!Init, Promise!AllFree
<1>2. IInv /\ [Next]_vars => [Promise!Next]_held
  <2> SUFFICES ASSUME IInv, [Next]_vars PROVE [Promise!Next]_held
    OBVIOUS
  <2>1. ASSUME NEW c \in Client, Take(c) PROVE Promise!Lend(c, next)
    BY <2>1 DEF Take, Usable, IInv, TypeOK, ScanInv, Exclusive, Promise!Lend
  <2>2. ASSUME NEW c \in Client, Release(c) PROVE Promise!TakeBack(c)
    BY <2>2 DEF Release, Promise!TakeBack
  <2>3. ASSUME NEW c \in Client, NEW p \in Port, Reserve(c, p)
        PROVE  Promise!Lend(c, p)
    BY <2>3 DEF Reserve, IInv, Exclusive, Promise!Lend
  <2>4. ASSUME \/ Elsewhere \/ UNCHANGED vars
               \/ \E c \in Client : \/ Call(c) \/ Lock(c)
                                    \/ Skip(c) \/ Exhausted(c)
        PROVE  UNCHANGED held
    BY <2>4 DEF Elsewhere, vars, Call, Lock, Skip, Exhausted
  <2> QED
    BY <2>1, <2>2, <2>3, <2>4 DEF Next, Allocate, IInv, TypeOK, Promise!Next
<1> QED
  BY <1>1, <1>2, Invariant, PTL DEF Spec, ImplementsAllocator, Promise!Spec
=============================================================================
