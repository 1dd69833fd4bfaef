-------------------------- MODULE XrayTestProofs --------------------------
(***************************************************************************)
(* Proofs about XrayTest, for every list of configs, every port range and  *)
(* every depth, with other programs taking ports at any moment.            *)
(***************************************************************************)
EXTENDS XrayTest, FiniteSetTheorems, FunctionTheorems, TLAPS

\* Where a goroutine has a slot of the semaphore, a port, a config file and
\* may have a process.
Running == {"dial", "fetch", "kill"}
Filed   == Running \cup {"start", "clean"}
Ported  == Filed \cup {"run", "config", "report", "giveBack"}
Slotted == Ported \cup {"allocate", "leave"}

Holders == {c \in Config : pc[c] \in Slotted}

SlotInv == sem = Cardinality(Holders) /\ sem <= Parallel

PortInv ==
    \A c \in Config :
       /\ held[c] # NoPort <=> pc[c] \in Ported
       /\ \A d \in Config : held[c] = held[d] /\ held[c] # NoPort => c = d

ProcessInv ==
    \A c \in Config :
       /\ xray[c] # "none" => pc[c] \in Running
       /\ \A p \in Port : listener[p] = c => held[c] = p /\ xray[c] # "none"

FileInv ==
    \A c \in Config :
       /\ pc[c] \in Filed => cfgFile[held[c]] = c
       /\ \A p \in Port : cfgFile[p] = c => held[c] = p /\ pc[c] \in Filed

RoundInv ==
    /\ \A c \in Config :
          results[c] # "none" => pc[c] \in {"giveBack", "leave", "wgDone", "done"}
    /\ main = "returned" => \A c \in Config : pc[c] = "done"

PassInv ==
    \A c \in Config :
       /\ pc[c] \in {"unborn", "select", "allocate", "run"} => pass[c] = 0
       /\ pc[c] = "config" => pass[c] < Passes
       /\ pc[c] \in Filed => pass[c] <= Passes
       /\ pc[c] = "report" /\ good[c] => pass[c] = Passes
       /\ results[c] = "ok" => pass[c] = Passes /\ good[c]

IInv == TypeOK /\ SlotInv /\ PortInv /\ ProcessInv /\ FileInv
               /\ RoundInv /\ PassInv

USE RoundAssumption
USE DEF Nobody, Foreign, slot, tunnel, Goto, Running, Filed, Ported, Slotted

\* The steps that leave the goroutines where they are.
Outside ==
    \/ Cancel \/ Intrude \/ AllSpawned \/ Return \/ UNCHANGED vars
    \/ \E c \in Config : XrayBinds(c) \/ XrayDies(c)

LEMMA NextCases ==
    ASSUME [Next]_vars
    PROVE  Outside \/ \E c \in Config : Spawn(c) \/ Step(c)
BY DEF Next, Outside

-----------------------------------------------------------------------------
LEMMA InitInv == Init => IInv
<1> SUFFICES ASSUME Init PROVE IInv
  OBVIOUS
<1>1. TypeOK
  BY DEF Init, TypeOK, Who, Place
<1>2. SlotInv
  <2>1. Holders = {}
    BY DEF Init, Holders
  <2> QED BY <2>1, FS_EmptySet DEF Init, SlotInv
<1>3. PortInv /\ ProcessInv /\ FileInv /\ RoundInv /\ PassInv
  BY DEF Init, PortInv, ProcessInv, FileInv, RoundInv, PassInv
<1> QED BY <1>1, <1>2, <1>3 DEF IInv

-----------------------------------------------------------------------------
LEMMA TypeStep == IInv /\ [Next]_vars => TypeOK'
<1> SUFFICES ASSUME IInv, [Next]_vars PROVE TypeOK'
  OBVIOUS
<1> USE DEF IInv, TypeOK, Place
<1> DEFINE Unheard(c) == [p \in Port |-> IF listener[p] = c THEN Nobody
                                                             ELSE listener[p]]
<1>0. \A c \in Config : Unheard(c) \in [Port -> Who]
  BY DEF Who
<1>1. CASE Outside
  <2>1. CASE Intrude
    BY <2>1 DEF Intrude, Who
  <2>2. ASSUME NEW c \in Config, XrayBinds(c) PROVE TypeOK'
    BY <2>2 DEF XrayBinds, Who
  <2>3. ASSUME NEW c \in Config, XrayDies(c) PROVE TypeOK'
    <3>1. listener' \in [Port -> Who]
      BY <2>3, <1>0 DEF XrayDies, NoLonger
    <3> QED BY <2>3, <3>1 DEF XrayDies
  <2>4. CASE Cancel \/ AllSpawned \/ Return \/ UNCHANGED vars
    BY <2>4 DEF Cancel, AllSpawned, Return, vars
  <2> QED BY <1>1, <2>1, <2>2, <2>3, <2>4 DEF Outside
<1>2. ASSUME NEW c \in Config, Spawn(c) PROVE TypeOK'
  BY <1>2 DEF Spawn
<1>3. ASSUME NEW c \in Config, Acquire(c) \/ LeaveCancelled(c) PROVE TypeOK'
  BY <1>3 DEF Acquire, LeaveCancelled
<1>4. ASSUME NEW c \in Config, GetPort(c) \/ NoPortLeft(c) PROVE TypeOK'
  BY <1>4 DEF GetPort, NoPortLeft, Allocator!Lend
<1>5. ASSUME NEW c \in Config, QuickStages(c) PROVE TypeOK'
  BY <1>5 DEF QuickStages
<1>6. ASSUME NEW c \in Config, WriteConfig(c) PROVE TypeOK'
  <2>1. cfgFile' \in [Port -> Who]
    BY <1>6 DEF WriteConfig, Who
  <2>2. pass' \in [Config -> Nat]
    BY <1>6 DEF WriteConfig
  <2> QED BY <1>6, <2>1, <2>2 DEF WriteConfig
<1>7. ASSUME NEW c \in Config, StartXray(c) \/ StartFails(c) PROVE TypeOK'
  BY <1>7 DEF StartXray, StartFails
<1>8. ASSUME NEW c \in Config, Connected(c) \/ NeverListened(c) PROVE TypeOK'
  BY <1>8 DEF Connected, NeverListened
<1>9. ASSUME NEW c \in Config, Fetch(c) PROVE TypeOK'
  <2>1. held[c] \in Port
    BY <1>9 DEF Fetch, PortInv
  <2>2. strayed' \subseteq Port
    BY <1>9, <2>1 DEF Fetch
  <2>3. good' \in [Config -> BOOLEAN] /\ pc' \in [Config -> Place]
    BY <1>9 DEF Fetch
  <2> QED BY <1>9, <2>2, <2>3 DEF Fetch
<1>10. ASSUME NEW c \in Config, KillXray(c) PROVE TypeOK'
  BY <1>10 DEF KillXray, NoLonger, Who
<1>11. ASSUME NEW c \in Config, RemoveConfig(c) PROVE TypeOK'
  BY <1>11 DEF RemoveConfig, Who
<1>12. ASSUME NEW c \in Config, Report(c) PROVE TypeOK'
  BY <1>12 DEF Report
<1>13. ASSUME NEW c \in Config, GiveBackPort(c) PROVE TypeOK'
  BY <1>13 DEF GiveBackPort, Allocator!TakeBack
<1>14. ASSUME NEW c \in Config, FreeSlot(c) PROVE TypeOK'
  <2>1. c \in Holders /\ IsFiniteSet(Holders)
    BY <1>14, FS_Subset DEF FreeSlot, Holders
  <2>2. Cardinality(Holders) # 0 /\ Cardinality(Holders) \in Nat
    BY <2>1, FS_EmptySet, FS_CardinalityType
  <2> QED BY <1>14, <2>2 DEF FreeSlot, SlotInv
<1>15. ASSUME NEW c \in Config, Done(c) PROVE TypeOK'
  BY <1>15 DEF Done
<1> QED
  BY <1>1, <1>2, <1>3, <1>4, <1>5, <1>6, <1>7, <1>8, <1>9, <1>10, <1>11,
     <1>12, <1>13, <1>14, <1>15, NextCases DEF Step

-----------------------------------------------------------------------------
\* The semaphore counts the goroutines that are between its two operations.
LEMMA SlotStep == IInv /\ [Next]_vars => SlotInv'
<1> SUFFICES ASSUME IInv, [Next]_vars PROVE SlotInv'
  OBVIOUS
<1> USE DEF IInv, TypeOK
<1>1. IsFiniteSet(Holders)
  BY FS_Subset DEF Holders
<1>2. ASSUME NEW c \in Config, Acquire(c) PROVE SlotInv'
  <2>1. c \notin Holders /\ Holders' = Holders \cup {c}
    BY <1>2 DEF Acquire, Holders
  <2>2. Cardinality(Holders \cup {c}) = Cardinality(Holders) + 1
    BY <1>1, <2>1, FS_AddElement
  <2> QED BY <1>2, <2>1, <2>2 DEF Acquire, SlotInv
<1>3. ASSUME NEW c \in Config, FreeSlot(c) PROVE SlotInv'
  <2>1. c \in Holders /\ Holders' = Holders \ {c}
    BY <1>3 DEF FreeSlot, Holders
  <2>2. Cardinality(Holders \ {c}) = Cardinality(Holders) - 1
    BY <1>1, <2>1, FS_RemoveElement
  <2> QED BY <1>3, <2>1, <2>2 DEF FreeSlot, SlotInv
<1>4. CASE Outside
  BY <1>4 DEF Outside, Cancel, Intrude, AllSpawned, Return, vars, XrayBinds,
     XrayDies, Holders, SlotInv
<1>5. ASSUME NEW c \in Config,
             \/ Spawn(c) \/ LeaveCancelled(c) \/ GetPort(c) \/ NoPortLeft(c)
             \/ QuickStages(c) \/ WriteConfig(c) \/ StartXray(c)
             \/ StartFails(c) \/ Connected(c) \/ NeverListened(c) \/ Fetch(c)
             \/ KillXray(c) \/ RemoveConfig(c) \/ Report(c)
             \/ GiveBackPort(c) \/ Done(c)
      PROVE  SlotInv'
  <2> SUFFICES Holders' = Holders /\ sem' = sem
    BY DEF SlotInv
  <2>1. CASE LeaveCancelled(c) \/ GetPort(c) \/ NoPortLeft(c)
    <3>1. /\ \/ pc[c] = "select" /\ pc' = [pc EXCEPT ![c] = "done"]
             \/ pc[c] = "allocate" /\ pc' = [pc EXCEPT ![c] = "run"]
             \/ pc[c] = "allocate" /\ pc' = [pc EXCEPT ![c] = "leave"]
          /\ sem' = sem
      BY <2>1 DEF LeaveCancelled, GetPort, NoPortLeft
    <3> QED BY <3>1 DEF Holders
  <2>6. CASE Spawn(c)
    <3>1. pc[c] = "unborn" /\ pc' = [pc EXCEPT ![c] = "select"] /\ sem' = sem
      BY <2>6 DEF Spawn
    <3> QED BY <3>1 DEF Holders
  <2>2. CASE QuickStages(c) \/ WriteConfig(c) \/ StartXray(c) \/ StartFails(c)
    BY <2>2 DEF QuickStages, WriteConfig, StartXray, StartFails, Holders
  <2>4. CASE Connected(c) \/ NeverListened(c) \/ KillXray(c) \/ RemoveConfig(c)
    BY <2>4 DEF Connected, NeverListened, KillXray, RemoveConfig, Holders
  <2>5. CASE Report(c) \/ GiveBackPort(c) \/ Done(c)
    BY <2>5 DEF Report, GiveBackPort, Done, Holders
  <2>3. CASE Fetch(c)
    <3>1. pc[c] = "fetch" /\ pc' = [pc EXCEPT ![c] = "kill"] /\ sem' = sem
      BY <2>3 DEF Fetch
    <3> QED BY <3>1 DEF Holders
  <2> QED BY <1>5, <2>1, <2>2, <2>3, <2>4, <2>5, <2>6
<1> QED BY <1>2, <1>3, <1>4, <1>5, NextCases DEF Step

-----------------------------------------------------------------------------
\* A goroutine has a port exactly between Allocate and Release, and nobody
\* else has it.
LEMMA PortStep == IInv /\ [Next]_vars => PortInv'
<1> SUFFICES ASSUME IInv, [Next]_vars PROVE PortInv'
  OBVIOUS
<1> USE DEF IInv, TypeOK, PortInv
<1>1. CASE Outside
  BY <1>1 DEF Outside, Cancel, Intrude, AllSpawned, Return, vars, XrayBinds,
     XrayDies
<1>2. ASSUME NEW c \in Config, GetPort(c) PROVE PortInv'
  BY <1>2 DEF GetPort, Allocator!Lend
<1>3. ASSUME NEW c \in Config, GiveBackPort(c) PROVE PortInv'
  BY <1>3 DEF GiveBackPort, Allocator!TakeBack
<1>4. ASSUME NEW c \in Config,
             \/ Spawn(c) \/ Acquire(c) \/ LeaveCancelled(c) \/ NoPortLeft(c)
             \/ FreeSlot(c) \/ Done(c)
      PROVE  PortInv'
  BY <1>4 DEF Spawn, Acquire, LeaveCancelled, NoPortLeft, FreeSlot, Done
<1>5. ASSUME NEW c \in Config,
             \/ QuickStages(c) \/ WriteConfig(c) \/ StartXray(c)
             \/ StartFails(c) \/ Connected(c) \/ NeverListened(c) \/ Fetch(c)
             \/ KillXray(c) \/ RemoveConfig(c) \/ Report(c)
      PROVE  PortInv'
  BY <1>5 DEF QuickStages, WriteConfig, StartXray, StartFails, Connected,
     NeverListened, Fetch, KillXray, RemoveConfig, Report
<1> QED BY <1>1, <1>2, <1>3, <1>4, <1>5, NextCases DEF Step

-----------------------------------------------------------------------------
\* An xray process lives between its start and its Wait, on the port of its
\* goroutine.
LEMMA ProcessStep == IInv /\ [Next]_vars => ProcessInv'
<1> SUFFICES ASSUME IInv, [Next]_vars PROVE ProcessInv'
  OBVIOUS
<1> USE DEF IInv, TypeOK, ProcessInv
<1>1. CASE Cancel \/ Intrude \/ AllSpawned \/ Return \/ UNCHANGED vars
  BY <1>1 DEF Cancel, Intrude, AllSpawned, Return, vars
<1>2. ASSUME NEW c \in Config, XrayBinds(c) PROVE ProcessInv'
  BY <1>2 DEF XrayBinds
<1>3. ASSUME NEW c \in Config, XrayDies(c) \/ KillXray(c) PROVE ProcessInv'
  BY <1>3 DEF XrayDies, KillXray, NoLonger
<1>4. ASSUME NEW c \in Config, GetPort(c) \/ GiveBackPort(c)
      PROVE  ProcessInv'
  BY <1>4 DEF GetPort, GiveBackPort, Allocator!Lend, Allocator!TakeBack,
     PortInv
<1>5. ASSUME NEW c \in Config, StartXray(c) PROVE ProcessInv'
  BY <1>5 DEF StartXray
<1>6. ASSUME NEW c \in Config,
             \/ Spawn(c) \/ Acquire(c) \/ LeaveCancelled(c) \/ NoPortLeft(c)
             \/ QuickStages(c) \/ WriteConfig(c) \/ StartFails(c)
             \/ Connected(c) \/ NeverListened(c) \/ Fetch(c)
             \/ RemoveConfig(c) \/ Report(c) \/ FreeSlot(c) \/ Done(c)
      PROVE  ProcessInv'
  BY <1>6 DEF Spawn, Acquire, LeaveCancelled, NoPortLeft, QuickStages,
     WriteConfig, StartFails, Connected, NeverListened, Fetch, RemoveConfig,
     Report, FreeSlot, Done
<1> QED
  BY <1>1, <1>2, <1>3, <1>4, <1>5, <1>6, NextCases DEF Outside, Step

-----------------------------------------------------------------------------
\* xray-<port>.json is that of the goroutine that has the port, from before
\* the start of the process until after its end.
LEMMA FileStep == IInv /\ [Next]_vars => FileInv'
<1> SUFFICES ASSUME IInv, [Next]_vars PROVE FileInv'
  OBVIOUS
<1> USE DEF IInv, TypeOK, FileInv
<1>1. CASE Outside
  BY <1>1 DEF Outside, Cancel, Intrude, AllSpawned, Return, vars, XrayBinds,
     XrayDies
<1>2. ASSUME NEW c \in Config, WriteConfig(c) PROVE FileInv'
  <2>1. held[c] \in Port
    BY <1>2 DEF WriteConfig, PortInv
  <2> QED BY <1>2, <2>1 DEF WriteConfig, PortInv
<1>3. ASSUME NEW c \in Config, RemoveConfig(c) PROVE FileInv'
  <2>1. held[c] \in Port
    BY <1>3 DEF RemoveConfig, PortInv
  <2> QED BY <1>3, <2>1 DEF RemoveConfig, PortInv
<1>4. ASSUME NEW c \in Config, GetPort(c) \/ GiveBackPort(c) PROVE FileInv'
  BY <1>4 DEF GetPort, GiveBackPort, Allocator!Lend, Allocator!TakeBack
<1>5. ASSUME NEW c \in Config,
             \/ Spawn(c) \/ Acquire(c) \/ LeaveCancelled(c) \/ NoPortLeft(c)
             \/ QuickStages(c) \/ Report(c) \/ FreeSlot(c) \/ Done(c)
      PROVE  FileInv'
  BY <1>5 DEF Spawn, Acquire, LeaveCancelled, NoPortLeft, QuickStages, Report,
     FreeSlot, Done
<1>6. ASSUME NEW c \in Config,
             \/ StartXray(c) \/ StartFails(c) \/ Connected(c)
             \/ NeverListened(c) \/ Fetch(c) \/ KillXray(c)
      PROVE  FileInv'
  BY <1>6 DEF StartXray, StartFails, Connected, NeverListened, Fetch, KillXray
<1> QED BY <1>1, <1>2, <1>3, <1>4, <1>5, <1>6, NextCases DEF Step

-----------------------------------------------------------------------------
\* Results are reported on the way out, and XrayTest waits for all.
LEMMA RoundStep == IInv /\ [Next]_vars => RoundInv'
<1> SUFFICES ASSUME IInv, [Next]_vars PROVE RoundInv'
  OBVIOUS
<1> USE DEF IInv, TypeOK, RoundInv
<1>1. CASE Outside
  BY <1>1 DEF Outside, Cancel, Intrude, AllSpawned, Return, vars, XrayBinds,
     XrayDies
<1>2. ASSUME NEW c \in Config, Spawn(c) \/ Step(c), main = "returned"
      PROVE  FALSE
  BY <1>2 DEF Spawn, Step, Acquire, LeaveCancelled, GetPort, NoPortLeft,
     QuickStages, WriteConfig, StartXray, StartFails, Connected,
     NeverListened, Fetch, KillXray, RemoveConfig, Report, GiveBackPort,
     FreeSlot, Done
<1>3. ASSUME NEW c \in Config,
             \/ Spawn(c) \/ Acquire(c) \/ LeaveCancelled(c) \/ GetPort(c)
             \/ NoPortLeft(c) \/ QuickStages(c) \/ WriteConfig(c)
             \/ StartXray(c) \/ StartFails(c)
      PROVE  RoundInv'
  BY <1>2, <1>3 DEF Step, Spawn, Acquire, LeaveCancelled, GetPort, NoPortLeft,
     QuickStages, WriteConfig, StartXray, StartFails
<1>4. ASSUME NEW c \in Config,
             \/ Connected(c) \/ NeverListened(c) \/ Fetch(c) \/ KillXray(c)
             \/ RemoveConfig(c) \/ Report(c) \/ GiveBackPort(c)
             \/ FreeSlot(c) \/ Done(c)
      PROVE  RoundInv'
  BY <1>2, <1>4 DEF Step, Connected, NeverListened, Fetch, KillXray,
     RemoveConfig, Report, GiveBackPort, FreeSlot, Done
<1> QED BY <1>1, <1>3, <1>4, NextCases DEF Step

-----------------------------------------------------------------------------
\* The passes are counted, and only the last good one leads to a success.
LEMMA PassStep == IInv /\ [Next]_vars => PassInv'
<1> SUFFICES ASSUME IInv, [Next]_vars PROVE PassInv'
  OBVIOUS
<1> USE DEF IInv, TypeOK, PassInv
<1>1. CASE Outside
  BY <1>1 DEF Outside, Cancel, Intrude, AllSpawned, Return, vars, XrayBinds,
     XrayDies
<1>2. ASSUME NEW c \in Config, QuickStages(c) PROVE PassInv'
  BY <1>2 DEF QuickStages, RoundInv
<1>3. ASSUME NEW c \in Config, WriteConfig(c) PROVE PassInv'
  BY <1>3 DEF WriteConfig, RoundInv
<1>4. ASSUME NEW c \in Config,
             \/ StartXray(c) \/ StartFails(c) \/ Connected(c)
             \/ NeverListened(c) \/ Fetch(c) \/ KillXray(c)
      PROVE  PassInv'
  BY <1>4 DEF StartXray, StartFails, Connected, NeverListened, Fetch,
     KillXray, RoundInv
<1>5. ASSUME NEW c \in Config, RemoveConfig(c) PROVE PassInv'
  BY <1>5 DEF RemoveConfig
<1>6. ASSUME NEW c \in Config, Report(c) PROVE PassInv'
  BY <1>6 DEF Report
<1>7. ASSUME NEW c \in Config,
             \/ Spawn(c) \/ Acquire(c) \/ LeaveCancelled(c) \/ GetPort(c)
             \/ NoPortLeft(c) \/ GiveBackPort(c) \/ FreeSlot(c) \/ Done(c)
      PROVE  PassInv'
  BY <1>7 DEF Spawn, Acquire, LeaveCancelled, GetPort, NoPortLeft,
     GiveBackPort, FreeSlot, Done
<1> QED BY <1>1, <1>2, <1>3, <1>4, <1>5, <1>6, <1>7, NextCases DEF Step

-----------------------------------------------------------------------------
LEMMA Invariant == Spec => []IInv
<1>1. IInv /\ [Next]_vars => IInv'
  BY TypeStep, SlotStep, PortStep, ProcessStep, FileStep, RoundStep, PassStep
     DEF IInv
<1> QED BY <1>1, InitInv, PTL DEF Spec

\* Every variable of a round keeps its type: in particular no path gives back
\* a slot it did not take.
THEOREM RoundTypes == Spec => []TypeOK
BY Invariant, PTL DEF IInv

\* However many configs a round has, no more than Parallel xray processes are
\* alive at any moment.
THEOREM AtMostParallelHolds == Spec => []AtMostParallel
<1>1. IInv => AtMostParallel
  <2> SUFFICES ASSUME IInv PROVE AtMostParallel
    OBVIOUS
  <2>1. {c \in Config : xray[c] # "none"} \in SUBSET Holders
    BY DEF IInv, ProcessInv, Holders
  <2>2. IsFiniteSet(Holders)
    BY FS_Subset DEF Holders
  <2>3. Cardinality({c \in Config : xray[c] # "none"}) <= Cardinality(Holders)
    BY <2>1, <2>2, FS_Subset
  <2>4. /\ Cardinality({c \in Config : xray[c] # "none"}) \in Nat
        /\ Cardinality(Holders) \in Nat
    BY <2>1, <2>2, FS_Subset, FS_CardinalityType
  <2> QED BY <2>3, <2>4 DEF IInv, SlotInv, AtMostParallel
<1> QED BY <1>1, Invariant, PTL

\* Every xray process has a port of its own and starts from the config file
\* that was written for it, also when other programs take ports meanwhile.
THEOREM OwnPortOwnConfigHolds == Spec => []OwnPortOwnConfig
<1>1. IInv => OwnPortOwnConfig
  BY DEF IInv, PortInv, ProcessInv, FileInv, OwnPortOwnConfig
<1> QED BY <1>1, Invariant, PTL

\* A config is reported as working only after all tunnel passes of its depth.
THEOREM SuccessPassedAllHolds == Spec => []SuccessPassedAll
<1>1. IInv => SuccessPassedAll
  BY DEF IInv, PassInv, SuccessPassedAll
<1> QED BY <1>1, Invariant, PTL

\* The deferred calls and wg.Wait leave no process, file or port of the round.
THEOREM LeavesNothingBehindHolds == Spec => []LeavesNothingBehind
<1>1. IInv => LeavesNothingBehind
  BY DEF IInv, TypeOK, PortInv, ProcessInv, FileInv, RoundInv,
     LeavesNothingBehind
<1> QED BY <1>1, Invariant, PTL

-----------------------------------------------------------------------------
(***************************************************************************)
(* Who gets no result.                                                     *)
(***************************************************************************)
\* The ports that other programs leave to the round.
Left == {p \in Port : listener[p] # Foreign}

Scarce == IsFiniteSet(Left) /\ Cardinality(Left) < Parallel

ReportInv ==
    /\ \A c \in Config :
          /\ pc[c] = "giveBack" => results[c] # "none"
          /\ pc[c] \in {"leave", "wgDone", "done"} /\ results[c] = "none"
                => cancelled \/ Scarce
    /\ main = "returned" => \A c \in Config : pc[c] = "done"

\* Allocate fails only when the ports that are left are those of the other
\* tests, of which there are fewer than Parallel.
LEMMA FailsWhenScarce ==
    ASSUME IInv, NEW c \in Config, NoPortLeft(c)
    PROVE  Scarce
<1> DEFINE Others == Holders \ {c}
           owner  == [p \in Left |-> CHOOSE d \in Others : held[d] = p]
<1>1. ASSUME NEW p \in Left PROVE \E d \in Others : held[d] = p
  <2>1. \E d \in Config : held[d] = p
    <3>1. listener[p] \in Config \cup {Nobody} /\ p \in Port
      BY DEF Left, IInv, TypeOK, Who
    <3>2. listener[p] = Nobody => \E d \in Config : held[d] = p
      BY <3>1 DEF NoPortLeft
    <3>3. listener[p] \in Config => held[listener[p]] = p
      BY <3>1 DEF IInv, ProcessInv
    <3> QED BY <3>1, <3>2, <3>3
  <2>2. PICK d \in Config : held[d] = p
    BY <2>1
  <2>3. pc[d] \in Ported /\ pc[c] = "allocate"
    BY <2>2 DEF NoPortLeft, Left, IInv, PortInv
  <2> QED BY <2>2, <2>3 DEF Holders
<1>2. \A p \in Left : owner[p] \in Others /\ held[owner[p]] = p
  BY <1>1
<1>3. owner \in Injection(Left, Others)
  <2>1. owner \in [Left -> Others]
    BY <1>2
  <2>2. \A p, q \in Left : owner[p] = owner[q] => p = q
    BY <1>2
  <2> HIDE DEF owner, Others
  <2> QED BY <2>1, <2>2, Fun_IsInj
<1>4. IsFiniteSet(Holders) /\ c \in Holders
  BY FS_Subset DEF Holders, NoPortLeft
<1>5. IsFiniteSet(Others) /\ Cardinality(Others) = Cardinality(Holders) - 1
  BY <1>4, FS_RemoveElement
<1>6. Cardinality(Holders) \in Nat /\ Cardinality(Holders) <= Parallel
  BY <1>4, FS_CardinalityType DEF IInv, SlotInv
<1> HIDE DEF owner, Others
<1>7. IsFiniteSet(Left) /\ Cardinality(Left) <= Cardinality(Others)
  BY <1>3, <1>5, FS_Injection
<1>8. Cardinality(Left) \in Nat
  BY <1>7, FS_CardinalityType
<1> QED BY <1>5, <1>6, <1>7, <1>8 DEF Scarce

\* Other programs never give a port back to the round.
LEMMA StaysScarce ==
    ASSUME IInv, [Next]_vars, Scarce
    PROVE  Scarce'
<1>1. Left' \subseteq Left
  <2> SUFFICES ASSUME NEW p \in Port, listener[p] = Foreign
               PROVE  listener'[p] = Foreign
    BY DEF Left
  <2> USE DEF IInv, TypeOK
  <2>1. CASE Cancel \/ Intrude \/ AllSpawned \/ Return \/ UNCHANGED vars
    BY <2>1 DEF Cancel, Intrude, AllSpawned, Return, vars
  <2>2. ASSUME NEW c \in Config, XrayBinds(c) \/ XrayDies(c) \/ KillXray(c)
        PROVE  listener'[p] = Foreign
    BY <2>2 DEF XrayBinds, XrayDies, KillXray, NoLonger
  <2>3. ASSUME NEW c \in Config, Spawn(c) \/ Step(c), ~KillXray(c)
        PROVE  listener'[p] = Foreign
    BY <2>3 DEF Step, Spawn, Acquire, LeaveCancelled, GetPort, NoPortLeft,
       QuickStages, WriteConfig, StartXray, StartFails, Connected,
       NeverListened, Fetch, RemoveConfig, Report, GiveBackPort, FreeSlot, Done
  <2> QED BY <2>1, <2>2, <2>3, NextCases DEF Outside, Step
<1>2. IsFiniteSet(Left') /\ Cardinality(Left') <= Cardinality(Left)
  BY <1>1, FS_Subset DEF Scarce
<1>3. Cardinality(Left) \in Nat /\ Cardinality(Left') \in Nat
  BY <1>2, FS_CardinalityType DEF Scarce
<1> QED BY <1>2, <1>3 DEF Scarce

LEMMA ReportStep == IInv /\ ReportInv /\ [Next]_vars => ReportInv'
<1> SUFFICES ASSUME IInv, ReportInv, [Next]_vars PROVE ReportInv'
  OBVIOUS
<1>0. (Scarce => Scarce') /\ (cancelled => cancelled')
  <2>1. cancelled => cancelled'
    BY DEF Next, Cancel, Intrude, AllSpawned, Return, XrayBinds, XrayDies,
       vars, Step, Spawn, Acquire, LeaveCancelled, GetPort, NoPortLeft,
       QuickStages, WriteConfig, StartXray, StartFails, Connected,
       NeverListened, Fetch, KillXray, RemoveConfig, Report, GiveBackPort,
       FreeSlot, Done
  <2> QED BY <2>1, StaysScarce
<1>1. TypeOK /\ RoundInv'
  BY RoundStep DEF IInv
<1> USE DEF ReportInv
<1> HIDE DEF Scarce
<1>2. CASE Outside
  BY <1>0, <1>1, <1>2 DEF Outside, Cancel, Intrude, AllSpawned, Return, vars,
     XrayBinds, XrayDies, RoundInv
<1>3. ASSUME NEW c \in Config, NoPortLeft(c) PROVE ReportInv'
  <2>1. Scarce'
    BY <1>0, <1>3, FailsWhenScarce
  <2> QED BY <1>1, <1>3, <2>1 DEF NoPortLeft, TypeOK, RoundInv
<1>4. ASSUME NEW c \in Config, LeaveCancelled(c) PROVE ReportInv'
  <2>1. cancelled'
    BY <1>4 DEF LeaveCancelled
  <2> QED BY <1>1, <1>4, <2>1 DEF LeaveCancelled, TypeOK, RoundInv
<1>5. ASSUME NEW c \in Config,
             \/ Spawn(c) \/ Acquire(c) \/ GetPort(c) \/ QuickStages(c)
             \/ WriteConfig(c) \/ StartXray(c) \/ StartFails(c)
             \/ Connected(c) \/ NeverListened(c) \/ Fetch(c) \/ KillXray(c)
             \/ RemoveConfig(c)
      PROVE  ReportInv'
  <2>1. /\ results' = results
        /\ \E there \in Place \ {"giveBack", "leave", "wgDone", "done"} :
              pc' = [pc EXCEPT ![c] = there]
    BY <1>5 DEF Place, Spawn, Acquire, GetPort, QuickStages, WriteConfig,
       StartXray, StartFails, Connected, NeverListened, Fetch, KillXray,
       RemoveConfig
  <2> QED BY <1>0, <1>1, <2>1 DEF TypeOK, RoundInv
<1>6. ASSUME NEW c \in Config, Report(c) PROVE ReportInv'
  BY <1>0, <1>1, <1>6 DEF Report, TypeOK, RoundInv
<1>7. ASSUME NEW c \in Config, GiveBackPort(c) \/ FreeSlot(c) \/ Done(c)
      PROVE  ReportInv'
  BY <1>0, <1>1, <1>7 DEF GiveBackPort, FreeSlot, Done, TypeOK, RoundInv
<1> QED
  BY <1>2, <1>3, <1>4, <1>5, <1>6, <1>7, NextCases DEF Step

\* A round that nobody cancels leaves no config without a result as long as
\* other programs leave a port for every parallel test.
THEOREM EveryConfigReportedHolds == Spec => []EveryConfigReported
<1>1. Init => ReportInv
  BY DEF Init, ReportInv
<1>2. ReportInv => EveryConfigReported
  <2> SUFFICES ASSUME ReportInv, main = "returned", ~cancelled,
                      Cardinality(Left) >= Parallel,
                      NEW c \in Config, results[c] = "none"
               PROVE  FALSE
    BY DEF EveryConfigReported, Left
  <2>1. Scarce
    BY DEF ReportInv
  <2> QED BY <2>1, FS_CardinalityType DEF Scarce
<1> QED BY <1>1, <1>2, ReportStep, Invariant, PTL DEF Spec

-----------------------------------------------------------------------------
(***************************************************************************)
(* Whose tunnel a pass measures.                                           *)
(***************************************************************************)
\* A port that was lent and is another program's was taken after the loan.
StrayInv ==
    /\ strayed \subseteq Intruded
    /\ \A c \in Config : /\ held[c] # NoPort
                         /\ listener[held[c]] = Foreign
                         => held[c] \in Intruded

\* The listener of a lent port is the xray of its goroutine, or a stranger.
LEMMA LentPort ==
    ASSUME IInv, NEW c \in Config, held[c] # NoPort
    PROVE  held[c] \in Port /\ listener[held[c]] \in {c, Nobody, Foreign}
<1>1. held[c] \in Port
  BY DEF IInv, TypeOK
<1>2. ASSUME NEW d \in Config, listener[held[c]] = d PROVE d = c
  <2>1. held[d] = held[c]
    BY <1>1, <1>2 DEF IInv, ProcessInv
  <2> QED BY <2>1 DEF IInv, PortInv
<1> QED BY <1>1, <1>2 DEF IInv, TypeOK, Who

LEMMA StrayStep == IInv /\ StrayInv /\ [Next]_vars => StrayInv'
<1> SUFFICES ASSUME IInv, StrayInv, [Next]_vars PROVE StrayInv'
  OBVIOUS
<1> USE DEF StrayInv
<1>0. TypeOK
  BY DEF IInv
<1>1. CASE Cancel \/ AllSpawned \/ Return \/ UNCHANGED vars
  BY <1>1 DEF Cancel, AllSpawned, Return, vars
<1>2. CASE Intrude
  BY <1>0, <1>2 DEF Intrude, TypeOK
<1>3. ASSUME NEW c \in Config, XrayBinds(c) PROVE StrayInv'
  BY <1>0, <1>3 DEF XrayBinds, TypeOK
<1>4. ASSUME NEW c \in Config, XrayDies(c) \/ KillXray(c) PROVE StrayInv'
  BY <1>0, <1>4 DEF XrayDies, KillXray, NoLonger, TypeOK
<1>5. ASSUME NEW c \in Config, GetPort(c) PROVE StrayInv'
  BY <1>0, <1>5 DEF GetPort, Allocator!Lend, TypeOK
<1>6. ASSUME NEW c \in Config, GiveBackPort(c) PROVE StrayInv'
  BY <1>0, <1>6 DEF GiveBackPort, Allocator!TakeBack, TypeOK
<1>7. ASSUME NEW c \in Config, Fetch(c) PROVE StrayInv'
  <2>1. held[c] # NoPort
    BY <1>7 DEF Fetch, IInv, PortInv
  <2>2. strayed' \subseteq Intruded
    BY <1>7, <2>1, LentPort DEF Fetch
  <2>3. held' = held /\ listener' = listener
    BY <1>7 DEF Fetch
  <2> QED BY <2>2, <2>3
<1>8. ASSUME NEW c \in Config,
             \/ Spawn(c) \/ Acquire(c) \/ LeaveCancelled(c) \/ NoPortLeft(c)
             \/ QuickStages(c) \/ WriteConfig(c) \/ StartXray(c)
             \/ StartFails(c) \/ Connected(c) \/ NeverListened(c)
             \/ RemoveConfig(c) \/ Report(c) \/ FreeSlot(c) \/ Done(c)
      PROVE  StrayInv'
  <2>1. held' = held /\ listener' = listener /\ strayed' = strayed
    BY <1>8 DEF Spawn, Acquire, LeaveCancelled, NoPortLeft, QuickStages,
       WriteConfig, StartXray, StartFails, Connected, NeverListened,
       RemoveConfig, Report, FreeSlot, Done, tunnel
  <2> QED BY <2>1
<1> QED
  BY <1>1, <1>2, <1>3, <1>4, <1>5, <1>6, <1>7, <1>8, NextCases
     DEF Outside, Step

\* A pass that succeeds came through the xray of its config, unless another
\* program took the port after it was lent.
THEOREM StraysOnlyToIntrudersHolds == Spec => []StraysOnlyToIntruders
<1>1. Init => StrayInv
  BY DEF Init, StrayInv
<1>2. StrayInv => StraysOnlyToIntruders
  BY DEF StrayInv, StraysOnlyToIntruders
<1> QED BY <1>1, <1>2, StrayStep, Invariant, PTL DEF Spec

\* XrayTest is the abstract round the cycle relies on.
THEOREM ImplementsRoundHolds == Spec => ImplementsRound
<1>1. Init => Promise!Init
  BY DEF Init, Promise!Init
<1>2. IInv /\ [Next]_vars => [Promise!Next]_(Promise!vars)
  <2> SUFFICES ASSUME IInv, [Next]_vars
               PROVE  [Promise!Next]_(Promise!vars)
    OBVIOUS
  <2> USE DEF IInv, TypeOK, RoundInv, Promise!vars
  <2>1. ASSUME NEW c \in Config, Report(c) PROVE Promise!Report(c)
    BY <2>1 DEF Report, Promise!Report
  <2>2. CASE Return
    BY <2>2 DEF Return, Promise!Return, Promise!Next
  <2>3. CASE /\ Outside /\ ~Return
    BY <2>3 DEF Outside, Cancel, Intrude, AllSpawned, vars, XrayBinds, XrayDies
  <2>4. ASSUME NEW c \in Config, (Spawn(c) \/ Step(c)) /\ ~Report(c)
        PROVE  UNCHANGED Promise!vars
    BY <2>4 DEF Step, Spawn, Acquire, LeaveCancelled, GetPort, NoPortLeft,
       QuickStages, WriteConfig, StartXray, StartFails, Connected,
       NeverListened, Fetch, KillXray, RemoveConfig, GiveBackPort, FreeSlot,
       Done
  <2> QED BY <2>1, <2>2, <2>3, <2>4, NextCases DEF Step, Promise!Next
<1> QED
  BY <1>1, <1>2, Invariant, PTL DEF Spec, ImplementsRound, Promise!Spec
=============================================================================
