------------------------- MODULE DaemonCycleProofs -------------------------
(***************************************************************************)
(* Proofs about DaemonCycle, for every set of links and every value of the *)
(* other constants.                                                        *)
(***************************************************************************)
EXTENDS DaemonCycle, TLAPS

-----------------------------------------------------------------------------
(***************************************************************************)
(* What the operators of ConfigStore return.                               *)
(***************************************************************************)
\* Every function that rewrites the store returns a store.
LEMMA EmptyStoreType == EmptyStore \in Store
BY DEF EmptyStore, Store, Entry, EntryState, Absent, Never

LEMMA MergeType ==
    ASSUME NEW s \in Store, NEW found \in SUBSET Link
    PROVE  MergeIntoState(s, found) \in Store
BY DEF MergeIntoState, Store, Entry, EntryState, Absent, Never

LEMMA MarkType ==
    ASSUME NEW s \in Store, NEW C \in SUBSET Link, NEW alive, NEW t \in Nat
    PROVE  MarkUnreachable(s, C, alive, t) \in Store
BY DEF MarkUnreachable, Store, Entry, EntryState

LEMMA ApplyType ==
    ASSUME NEW s \in Store, NEW t \in Nat, NEW R \in SUBSET Link,
           NEW res \in [R -> Result]
    PROVE  ApplyResults(s, res, t) \in Store
BY DEF ApplyResults, Accepted, FailedState, Store, Entry, EntryState, Result

LEMMA TornType ==
    ASSUME NEW old \in Entry, NEW new \in Entry, NEW late
    PROVE  Torn(old, new, late) \in Entry
BY DEF Torn, Entry, EntryState

LEMMA PublishedType == ASSUME NEW s \in Store PROVE Published(s) \in Lines
BY DEF Published, Lines, Store, Entry

\* Merging subscriptions and marking hosts unreachable make no link work.
LEMMA MergeWorking ==
    ASSUME NEW s \in Store, NEW found \in SUBSET Link
    PROVE  Working(MergeIntoState(s, found)) \subseteq Working(s)
BY DEF MergeIntoState, Working, Store, Entry, Absent

LEMMA MarkWorking ==
    ASSUME NEW s \in Store, NEW C, NEW alive, NEW t
    PROVE  Working(MarkUnreachable(s, C, alive, t)) \subseteq Working(s)
BY DEF MarkUnreachable, Working, Store, Entry

\* A link that works after a round of tests worked before it or was accepted.
LEMMA ApplyWorking ==
    ASSUME NEW s \in Store, NEW t, NEW R \in SUBSET Link,
           NEW res \in [R -> Result]
    PROVE  Working(ApplyResults(s, res, t))
              \subseteq Working(s) \cup {h \in R : Accepted(res[h])}
BY DEF ApplyResults, FailedState, Working, Store, Entry, EntryState, Result

\* Only working links are published.
LEMMA PublishedListed ==
    ASSUME NEW s \in Store PROVE Listed(Published(s)) \subseteq Working(s)
BY DEF Published, Listed, Working

\* An entry that was torn by a concurrent change is working only if it was
\* before the change or is after it.
LEMMA TornWorking ==
    ASSUME NEW old \in Entry, NEW new \in Entry, NEW late,
           Torn(old, new, late).state = "working"
    PROVE  old.state = "working" \/ new.state = "working"
BY DEF Torn, Entry

LEMMA SurvivorsType ==
    ASSUME NEW alive \in SUBSET Link, NEW time
    PROVE  LimitSurvivors(alive, time) \subseteq alive
BY DEF LimitSurvivors

-----------------------------------------------------------------------------
(***************************************************************************)
(* Type correctness.  writeOutputFile returns to the place named by after, *)
(* so while it runs after names one.                                       *)
(***************************************************************************)
AfterOK ==
    pc \in {"publish", "fill", "sidecar"} => after # "none"

TypeInv == TypeOK /\ AfterOK

LEMMA TypeInit == Init => TypeInv
<1>. SUFFICES ASSUME Init PROVE TypeInv
  OBVIOUS
<1>. USE CycleAssumption, StoreAssumption
<1>1. EmptyStore \in Store
  BY EmptyStoreType
<1>2. Published(EmptyStore) \in Lines
  BY <1>1, PublishedType
<1>3. Idle \in SaverState
  BY <1>1 DEF Idle, SaverState
<1>. QED
  BY <1>1, <1>2, <1>3 DEF Init, TypeInv, TypeOK, AfterOK, Control, NoSaver

\* Dying leaves nothing behind that is not typed.
LEMMA VanishType == ASSUME TypeInv, Vanish PROVE
    /\ pc' \in Control /\ after' = "none" /\ entries' \in Store
    /\ parsed' \subseteq Link /\ trigger' \in BOOLEAN /\ cancelled' \in BOOLEAN
    /\ urlsLeft' \in Nat /\ now' \in Nat
    /\ cand' \subseteq Link /\ survivors' \subseteq Link
    /\ savers' \in [Saver -> SaverState]
    /\ waiting' \in Saver \cup {NoSaver}
    /\ verdict' \in [Link -> {"none", "pass", "fail"}]
    /\ pubFailed' \in BOOLEAN /\ lostSave' \in BOOLEAN
    /\ pc' = "down"
<1>1. Idle \in SaverState
  BY EmptyStoreType DEF Idle, SaverState
<1>. QED
  BY <1>1, EmptyStoreType DEF Vanish, Control

\* runCycle returns, and so does writeOutputFile.
CycleTyped ==
    /\ pc' \in Control
    /\ after' \in {"none", "loop", "endCycle", "saveSync", "saveAsync",
                   "saveFinal"}
    /\ urlsLeft' \in Nat /\ now' \in Nat
    /\ cand' \subseteq Link /\ survivors' \subseteq Link
    /\ AfterOK'

LEMMA LeaveType ==
    ASSUME TypeInv, LeaveCycle, UNCHANGED after \/ after' = "none"
    PROVE  CycleTyped
BY DEF LeaveCycle, EndOfCycle, CycleTyped, TypeInv, TypeOK, Control, AfterOK

LEMMA ReturnType ==
    ASSUME TypeInv, pc \in {"publish", "fill", "sidecar"}, Return
    PROVE  CycleTyped
<1>1. CASE after = "endCycle"
  BY <1>1, LeaveType DEF Return
<1>2. CASE after # "endCycle"
  <2>1. after \in {"loop", "saveSync", "saveAsync", "saveFinal"}
    BY <1>2 DEF TypeInv, TypeOK, AfterOK
  <2>2. pc' = after /\ after' \in {"none", after} /\ UNCHANGED cycle
    BY <1>2 DEF Return
  <2>. QED
    BY <2>1, <2>2 DEF CycleTyped, TypeInv, TypeOK, AfterOK, Control, cycle
<1>. QED
  BY <1>1, <1>2

LEMMA SaveOverType ==
    ASSUME TypeInv, SaveOver
    PROVE  CycleTyped /\ waiting' \in Saver \cup {NoSaver}
<1>1. CASE after = "saveFinal"
  BY <1>1 DEF SaveOver, CycleTyped, TypeInv, TypeOK, AfterOK, Control, cycle
<1>2. CASE after # "saveFinal"
  BY <1>2, LeaveType DEF SaveOver
<1>. QED
  BY <1>1, <1>2 DEF SaveOver

LEMMA TypeNext == TypeInv /\ [Next]_vars => TypeInv'
<1>. SUFFICES ASSUME TypeInv, [Next]_vars PROVE TypeInv'
  OBVIOUS
<1>. USE CycleAssumption, StoreAssumption DEF TypeInv
<1>1. CASE Start
  BY <1>1 DEF Start, TypeOK, AfterOK, Control, cycle, files, history
<1>2. CASE Crash
  BY <1>2, VanishType DEF Crash, TypeOK, AfterOK, files, machine
<1>3. CASE Exit
  BY <1>3, VanishType DEF Exit, TypeOK, AfterOK, files, machine
<1>4. CASE Signal
  BY <1>4 DEF Signal, TypeOK, AfterOK, cycle, files, machine, history
<1>5. CASE Trigger
  BY <1>5 DEF Trigger, TypeOK, AfterOK, cycle, files, machine, history
<1>6. CASE Tick
  BY <1>6 DEF Tick, TypeOK, AfterOK, process, cycle, files, history
<1>7. CASE LoopTop \/ WakeByTrigger \/ WakeByTimer \/ WakeByCancel \/ Shutdown
  <2>1. CASE LoopTop
    BY <2>1 DEF LoopTop, TypeOK, AfterOK, Control, cycle, files, machine,
                history
  <2>2. CASE WakeByTrigger \/ WakeByTimer
    BY <2>2 DEF WakeByTrigger, WakeByTimer, TypeOK, AfterOK, Control, cycle,
                files, machine, history
  <2>3. CASE WakeByCancel
    BY <2>3 DEF WakeByCancel, TypeOK, AfterOK, Control, cycle, files, machine,
                history
  <2>4. CASE Shutdown
    BY <2>4 DEF Shutdown, TypeOK, AfterOK, Control, cycle, files, machine,
                history
  <2>. QED
    BY <1>7, <2>1, <2>2, <2>3, <2>4
<1>8. CASE LoadURLs
  BY <1>8 DEF LoadURLs, TypeOK, AfterOK, Control, files, machine, history
<1>9. CASE LoadURLsFails \/ FetchCancelled
  <2>1. CycleTyped
    BY <1>9, LeaveType DEF LoadURLsFails, FetchCancelled
  <2>2. faults' \in Nat /\ UNCHANGED <<clock, starts, once>>
    BY <1>9 DEF LoadURLsFails, FetchCancelled, Fault, TypeOK, machine
  <2>. QED
    BY <1>9, <2>1, <2>2
       DEF LoadURLsFails, FetchCancelled, CycleTyped, TypeOK, files, history
<1>10. CASE FetchURL
  <2>1. PICK found \in SUBSET Link :
          /\ parsed' = parsed \cup found
          /\ entries' = MergeIntoState(entries, found)
    BY <1>10 DEF FetchURL
  <2>2. entries' \in Store
    BY <2>1, MergeType DEF TypeOK
  <2>3. urlsLeft' \in Nat
    BY <1>10 DEF FetchURL, TypeOK
  <2>. QED
    BY <1>10, <2>1, <2>2, <2>3
       DEF FetchURL, TypeOK, AfterOK, files, machine, history
<1>11. CASE Select
  <2>. DEFINE C == SelectCandidates(entries, clock)
  <2>1. C \subseteq Link
    BY DEF SelectCandidates
  <2>. HIDE DEF C
  <2>2. \/ /\ pc' = "publish" /\ after' \in {"saveSync", "endCycle"}
           /\ UNCHANGED cycle
        \/ LeaveCycle /\ UNCHANGED after
        \/ /\ pc' = "ping" /\ now' = clock /\ cand' = C
           /\ UNCHANGED <<after, urlsLeft, survivors>>
    BY <1>11 DEF Select, C
  <2>3. CycleTyped
    BY <2>1, <2>2, LeaveType
       DEF CycleTyped, TypeOK, AfterOK, Control, cycle
  <2>. QED
    BY <1>11, <2>3 DEF Select, CycleTyped, TypeOK, files, machine, history
<1>12. CASE Ping
  <2>1. PICK pinged, alive, time :
          /\ pinged \in SUBSET (cand \cap parsed)
          /\ alive \in SUBSET pinged /\ time \in [alive -> PingTime]
          /\ entries' = MarkUnreachable(entries, cand, alive, now)
          /\ IF cancelled
               THEN pc' = "publish" /\ after' = "saveSync"
                    /\ UNCHANGED survivors
               ELSE pc' = "xray" /\ after' = after
                    /\ survivors' = LimitSurvivors(alive, time)
          /\ RecordPings(pinged, alive)
    BY <1>12 DEF Ping
  <2>2. entries' \in Store
    BY <2>1, MarkType DEF TypeOK
  <2>3. survivors' \subseteq Link
    <3>1. LimitSurvivors(alive, time) \subseteq Link
      <4>1. alive \subseteq Link
        BY <2>1 DEF TypeOK
      <4>. QED
        BY <4>1, SurvivorsType
    <3>2. survivors' \in {survivors, LimitSurvivors(alive, time)}
      BY <2>1
    <3>. QED
      BY <3>1, <3>2 DEF TypeOK
  <2>4. verdict' \in [Link -> {"none", "pass", "fail"}]
    BY <2>1 DEF RecordPings, TypeOK
  <2>. QED
    BY <1>12, <2>1, <2>2, <2>3, <2>4
       DEF Ping, TypeOK, AfterOK, Control, files, machine
<1>13. CASE Xray
  <2>1. PICK tested, res :
          /\ tested \in SUBSET survivors
          /\ res \in [tested -> [success: BOOLEAN, latency: TestLatency]]
          /\ entries' = ApplyResults(entries, res, now)
          /\ RecordTests(res)
    BY <1>13 DEF Xray
  <2>2. res \in [tested -> Result]
    BY <2>1 DEF Result
  <2>3. tested \subseteq Link
    BY <2>1 DEF TypeOK
  <2>4. entries' \in Store
    BY <2>1, <2>2, <2>3, ApplyType DEF TypeOK
  <2>5. passed' \subseteq Link /\ verdict' \in [Link -> {"none", "pass", "fail"}]
    BY <2>1, <2>3 DEF RecordTests, TypeOK
  <2>. QED
    BY <1>13, <2>4, <2>5
       DEF Xray, TestsApplied, TypeOK, AfterOK, Control, cycle, files, machine
<1>14. CASE OpenOutput
  BY <1>14 DEF OpenOutput, TypeOK, AfterOK, Control, cycle, machine, history
<1>15. CASE WriteOutput
  <2>1. Published(entries) \in Lines
    BY PublishedType DEF TypeOK
  <2>. QED
    BY <1>15, <2>1
       DEF WriteOutput, TypeOK, AfterOK, Control, cycle, machine, history
<1>16. CASE WriteSidecar
  <2>1. Published(entries) \in Lines
    BY PublishedType DEF TypeOK
  <2>. QED
    BY <1>16, <2>1, ReturnType DEF WriteSidecar, CycleTyped, TypeOK, machine
<1>17. CASE PublishFails
  <2>1. faults' \in Nat
    BY <1>17 DEF PublishFails, Fault, TypeOK
  <2>2. CycleTyped
    BY <1>17, ReturnType DEF PublishFails
  <2>. QED
    BY <1>17, <2>1, <2>2 DEF PublishFails, CycleTyped, TypeOK, files
<1>18. CASE BeginSave
  <2>1. [pc |-> "encode", snap |-> EmptyStore] \in SaverState
    BY EmptyStoreType DEF SaverState
  <2>. QED
    BY <1>18, <2>1 DEF BeginSave, TypeOK, AfterOK, Control, cycle, files,
                       machine, history
<1>19. CASE SaveReturned \/ SaveTimedOut
  <2>1. CycleTyped /\ waiting' \in Saver \cup {NoSaver}
    BY <1>19, SaveOverType DEF SaveReturned, SaveTimedOut
  <2>2. lostSave' \in BOOLEAN /\ UNCHANGED <<passed, verdict, pubFailed>>
    BY <1>19 DEF SaveReturned, SaveTimedOut, TypeOK, history
  <2>. QED
    BY <1>19, <2>1, <2>2
       DEF SaveReturned, SaveTimedOut, CycleTyped, TypeOK, files, machine
<1>20. ASSUME NEW k \in Saver, SaverStep(k) \/ SaverReread(k)
       PROVE  TypeInv'
  <2>1. Idle \in SaverState
    BY EmptyStoreType DEF Idle, SaverState
  <2>2. savers[k].snap \in Store /\ entries \in Store
    BY DEF TypeOK, SaverState
  <2>3. CASE SaverEncode(k)
    <3>1. [pc |-> "write", snap |-> entries] \in SaverState
      BY <2>2 DEF SaverState
    <3>. QED
      BY <2>3, <3>1 DEF SaverEncode, TypeOK, AfterOK, cycle, files, machine,
                        history
  <2>4. CASE SaverReread(k)
    <3>1. PICK h \in Link, late \in SUBSET {"state", "lastTested", "latency"} :
            savers' = [savers EXCEPT ![k] =
              [pc |-> "write",
               snap |-> [savers[k].snap EXCEPT ![h] =
                           IF savers[k].snap[h].state = "absent"
                             THEN entries[h]
                             ELSE Torn(savers[k].snap[h], entries[h], late)]]]
      BY <2>4 DEF SaverReread
    <3>2. savers[k].snap[h] \in Entry /\ entries[h] \in Entry
      BY <2>2 DEF Store
    <3>3. Torn(savers[k].snap[h], entries[h], late) \in Entry
      BY <3>2, TornType
    <3>4. savers'[k] \in SaverState
      BY <2>2, <3>1, <3>2, <3>3 DEF SaverState, Store, TypeOK
    <3>. QED
      BY <2>4, <3>1, <3>4 DEF SaverReread, TypeOK, AfterOK, cycle, files,
                              machine, history
  <2>5. CASE SaverWriteTmp(k)
    <3>1. [pc |-> "rename", snap |-> savers[k].snap] \in SaverState
      BY <2>2 DEF SaverState
    <3>. QED
      BY <2>5, <3>1 DEF SaverWriteTmp, TypeOK, AfterOK, cycle, files, machine,
                        history
  <2>6. CASE SaverRename(k)
    BY <2>1, <2>2, <2>6 DEF SaverRename, TypeOK, AfterOK, cycle, machine,
                            history
  <2>7. CASE SaverFails(k)
    BY <2>1, <2>7 DEF SaverFails, Fault, TypeOK, AfterOK, cycle, files
  <2>. QED
    BY <1>20, <2>3, <2>4, <2>5, <2>6, <2>7 DEF SaverStep
<1>21. CASE UNCHANGED vars
  BY <1>21 DEF vars, process, cycle, files, machine, history, TypeOK, AfterOK
<1>. QED
  BY <1>1, <1>2, <1>3, <1>4, <1>5, <1>6, <1>7, <1>8, <1>9, <1>10, <1>11,
     <1>12, <1>13, <1>14, <1>15, <1>16, <1>17, <1>18, <1>19, <1>20, <1>21
     DEF Next, RunStep

\* The values of all variables stay in the sets the code gives them.
THEOREM TypeCorrect == Spec => []TypeOK
<1>1. Init => TypeInv
  BY TypeInit
<1>2. TypeInv /\ [Next]_vars => TypeInv'
  BY TypeNext
<1>3. TypeInv => TypeOK
  BY DEF TypeInv
<1>. QED
  BY <1>1, <1>2, <1>3, PTL DEF Spec

-----------------------------------------------------------------------------
(***************************************************************************)
(* Nothing untested is served.  ServedPassed is inductive relative to the  *)
(* types: it follows a link from a successful test through the state, the  *)
(* snapshots of the savers, the files, and back through a restart.         *)
(***************************************************************************)
LEMMA EmptyWorking == Working(EmptyStore) = {}
BY DEF Working, EmptyStore, Absent

LEMMA VanishServed ==
    ASSUME TypeInv, ServedPassed, Vanish, UNCHANGED <<files, passed>>
    PROVE  ServedPassed'
<1>1. \A k \in Saver : savers'[k].snap = EmptyStore
  BY DEF Vanish, Idle
<1>. QED
  BY <1>1, EmptyWorking DEF Vanish, ServedPassed, files, Working, Listed

LEMMA ServedInit == Init => ServedPassed
<1>. SUFFICES ASSUME Init PROVE ServedPassed
  OBVIOUS
<1>1. Listed(Published(EmptyStore)) = {}
  BY EmptyStoreType, EmptyWorking, PublishedListed
<1>. QED
  BY <1>1, EmptyWorking DEF Init, ServedPassed, Idle

LEMMA ServedNext == TypeInv /\ ServedPassed /\ [Next]_vars => ServedPassed'
<1>. SUFFICES ASSUME TypeInv, ServedPassed, [Next]_vars PROVE ServedPassed'
  OBVIOUS
<1>t. entries \in Store /\ stateFile \in Store
      /\ savers \in [Saver -> SaverState]
  BY DEF TypeInv, TypeOK
<1>. DEFINE Kept == UNCHANGED <<entries, savers, files, passed>>
<1>k. ASSUME Kept PROVE ServedPassed'
  BY <1>k DEF ServedPassed, files, Working, Listed
<1>1. CASE Start
  BY <1>1 DEF Start, ServedPassed, files, history, Working, Listed
<1>2. CASE Crash \/ Exit
  BY <1>2, VanishServed DEF Crash, Exit
<1>3. CASE Signal \/ Trigger \/ Tick
  BY <1>3, <1>k DEF Signal, Trigger, Tick, process, history
<1>4. CASE LoopTop \/ WakeByTrigger \/ WakeByTimer \/ WakeByCancel \/ Shutdown
  BY <1>4, <1>k DEF LoopTop, WakeByTrigger, WakeByTimer, WakeByCancel,
                    Shutdown, history
<1>5. CASE LoadURLs \/ LoadURLsFails \/ FetchCancelled \/ Select
  BY <1>5, <1>k DEF LoadURLs, LoadURLsFails, FetchCancelled, Select, history
<1>6. CASE FetchURL
  <2>1. PICK found \in SUBSET Link : entries' = MergeIntoState(entries, found)
    BY <1>6 DEF FetchURL
  <2>2. Working(entries') \subseteq passed
    BY <2>1, <1>t, MergeWorking DEF ServedPassed
  <2>. QED
    BY <1>6, <2>2 DEF FetchURL, ServedPassed, files, history, Working, Listed
<1>7. CASE Ping
  <2>1. PICK alive : entries' = MarkUnreachable(entries, cand, alive, now)
    BY <1>7 DEF Ping
  <2>2. Working(entries') \subseteq passed
    BY <2>1, <1>t, MarkWorking DEF ServedPassed
  <2>. QED
    BY <1>7, <2>2 DEF Ping, ServedPassed, files, Working, Listed
<1>8. CASE Xray
  <2>1. PICK tested, res :
          /\ tested \in SUBSET survivors
          /\ res \in [tested -> [success: BOOLEAN, latency: TestLatency]]
          /\ entries' = ApplyResults(entries, res, now)
          /\ RecordTests(res)
    BY <1>8 DEF Xray
  <2>2. res \in [tested -> Result] /\ tested \subseteq Link
    <3>1. tested \subseteq Link
      BY <2>1 DEF TypeInv, TypeOK
    <3>2. res \in [tested -> Result]
      BY <2>1, CycleAssumption DEF Result
    <3>. QED
      BY <3>1, <3>2
  <2>3. Working(entries')
          \subseteq Working(entries) \cup {h \in tested : Accepted(res[h])}
    BY <1>t, <2>1, <2>2, ApplyWorking
  <2>4. {h \in tested : Accepted(res[h])} \subseteq passed'
    BY <2>1, <2>2, StoreAssumption DEF RecordTests, Accepted, Result
  <2>5. passed \subseteq passed'
    BY <2>1 DEF RecordTests
  <2>6. Working(entries') \subseteq passed'
    BY <2>3, <2>4, <2>5 DEF ServedPassed
  <2>. QED
    BY <1>8, <2>5, <2>6 DEF Xray, ServedPassed, files, Working, Listed
<1>9. CASE OpenOutput
  BY <1>9 DEF OpenOutput, ServedPassed, history, Working, Listed
<1>10. CASE WriteOutput
  BY <1>10, <1>t, PublishedListed
     DEF WriteOutput, ServedPassed, history, Working, Listed
<1>11. CASE WriteSidecar
  BY <1>11, <1>t, PublishedListed
     DEF WriteSidecar, ServedPassed, Working, Listed
<1>12. CASE PublishFails \/ SaveReturned \/ SaveTimedOut
  BY <1>12, <1>k DEF PublishFails, SaveReturned, SaveTimedOut, history
<1>13. CASE BeginSave
  <2>1. \A k \in Saver : savers'[k].snap \in {savers[k].snap, EmptyStore}
    BY <1>13, <1>t DEF BeginSave
  <2>. QED
    BY <1>13, <2>1, EmptyWorking
       DEF BeginSave, ServedPassed, files, history, Working, Listed
<1>14. ASSUME NEW k \in Saver, SaverStep(k) \/ SaverReread(k)
       PROVE  ServedPassed'
  <2>1. UNCHANGED <<entries, passed, outFile, sidecar>>
    BY <1>14 DEF SaverStep, SaverEncode, SaverReread, SaverWriteTmp,
                 SaverRename, SaverFails, files, history
  <2>2. Working(stateFile') \subseteq passed
    BY <1>14 DEF SaverStep, SaverEncode, SaverReread, SaverWriteTmp,
                 SaverRename, SaverFails, files, ServedPassed, Working
  <2>3. \A j \in Saver \ {k} : savers'[j] = savers[j]
    BY <1>14, <1>t DEF SaverStep, SaverEncode, SaverReread, SaverWriteTmp,
                       SaverRename, SaverFails
  <2>4. Working(savers'[k].snap) \subseteq passed
    <3>1. CASE SaverEncode(k)
      BY <3>1, <1>t DEF SaverEncode, ServedPassed
    <3>2. CASE SaverWriteTmp(k)
      BY <3>2, <1>t DEF SaverWriteTmp, ServedPassed
    <3>3. CASE SaverRename(k) \/ SaverFails(k)
      BY <3>3, <1>t, EmptyWorking DEF SaverRename, SaverFails, Idle
    <3>4. CASE SaverReread(k)
      <4>. DEFINE old == savers[k].snap
      <4>1. old \in Store
        BY <1>t DEF SaverState
      <4>2. PICK h \in Link, late \in SUBSET {"state", "lastTested", "latency"} :
              savers' = [savers EXCEPT ![k] =
                [pc |-> "write",
                 snap |-> [savers[k].snap EXCEPT ![h] =
                             IF savers[k].snap[h].state = "absent"
                               THEN entries[h]
                               ELSE Torn(savers[k].snap[h], entries[h], late)]]]
        BY <3>4 DEF SaverReread
      <4>5. savers'[k].snap =
              [old EXCEPT ![h] = IF old[h].state = "absent" THEN entries[h]
                                 ELSE Torn(old[h], entries[h], late)]
        BY <4>2, <1>t
      <4>3. ASSUME savers'[k].snap[h].state = "working"
            PROVE  old[h].state = "working" \/ entries[h].state = "working"
        BY <4>1, <4>3, <4>5, <1>t, TornWorking DEF Store
      <4>. QED
        BY <4>1, <4>3, <4>5 DEF ServedPassed, Working, Store
    <3>. QED
      BY <1>14, <3>1, <3>2, <3>3, <3>4 DEF SaverStep
  <2>. QED
    BY <2>1, <2>2, <2>3, <2>4 DEF ServedPassed, Working, Listed
<1>15. CASE UNCHANGED vars
  BY <1>15, <1>k DEF vars, process, history
<1>. QED
  BY <1>1, <1>2, <1>3, <1>4, <1>5, <1>6, <1>7, <1>8, <1>9, <1>10, <1>11,
     <1>12, <1>13, <1>14, <1>15 DEF Next, RunStep

\* A link is served, held or persisted as working only if it once passed.
THEOREM ServedPassedHolds == Spec => []ServedPassed
<1>1. Init => TypeInv /\ ServedPassed
  BY TypeInit, ServedInit
<1>2. TypeInv /\ ServedPassed /\ [Next]_vars => (TypeInv /\ ServedPassed)'
  BY TypeNext, ServedNext
<1>. QED
  BY <1>1, <1>2, PTL DEF Spec

-----------------------------------------------------------------------------
(***************************************************************************)
(* The latest verdict decides.  A process begins without verdicts, and the *)
(* links it loads as working keep that state until one of them fails.      *)
(***************************************************************************)
LatestInv ==
    /\ pc = "down" => \A h \in Link : verdict[h] = "none"
    /\ WorkingIsLatestVerdict

LEMMA LatestInit == Init => LatestInv
BY EmptyWorking DEF Init, LatestInv, WorkingIsLatestVerdict

\* No process, no verdicts and no entries.
LEMMA VanishLatest == ASSUME Vanish PROVE LatestInv'
BY EmptyWorking DEF Vanish, LatestInv, WorkingIsLatestVerdict

LEMMA LatestNext == TypeInv /\ LatestInv /\ [Next]_vars => LatestInv'
<1>. SUFFICES ASSUME TypeInv, LatestInv, [Next]_vars PROVE LatestInv'
  OBVIOUS
<1>t. entries \in Store /\ stateFile \in Store
  BY DEF TypeInv, TypeOK
<1>. DEFINE Kept == UNCHANGED <<entries, verdict>> /\ pc' # "down"
<1>k. ASSUME Kept PROVE LatestInv'
  BY <1>k DEF LatestInv, WorkingIsLatestVerdict, Working
<1>1. CASE Start
  BY <1>1 DEF Start, LatestInv, WorkingIsLatestVerdict, history, Working
<1>2. CASE Crash \/ Exit
  BY <1>2, VanishLatest DEF Crash, Exit
<1>3. CASE Tick \/ UNCHANGED vars
  BY <1>3 DEF Tick, vars, process, history, LatestInv,
              WorkingIsLatestVerdict, Working
<1>4. CASE Signal \/ Trigger
  BY <1>4, <1>k DEF Signal, Trigger, history
<1>5. CASE LoopTop \/ WakeByTrigger \/ WakeByTimer \/ WakeByCancel \/ Shutdown
  BY <1>5, <1>k DEF LoopTop, WakeByTrigger, WakeByTimer, WakeByCancel,
                    Shutdown, history
<1>6. CASE LoadURLs \/ LoadURLsFails \/ FetchCancelled \/ Select
  BY <1>6, <1>k DEF LoadURLs, LoadURLsFails, FetchCancelled, Select, history,
                    LeaveCycle, EndOfCycle
<1>7. CASE FetchURL
  <2>1. PICK found \in SUBSET Link : entries' = MergeIntoState(entries, found)
    BY <1>7 DEF FetchURL
  <2>2. Working(entries') \subseteq Working(entries)
    BY <2>1, <1>t, MergeWorking
  <2>. QED
    BY <1>7, <2>2 DEF FetchURL, LatestInv, WorkingIsLatestVerdict, history
<1>8. CASE Ping
  <2>1. PICK pinged, alive :
          /\ pinged \in SUBSET (cand \cap parsed)
          /\ entries' = MarkUnreachable(entries, cand, alive, now)
          /\ RecordPings(pinged, alive)
    BY <1>8 DEF Ping
  <2>2. Working(entries') \subseteq Working(entries)
    BY <2>1, <1>t, MarkWorking
  <2>3. ASSUME NEW h \in Working(entries') PROVE h \notin pinged \ alive
    <3>1. h \in Link /\ entries'[h].state = "working"
      BY <2>3 DEF Working
    <3>2. ASSUME h \in cand \ alive PROVE FALSE
      <4>1. CASE entries[h].state \in {"absent", "unreachable"}
        BY <2>1, <3>1, <3>2, <4>1 DEF MarkUnreachable
      <4>2. CASE entries[h].state \notin {"absent", "unreachable"}
        <5>1. entries'[h] = [entries[h] EXCEPT !.state = "unreachable",
                                               !.lastTested = now]
          BY <2>1, <3>1, <3>2, <4>2 DEF MarkUnreachable
        <5>. QED
          BY <3>1, <5>1, <1>t DEF Store, Entry
      <4>. QED
        BY <4>1, <4>2
    <3>. QED
      BY <2>1, <3>2
  <2>4. \A h \in Working(entries') : verdict'[h] # "fail"
    BY <2>1, <2>2, <2>3 DEF RecordPings, Working, LatestInv,
       WorkingIsLatestVerdict
  <2>5. pc' # "down"
    BY <1>8 DEF Ping
  <2>. QED
    BY <2>4, <2>5 DEF LatestInv, WorkingIsLatestVerdict
<1>9. CASE Xray
  <2>1. PICK tested, res :
          /\ tested \in SUBSET survivors
          /\ res \in [tested -> [success: BOOLEAN, latency: TestLatency]]
          /\ entries' = ApplyResults(entries, res, now)
          /\ RecordTests(res)
    BY <1>9 DEF Xray
  <2>2. res \in [tested -> Result]
    BY <2>1, CycleAssumption DEF Result
  <2>3. ASSUME NEW h \in Working(entries') PROVE verdict'[h] # "fail"
    <3>1. CASE h \notin tested
      <4>1. entries'[h] = entries[h] /\ verdict'[h] = verdict[h]
        BY <2>1, <3>1, <2>3 DEF ApplyResults, RecordTests, Working
      <4>. QED
        BY <4>1, <2>3 DEF LatestInv, WorkingIsLatestVerdict, Working
    <3>2. CASE h \in tested
      <4>1. h \in Link /\ Accepted(res[h])
        BY <2>1, <2>3, <3>2, <1>t
           DEF ApplyResults, FailedState, Working, Store, Entry
      <4>2. verdict'[h] = "pass"
        BY <2>1, <2>2, <3>2, <4>1, StoreAssumption
           DEF RecordTests, Accepted, Result
      <4>. QED
        BY <4>2
    <3>. QED
      BY <3>1, <3>2
  <2>4. pc' # "down"
    BY <1>9 DEF Xray, TestsApplied
  <2>. QED
    BY <2>3, <2>4 DEF LatestInv, WorkingIsLatestVerdict
<1>10. CASE OpenOutput \/ WriteOutput \/ BeginSave
  BY <1>10, <1>k DEF OpenOutput, WriteOutput, BeginSave, history
<1>11. CASE WriteSidecar \/ PublishFails
  <2>1. pc' # "down"
    BY <1>11 DEF WriteSidecar, PublishFails, Return, LeaveCycle, EndOfCycle,
                 TypeInv, TypeOK
  <2>. QED
    BY <1>11, <1>k, <2>1 DEF WriteSidecar, PublishFails
<1>12. CASE SaveReturned \/ SaveTimedOut
  <2>1. pc' # "down"
    BY <1>12 DEF SaveReturned, SaveTimedOut, SaveOver, LeaveCycle, EndOfCycle
  <2>. QED
    BY <1>12, <1>k, <2>1 DEF SaveReturned, SaveTimedOut, history
<1>13. ASSUME NEW k \in Saver, SaverStep(k) \/ SaverReread(k)
       PROVE  LatestInv'
  BY <1>13 DEF SaverStep, SaverEncode, SaverReread, SaverWriteTmp,
               SaverRename, SaverFails, history, LatestInv,
               WorkingIsLatestVerdict, Working
<1>. QED
  BY <1>1, <1>2, <1>3, <1>4, <1>5, <1>6, <1>7, <1>8, <1>9, <1>10, <1>11,
     <1>12, <1>13 DEF Next, RunStep

\* No link is held as working over a later failed ping or test of this
\* process, whatever was cancelled, capped or torn meanwhile.
THEOREM WorkingIsLatestVerdictHolds == Spec => []WorkingIsLatestVerdict
<1>1. Init => TypeInv /\ LatestInv
  BY TypeInit, LatestInit
<1>2. TypeInv /\ LatestInv /\ [Next]_vars => (TypeInv /\ LatestInv)'
  BY TypeNext, LatestNext
<1>3. LatestInv => WorkingIsLatestVerdict
  BY DEF LatestInv
<1>. QED
  BY <1>1, <1>2, <1>3, PTL DEF Spec

-----------------------------------------------------------------------------
(***************************************************************************)
(* The published files agree with the state between cycles.  The invariant *)
(* says where in the program they do: everywhere but between a ping pass,  *)
(* which changes the set of working links, and the end of the publication  *)
(* that every path from there leads to.  Fetching changes no working link. *)
(***************************************************************************)
Whole(s) == [status |-> "whole", lines |-> Published(s)]

Settled == {"loop", "sleep", "shutdown", "load", "fetch", "ping", "wait",
            "saveSync", "saveAsync", "saveFinal", "exit"}

PublishedInv ==
    ~once =>
        /\ pc \in Settled /\ ~pubFailed =>
              outFile = Whole(entries) /\ sidecar = Published(entries)
        /\ pc = "sidecar" => outFile = Whole(entries)

LEMMA MergePublished ==
    ASSUME NEW s \in Store, NEW found \in SUBSET Link
    PROVE  Published(MergeIntoState(s, found)) = Published(s)
BY DEF Published, MergeIntoState, Store, Entry, Absent

LEMMA PublishedNext == TypeInv /\ PublishedInv /\ [Next]_vars => PublishedInv'
<1>. SUFFICES ASSUME TypeInv, PublishedInv, [Next]_vars, ~once'
              PROVE  PublishedInv'
  BY DEF PublishedInv
<1>. USE DEF PublishedInv, Settled, Whole, machine
<1>1. CASE Start
  BY <1>1 DEF Start
<1>2. CASE Crash \/ Exit
  BY <1>2 DEF Crash, Exit, Vanish
<1>3. CASE Signal \/ Trigger \/ Tick
  BY <1>3 DEF Signal, Trigger, Tick, process, files, history
<1>4. CASE LoopTop \/ WakeByTrigger \/ WakeByTimer \/ WakeByCancel \/ Shutdown
  BY <1>4 DEF LoopTop, WakeByTrigger, WakeByTimer, WakeByCancel, Shutdown,
              files, history
<1>5. CASE LoadURLs \/ LoadURLsFails \/ FetchCancelled
  BY <1>5 DEF LoadURLs, LoadURLsFails, FetchCancelled, LeaveCycle, EndOfCycle,
              files, history
<1>6. CASE FetchURL
  <2>1. PICK found \in SUBSET Link : entries' = MergeIntoState(entries, found)
    BY <1>6 DEF FetchURL
  <2>2. Published(entries') = Published(entries)
    BY <2>1, MergePublished DEF TypeInv, TypeOK
  <2>. QED
    BY <1>6, <2>2 DEF FetchURL, files, history
<1>7. CASE Select
  <2>1. pc = "fetch" /\ pc' \in {"publish", "ping", "sleep"}
    BY <1>7 DEF Select, LeaveCycle, EndOfCycle
  <2>. QED
    BY <1>7, <2>1 DEF Select, files, history
<1>8. CASE Ping \/ Xray
  BY <1>8 DEF Ping, Xray, TestsApplied
<1>9. CASE OpenOutput \/ WriteOutput
  BY <1>9 DEF OpenOutput, WriteOutput
<1>10. CASE WriteSidecar
  <2>1. pc' \in Settled
    BY <1>10 DEF WriteSidecar, Return, LeaveCycle, EndOfCycle, TypeInv, TypeOK,
                 AfterOK
  <2>. QED
    BY <1>10, <2>1 DEF WriteSidecar
<1>11. CASE PublishFails
  <2>1. pc' \in Settled
    BY <1>11 DEF PublishFails, Return, LeaveCycle, EndOfCycle, TypeInv, TypeOK,
                 AfterOK
  <2>. QED
    BY <1>11, <2>1 DEF PublishFails
<1>12. CASE BeginSave
  BY <1>12 DEF BeginSave, files, history
<1>13. CASE SaveReturned \/ SaveTimedOut
  <2>1. pc = "wait" /\ pc' \in {"exit", "sleep"}
    BY <1>13 DEF SaveReturned, SaveTimedOut, SaveOver, LeaveCycle, EndOfCycle
  <2>. QED
    BY <1>13, <2>1 DEF SaveReturned, SaveTimedOut, files, history
<1>14. ASSUME NEW k \in Saver, SaverStep(k) \/ SaverReread(k)
       PROVE  PublishedInv'
  BY <1>14 DEF SaverStep, SaverEncode, SaverReread, SaverWriteTmp, SaverRename,
               SaverFails, files, history
<1>15. CASE UNCHANGED vars
  BY <1>15 DEF vars, process, files, history
<1>. QED
  BY <1>1, <1>2, <1>3, <1>4, <1>5, <1>6, <1>7, <1>8, <1>9, <1>10, <1>11,
     <1>12, <1>13, <1>14, <1>15 DEF Next, RunStep

\* Between cycles the files a daemon publishes say what its state says.
THEOREM PublishedIsCurrentHolds == Spec => []PublishedIsCurrent
<1>1. Init => TypeInv /\ PublishedInv
  BY TypeInit DEF Init, PublishedInv, Settled
<1>2. TypeInv /\ PublishedInv /\ [Next]_vars => (TypeInv /\ PublishedInv)'
  BY TypeNext, PublishedNext
<1>3. TypeInv /\ PublishedInv => PublishedIsCurrent
  BY DEF PublishedInv, PublishedIsCurrent, Settled, Whole
<1>. QED
  BY <1>1, <1>2, <1>3, PTL DEF Spec

-----------------------------------------------------------------------------
(***************************************************************************)
(* The state file agrees with the state between cycles.  While no save     *)
(* failed, at most one saver is running, and Run waits for it.  The path   *)
(* out of a cycle that does not save (candidates, none of them parsed) is  *)
(* harmless because a link that differs from its persisted entry during a  *)
(* fetch is new: it is parsed, and being unknown it is a candidate.        *)
(***************************************************************************)
Persisted == stateFile = entries

SaversInv ==
    /\ pc # "wait" => \A k \in Saver : savers[k].pc = "idle"
    /\ pc = "wait" =>
          /\ waiting \in Saver
          /\ \A k \in Saver \ {waiting} : savers[k].pc = "idle"
          /\ savers[waiting].pc \in {"write", "rename"} =>
                savers[waiting].snap = entries
          /\ savers[waiting].pc = "idle" => Persisted

NewOnly ==
    \A h \in Link : entries[h] # stateFile[h] =>
                       entries[h].state = "unknown" /\ h \in parsed

PersistedInv ==
    /\ pc \in {"sleep", "loop"} /\ ~cancelled => Persisted
    /\ pc = "load" => Persisted
    /\ pc \in {"publish", "fill", "sidecar"} /\ after \in {"loop", "endCycle"}
          => Persisted
    /\ pc = "fetch" => NewOnly
    /\ pc = "exit" /\ (once => ~cancelled) => Persisted

SavedInv == ~lostSave => SaversInv /\ PersistedInv

LEMMA SavedNext == TypeInv /\ SavedInv /\ [Next]_vars => SavedInv'
<1>. SUFFICES ASSUME TypeInv, SavedInv, [Next]_vars, ~lostSave'
              PROVE  SaversInv' /\ PersistedInv'
  BY DEF SavedInv
<1>. USE CycleAssumption
<1>t. /\ entries \in Store /\ stateFile \in Store
      /\ savers \in [Saver -> SaverState]
  BY DEF TypeInv, TypeOK
<1>1. CASE Crash \/ Exit
  BY <1>1 DEF Crash, Exit, Vanish, Idle, SaversInv, PersistedInv
<1>2. CASE ~(Crash \/ Exit)
  <2>0. ~lostSave
    BY <1>2, <1>t DEF TypeInv, TypeOK, Next, RunStep, Start, Signal, Trigger,
       Tick, LoopTop, WakeByTrigger, WakeByTimer, WakeByCancel, Shutdown,
       LoadURLs, LoadURLsFails, FetchURL, FetchCancelled, Select, Ping, Xray,
       OpenOutput, WriteOutput, WriteSidecar, PublishFails, BeginSave,
       SaveReturned, SaveTimedOut, SaverStep, SaverEncode, SaverReread,
       SaverWriteTmp, SaverRename, SaverFails, vars, history
  <2>i. SaversInv /\ PersistedInv
    BY <2>0 DEF SavedInv
  <2>. USE <2>i DEF Persisted, machine
  <2>1. CASE Start
    BY <2>1 DEF Start, cycle, files, SaversInv, PersistedInv
  <2>2. CASE Signal \/ Trigger \/ Tick
    BY <2>2 DEF Signal, Trigger, Tick, process, files, SaversInv, PersistedInv,
                NewOnly
  <2>3. CASE LoopTop \/ WakeByTrigger \/ WakeByTimer \/ WakeByCancel \/ Shutdown
    BY <2>3 DEF LoopTop, WakeByTrigger, WakeByTimer, WakeByCancel, Shutdown,
                files, SaversInv, PersistedInv
  <2>4. CASE LoadURLs
    BY <2>4 DEF LoadURLs, files, SaversInv, PersistedInv, NewOnly
  <2>5. CASE LoadURLsFails
    BY <2>5 DEF LoadURLsFails, LeaveCycle, EndOfCycle, files, SaversInv,
                PersistedInv
  <2>6. CASE FetchCancelled
    BY <2>6 DEF FetchCancelled, LeaveCycle, EndOfCycle, files, SaversInv,
                PersistedInv
  <2>7. CASE FetchURL
    <3>1. PICK found \in SUBSET Link :
            /\ parsed' = parsed \cup found
            /\ entries' = MergeIntoState(entries, found)
      BY <2>7 DEF FetchURL
    <3>2. NewOnly'
      BY <2>7, <3>1, <1>t
         DEF FetchURL, PersistedInv, NewOnly, MergeIntoState, Absent, files
    <3>. QED
      BY <2>7, <3>2 DEF FetchURL, SaversInv, PersistedInv
  <2>8. CASE Select
    <3>. DEFINE C == SelectCandidates(entries, clock)
    <3>1. ASSUME C \cap parsed = {} PROVE Persisted
      <4>1. \A h \in Link : entries[h] = stateFile[h]
        BY <2>8, <3>1 DEF Select, PersistedInv, NewOnly, SelectCandidates
      <4>. QED
        BY <4>1, <1>t DEF Store
    <3>. HIDE DEF C
    <3>2. \/ pc' = "publish" /\ after' = "saveSync"
          \/ pc' = "publish" /\ after' = "endCycle" /\ C \cap parsed = {}
          \/ pc' \in {"sleep", "exit"} /\ (pc' = "exit" => once) /\ cancelled
          \/ pc' = "ping"
      BY <2>8 DEF Select, LeaveCycle, EndOfCycle, C
    <3>. QED
      BY <2>8, <3>1, <3>2 DEF Select, files, SaversInv, PersistedInv
  <2>9. CASE Ping \/ Xray
    BY <2>9 DEF Ping, Xray, TestsApplied, SaversInv, PersistedInv
  <2>10. CASE OpenOutput \/ WriteOutput
    BY <2>10 DEF OpenOutput, WriteOutput, SaversInv, PersistedInv
  <2>11. CASE WriteSidecar \/ PublishFails
    <3>1. \/ after \in {"loop", "endCycle"} /\ pc' \in {"loop", "sleep", "exit"}
          \/ pc' \in {"saveSync", "saveAsync", "saveFinal"}
      BY <2>11 DEF WriteSidecar, PublishFails, Return, LeaveCycle, EndOfCycle,
                   TypeInv, TypeOK, AfterOK
    <3>. QED
      BY <2>11, <3>1 DEF WriteSidecar, PublishFails, files, SaversInv,
                         PersistedInv
  <2>12. CASE BeginSave
    <3>1. PICK k \in Saver :
            /\ savers' = [savers EXCEPT ![k] =
                             [pc |-> "encode", snap |-> EmptyStore]]
            /\ waiting' = k
      BY <2>12 DEF BeginSave
    <3>2. pc' = "wait" /\ pc # "wait"
      BY <2>12 DEF BeginSave
    <3>. QED
      BY <3>1, <3>2, <1>t DEF SaversInv, PersistedInv
  <2>13. CASE SaveReturned
    <3>1. pc' \in {"exit", "sleep"} /\ Persisted
      BY <2>13 DEF SaveReturned, SaveOver, LeaveCycle, EndOfCycle, SaversInv
    <3>. QED
      BY <2>13, <3>1 DEF SaveReturned, files, SaversInv, PersistedInv
  <2>14. CASE SaveTimedOut
    BY <2>14 DEF SaveTimedOut
  <2>15. ASSUME NEW k \in Saver, SaverStep(k) \/ SaverReread(k)
         PROVE  SaversInv' /\ PersistedInv'
    <3>1. savers[k].pc # "idle"
      BY <2>15 DEF SaverStep, SaverEncode, SaverReread, SaverWriteTmp,
                   SaverRename, SaverFails
    <3>2. pc = "wait" /\ waiting = k
      BY <3>1 DEF SaversInv
    <3>3. UNCHANGED <<pc, waiting, entries>>
      BY <2>15 DEF SaverStep, SaverEncode, SaverReread, SaverWriteTmp,
                   SaverRename, SaverFails
    <3>4. CASE SaverEncode(k)
      BY <3>2, <3>3, <3>4, <1>t DEF SaverEncode, SaversInv, PersistedInv
    <3>5. CASE SaverReread(k)
      BY <3>2, <3>5, <1>t DEF SaverReread, SaversInv
    <3>6. CASE SaverWriteTmp(k)
      BY <3>2, <3>3, <3>6, <1>t DEF SaverWriteTmp, SaversInv, PersistedInv
    <3>7. CASE SaverRename(k)
      BY <3>2, <3>3, <3>7, <1>t DEF SaverRename, Idle, SaversInv, PersistedInv
    <3>8. CASE SaverFails(k)
      BY <3>8 DEF SaverFails
    <3>. QED
      BY <2>15, <3>4, <3>5, <3>6, <3>7, <3>8 DEF SaverStep
  <2>16. CASE UNCHANGED vars
    BY <2>16 DEF vars, process, files, SaversInv, PersistedInv, NewOnly
  <2>. QED
    BY <1>2, <2>1, <2>2, <2>3, <2>4, <2>5, <2>6, <2>7, <2>8, <2>9, <2>10,
       <2>11, <2>12, <2>13, <2>14, <2>15, <2>16 DEF Next, RunStep
<1>. QED
  BY <1>1, <1>2

\* Between cycles, and after an orderly end, a restart loses nothing.
THEOREM SavedIsCurrentHolds == Spec => []SavedIsCurrent
<1>1. Init => TypeInv /\ SavedInv
  BY TypeInit DEF Init, SavedInv, SaversInv, PersistedInv, Idle
<1>2. TypeInv /\ SavedInv /\ [Next]_vars => (TypeInv /\ SavedInv)'
  BY TypeNext, SavedNext
<1>3. TypeInv /\ SavedInv => SavedIsCurrent
  BY DEF SavedInv, PersistedInv, Persisted, SavedIsCurrent
<1>. QED
  BY <1>1, <1>2, <1>3, PTL DEF Spec

-----------------------------------------------------------------------------
(***************************************************************************)
(* The persisted state never goes back, as long as no save takes longer    *)
(* than its three seconds.  Then only a signal abandons a save, and after  *)
(* it no cycle begins: a saver that runs without Run waiting for it runs   *)
(* beside a process on its way out, which does not touch the state, so     *)
(* every snapshot under way is the state itself.  The state only grows,    *)
(* because no test is dated before an earlier one.                         *)
(***************************************************************************)
Leaving ==
    /\ cancelled
    /\ \/ pc \in {"sleep", "loop", "shutdown", "saveFinal", "wait", "exit"}
       \/ pc \in {"publish", "fill", "sidecar"} /\ after = "saveFinal"

SnapshotInv ==
    \A k \in Saver : savers[k].pc # "idle" =>
       /\ (pc = "wait" /\ waiting = k) \/ Leaving
       /\ savers[k].pc \in {"write", "rename"} => savers[k].snap = entries

Grown(s, t) ==
    \A h \in Link :
       /\ s[h].state # "absent" => t[h].state # "absent"
       /\ s[h].lastTested <= t[h].lastTested

\* What is not known was never tested, and no test lies in the future.
Dated(s, t) ==
    \A h \in Link :
       /\ s[h].state = "absent" => s[h].lastTested = Never
       /\ s[h].lastTested <= t

AgeInv ==
    /\ now <= clock
    /\ Dated(entries, clock) /\ Dated(stateFile, clock)
    /\ pc \in {"ping", "xray"} => Dated(entries, now)
    /\ pc # "down" => Grown(stateFile, entries)

RegressInv == SnapshotInv /\ AgeInv

LEMMA DatedLater ==
    ASSUME NEW s \in Store, NEW t \in Nat, NEW u \in Nat, t <= u, Dated(s, t)
    PROVE  Dated(s, u)
BY DEF Dated, Store, Entry, Never

LEMMA GrownTransitive ==
    ASSUME NEW r \in Store, NEW s \in Store, NEW t \in Store,
           Grown(r, s), Grown(s, t)
    PROVE  Grown(r, t)
BY DEF Grown, Store, Entry, Never

LEMMA EmptyDated == ASSUME NEW t \in Nat PROVE Dated(EmptyStore, t)
BY DEF Dated, EmptyStore, Absent, Never

\* Merging, marking and applying results let the state grow.
LEMMA MergeGrows ==
    ASSUME NEW s \in Store, NEW found, NEW t \in Nat, Dated(s, t)
    PROVE  Grown(s, MergeIntoState(s, found)) /\ Dated(MergeIntoState(s, found), t)
BY DEF Grown, Dated, MergeIntoState, Store, Entry, Absent, Never

LEMMA MarkGrows ==
    ASSUME NEW s \in Store, NEW C, NEW alive, NEW t \in Nat, Dated(s, t)
    PROVE  /\ Grown(s, MarkUnreachable(s, C, alive, t))
           /\ Dated(MarkUnreachable(s, C, alive, t), t)
BY DEF Grown, Dated, MarkUnreachable, Store, Entry, Never

LEMMA ApplyGrows ==
    ASSUME NEW s \in Store, NEW res, NEW t \in Nat, Dated(s, t)
    PROVE  Grown(s, ApplyResults(s, res, t)) /\ Dated(ApplyResults(s, res, t), t)
BY DEF Grown, Dated, ApplyResults, FailedState, Store, Entry, Never

LEMMA RegressNext ==
    ASSUME ~SlowDisk
    PROVE  TypeInv /\ RegressInv /\ [Next]_vars => RegressInv'
<1>. SUFFICES ASSUME TypeInv, RegressInv, [Next]_vars PROVE RegressInv'
  OBVIOUS
<1>t. /\ entries \in Store /\ stateFile \in Store
      /\ savers \in [Saver -> SaverState]
      /\ now \in Nat /\ clock \in Nat
  BY DEF TypeInv, TypeOK
<1>t2. entries' \in Store /\ clock' \in Nat /\ stateFile' \in Store
  BY TypeNext DEF TypeInv, TypeOK
<1>. USE DEF RegressInv
<1>1. ASSUME Crash \/ Exit PROVE RegressInv'
  <2>1. SnapshotInv'
    BY <1>1 DEF Crash, Exit, Vanish, Idle, SnapshotInv
  <2>2. Dated(EmptyStore, clock)
    BY <1>t, EmptyDated
  <2>3. AgeInv'
    BY <1>1, <1>t, <2>2 DEF Crash, Exit, Vanish, AgeInv, files, machine
  <2>. QED
    BY <2>1, <2>3
<1>2. ASSUME Start PROVE RegressInv'
  <2>1. SnapshotInv'
    BY <1>2 DEF Start, SnapshotInv, Leaving
  <2>2. Grown(stateFile, stateFile)
    BY <1>t DEF Grown, Store, Entry, Never
  <2>3. AgeInv'
    BY <1>2, <2>2 DEF Start, AgeInv, files, cycle
  <2>. QED
    BY <2>1, <2>3
<1>3. ASSUME Tick PROVE RegressInv'
  <2>1. Dated(entries, clock') /\ Dated(stateFile, clock') /\ now <= clock'
    BY <1>3, <1>t, <1>t2, DatedLater DEF Tick, AgeInv
  <2>2. SnapshotInv'
    BY <1>3 DEF Tick, process, SnapshotInv, Leaving
  <2>3. AgeInv'
    BY <1>3, <2>1 DEF Tick, process, files, AgeInv
  <2>. QED
    BY <2>2, <2>3
\* Steps of Run that leave the state alone.
<1>4. ASSUME Signal \/ Trigger \/ LoopTop \/ WakeByTrigger \/ WakeByTimer
                \/ WakeByCancel \/ Shutdown
      PROVE  RegressInv'
  <2>1. SnapshotInv'
    BY <1>4 DEF Signal, Trigger, LoopTop, WakeByTrigger, WakeByTimer,
                WakeByCancel, Shutdown, SnapshotInv, Leaving
  <2>2. AgeInv'
    BY <1>4 DEF Signal, Trigger, LoopTop, WakeByTrigger, WakeByTimer,
                WakeByCancel, Shutdown, files, machine, cycle, AgeInv
  <2>. QED
    BY <2>1, <2>2
<1>5. ASSUME LoadURLs \/ LoadURLsFails \/ FetchCancelled \/ Select
      PROVE  RegressInv'
  <2>1. \A k \in Saver : savers[k].pc = "idle"
    BY <1>5 DEF LoadURLs, LoadURLsFails, FetchCancelled, Select, SnapshotInv,
                Leaving
  <2>2. SnapshotInv'
    BY <1>5, <2>1 DEF LoadURLs, LoadURLsFails, FetchCancelled, Select,
                      SnapshotInv
  <2>3. /\ pc # "down" /\ pc' # "down"
        /\ UNCHANGED <<entries, stateFile, clock>>
    BY <1>5 DEF LoadURLs, LoadURLsFails, FetchCancelled, Select, LeaveCycle,
                EndOfCycle, files, machine
  <2>4. /\ now' <= clock
        /\ pc' \in {"ping", "xray"} => now' = clock
    BY <1>5, <1>t DEF LoadURLs, LoadURLsFails, FetchCancelled, Select,
                      LeaveCycle, EndOfCycle, AgeInv, cycle
  <2>5. AgeInv'
    BY <2>3, <2>4 DEF AgeInv
  <2>. QED
    BY <2>2, <2>5
<1>6. ASSUME FetchURL \/ Ping \/ Xray PROVE RegressInv'
  <2>1. \A k \in Saver : savers[k].pc = "idle"
    BY <1>6 DEF FetchURL, Ping, Xray, SnapshotInv, Leaving
  <2>2. SnapshotInv'
    BY <1>6, <2>1 DEF FetchURL, Ping, Xray, SnapshotInv
  <2>3. /\ UNCHANGED <<stateFile, clock, now>> /\ pc # "down"
        /\ pc' \in {"ping", "xray"} => pc = "ping"
    BY <1>6 DEF FetchURL, Ping, Xray, TestsApplied, files, machine, cycle
  <2>4. CASE FetchURL
    <3>1. PICK found : entries' = MergeIntoState(entries, found)
      BY <2>4 DEF FetchURL
    <3>2. Grown(entries, entries') /\ Dated(entries', clock)
      BY <3>1, <1>t, MergeGrows DEF AgeInv
    <3>3. Grown(stateFile, entries')
      BY <3>2, <2>3, <1>t, <1>t2, GrownTransitive DEF AgeInv
    <3>4. pc' = "fetch"
      BY <2>4 DEF FetchURL
    <3>5. AgeInv'
      BY <3>2, <3>3, <3>4, <2>3 DEF AgeInv
    <3>. QED
      BY <2>2, <3>5
  <2>5. CASE Ping \/ Xray
    <3>1. Grown(entries, entries') /\ Dated(entries', now)
      <4>1. Dated(entries, now)
        BY <2>5 DEF Ping, Xray, AgeInv
      <4>2. CASE Ping
        <5>1. PICK alive : entries' = MarkUnreachable(entries, cand, alive, now)
          BY <4>2 DEF Ping
        <5>. QED
          BY <5>1, <4>1, <1>t, MarkGrows
      <4>3. CASE Xray
        <5>1. PICK res : entries' = ApplyResults(entries, res, now)
          BY <4>3 DEF Xray
        <5>. QED
          BY <5>1, <4>1, <1>t, ApplyGrows
      <4>. QED
        BY <2>5, <4>2, <4>3
    <3>2. Grown(stateFile, entries')
      BY <3>1, <2>3, <1>t, <1>t2, GrownTransitive DEF AgeInv
    <3>3. Dated(entries', clock)
      BY <3>1, <1>t, <1>t2, DatedLater DEF AgeInv
    <3>4. AgeInv'
      BY <3>1, <3>2, <3>3, <2>3 DEF AgeInv
    <3>. QED
      BY <2>2, <3>4
  <2>. QED
    BY <1>6, <2>4, <2>5
\* writeOutputFile returns to where it was called from.
<1>7. ASSUME OpenOutput \/ WriteOutput \/ WriteSidecar \/ PublishFails
      PROVE  RegressInv'
  <2>1. /\ UNCHANGED <<entries, stateFile, clock, savers, cancelled>>
        /\ pc \in {"publish", "fill", "sidecar"}
    BY <1>7 DEF OpenOutput, WriteOutput, WriteSidecar, PublishFails, machine, files
  <2>2. /\ pc' \notin {"down", "ping", "xray"}
        /\ now' <= clock
        /\ after = "saveFinal" =>
              /\ after' = "saveFinal"
              /\ pc' \in {"fill", "sidecar", "saveFinal"}
    BY <1>7, <1>t DEF OpenOutput, WriteOutput, WriteSidecar, PublishFails,
          Return, LeaveCycle, EndOfCycle, cycle, AgeInv, TypeInv, TypeOK, AfterOK
  <2>3. SnapshotInv'
    BY <2>1, <2>2 DEF SnapshotInv, Leaving
  <2>4. AgeInv'
    BY <2>1, <2>2 DEF AgeInv
  <2>. QED
    BY <2>3, <2>4
<1>8. ASSUME BeginSave PROVE RegressInv'
  <2>1. PICK k \in Saver :
          /\ savers' = [savers EXCEPT ![k] =
                           [pc |-> "encode", snap |-> EmptyStore]]
          /\ waiting' = k
    BY <1>8 DEF BeginSave
  <2>2. /\ pc \in {"saveSync", "saveAsync", "saveFinal"} /\ pc' = "wait"
        /\ UNCHANGED <<entries, stateFile, clock, now, cancelled, after>>
    BY <1>8 DEF BeginSave, files, machine, cycle
  <2>3. SnapshotInv'
    BY <2>1, <2>2, <1>t DEF SnapshotInv, Leaving
  <2>4. AgeInv'
    BY <2>2 DEF AgeInv
  <2>. QED
    BY <2>3, <2>4
<1>9. ASSUME SaveReturned \/ SaveTimedOut PROVE RegressInv'
  <2>1. /\ UNCHANGED <<entries, stateFile, clock, savers, cancelled>>
        /\ pc = "wait" /\ pc' \in {"sleep", "exit"}
        /\ now' <= clock
    BY <1>9, <1>t DEF SaveReturned, SaveTimedOut, SaveOver, LeaveCycle,
                      EndOfCycle, cycle, AgeInv, files, machine
  <2>2. savers[waiting].pc = "idle" \/ cancelled
    BY <1>9 DEF SaveReturned, SaveTimedOut, GivesUp
  <2>3. SnapshotInv'
    BY <2>1, <2>2 DEF SnapshotInv, Leaving
  <2>4. AgeInv'
    BY <2>1 DEF AgeInv
  <2>. QED
    BY <2>3, <2>4
<1>10. ASSUME NEW k \in Saver, SaverStep(k) \/ SaverReread(k)
       PROVE  RegressInv'
  <2>1. /\ savers[k].pc # "idle"
        /\ UNCHANGED <<pc, after, entries, clock, now, cancelled, waiting>>
        /\ \A j \in Saver \ {k} : savers'[j] = savers[j]
    BY <1>10, <1>t DEF SaverStep, SaverEncode, SaverReread, SaverWriteTmp,
                SaverRename, SaverFails, machine, cycle
  <2>2. \/ savers'[k].pc = "idle"
        \/ savers'[k].pc \in {"write", "rename"} /\ savers'[k].snap = entries
    <3>1. CASE SaverEncode(k)
      BY <3>1, <1>t DEF SaverEncode
    <3>2. CASE SaverReread(k)
      <4>1. savers[k].snap = entries
        BY <3>2 DEF SaverReread, SnapshotInv
      <4>. QED
        BY <3>2, <4>1 DEF SaverReread
    <3>3. CASE SaverWriteTmp(k)
      BY <3>3, <1>t DEF SaverWriteTmp, SnapshotInv
    <3>4. CASE SaverRename(k) \/ SaverFails(k)
      BY <3>4, <1>t DEF SaverRename, SaverFails, Idle
    <3>. QED
      BY <1>10, <3>1, <3>2, <3>3, <3>4 DEF SaverStep
  <2>3. SnapshotInv'
    BY <2>1, <2>2 DEF SnapshotInv, Leaving
  <2>4. stateFile' = stateFile \/ stateFile' = entries
    BY <1>10 DEF SaverStep, SaverEncode, SaverReread, SaverWriteTmp,
                SaverRename, SaverFails, files, SnapshotInv
  <2>5. Grown(entries, entries)
    BY <1>t DEF Grown, Store, Entry, Never
  <2>6. AgeInv'
    BY <2>1, <2>4, <2>5 DEF AgeInv
  <2>. QED
    BY <2>3, <2>6
<1>11. ASSUME UNCHANGED vars PROVE RegressInv'
  BY <1>11 DEF vars, process, files, machine, SnapshotInv, Leaving, AgeInv
<1>. QED
  BY <1>1, <1>2, <1>3, <1>4, <1>5, <1>6, <1>7, <1>8, <1>9, <1>10, <1>11
     DEF Next, RunStep

LEMMA RegressInit == Init => RegressInv
<1>. SUFFICES ASSUME Init PROVE RegressInv
  OBVIOUS
<1>1. Dated(EmptyStore, 0)
  BY EmptyDated
<1>. QED
  BY <1>1 DEF Init, RegressInv, SnapshotInv, AgeInv, Idle

\* Across crashes, restarts, signals and saves that a signal abandons, no known
\* link is lost from the state file and no test is unlearned, for any number of
\* links, lives and savers, if no save takes longer than its three seconds.
THEOREM NoRegressionHolds == ASSUME ~SlowDisk PROVE Spec => NoRegression
<1>. DEFINE Grows == Grown(stateFile, stateFile')
<1>1. TypeInv /\ RegressInv /\ [Next]_vars => [Grows]_vars
  <2>. SUFFICES ASSUME TypeInv, RegressInv, Next PROVE Grows \/ UNCHANGED vars
    BY DEF vars
  <2>1. stateFile \in Store /\ entries \in Store
    BY DEF TypeInv, TypeOK
  <2>2. Grown(stateFile, stateFile)
    BY <2>1 DEF Grown, Store, Entry, Never
  <2>3. ASSUME NEW k \in Saver, SaverRename(k) PROVE Grows
    <3>1. stateFile' = entries /\ pc # "down"
      BY <2>3 DEF SaverRename, RegressInv, SnapshotInv, Leaving
    <3>. QED
      BY <3>1 DEF RegressInv, AgeInv
  <2>4. (\E k \in Saver : SaverRename(k)) \/ stateFile' = stateFile
    BY DEF Next, RunStep, Start, Crash, Exit, Vanish, Signal, Trigger, Tick,
       LoopTop, WakeByTrigger, WakeByTimer, WakeByCancel, Shutdown, LoadURLs,
       LoadURLsFails, FetchURL, FetchCancelled, Select, Ping, Xray, OpenOutput,
       WriteOutput, WriteSidecar, PublishFails, BeginSave, SaveReturned,
       SaveTimedOut, SaverStep, SaverEncode, SaverReread, SaverWriteTmp,
       SaverFails, files
  <2>. QED
    BY <2>2, <2>3, <2>4
<1>2. TypeInv /\ RegressInv /\ [Next]_vars => (TypeInv /\ RegressInv)'
  BY TypeNext, RegressNext
<1>3. [Grows]_vars => 
        [\A h \in Link :
           /\ stateFile[h].state # "absent" => stateFile'[h].state # "absent"
           /\ stateFile[h].lastTested <= stateFile'[h].lastTested]_vars
  BY DEF Grown
<1>. QED
  BY <1>1, <1>2, <1>3, TypeInit, RegressInit, PTL DEF Spec, NoRegression
=============================================================================
