---------------------------- MODULE DaemonCycle ----------------------------
(***************************************************************************)
(* The daemon process: main(), Daemon.Run, runCycle, writeOutputFile,      *)
(* SaveState and shutdown, with everything around them that may move       *)
(* between two of their steps: the HTTP handler that triggers a cycle, a   *)
(* SIGTERM that cancels the context, save goroutines that were abandoned   *)
(* after their timeout, the clock, failing system calls, and the death of  *)
(* the process at any moment followed by a restart from state.json.        *)
(*                                                                         *)
(* Run executes on one goroutine, so its control is the variable pc and    *)
(* each action is the code between two points where somebody else can      *)
(* act.  TCPPing and XrayTest are single actions here (module XrayTest     *)
(* opens the second one up): they return when the whole pass is over.      *)
(***************************************************************************)
EXTENDS ConfigStore

CONSTANTS
    Mode,         \* may the process be started with -once: one cycle, then exit
    SlowDisk,     \* a save may take longer than the 3 seconds it is given
    PortsBusy,    \* PortManager.Allocate may find no free port for a test
    PingTime,     \* TCP handshake latencies
    TestLatency,  \* latencies a tunnel test may report
    Saver,        \* bound: save goroutines alive at the same time
    MaxUrls,      \* bound: subscriptions listed in the urls file
    MaxClock,     \* bound: the clock
    MaxStarts,    \* bound: how often the process is started
    MaxFaults     \* bound: failed system calls

ASSUME CycleAssumption ==
    /\ Mode \subseteq BOOLEAN /\ SlowDisk \in BOOLEAN /\ PortsBusy \in BOOLEAN
    /\ PingTime \subseteq Nat /\ TestLatency \subseteq Nat
    /\ Saver \subseteq Nat
    /\ MaxUrls \in Nat /\ MaxClock \in Nat
    /\ MaxStarts \in Nat /\ MaxFaults \in Nat

VARIABLES
    \* the process
    pc,          \* control of the goroutine that runs Daemon.Run
    after,       \* where it continues once writeOutputFile has returned
    entries,     \* d.State.Configs
    parsed,      \* d.configs: the links this process has parsed itself
    trigger,     \* d.trigger, a channel of capacity 1
    cancelled,   \* ctx.Err() # nil
    urlsLeft,    \* subscriptions runCycle still has to fetch
    now,         \* runCycle's now, read when the candidates are selected
    cand,        \* runCycle's candidates
    survivors,   \* runCycle's survivors, after limitSurvivors
    savers,      \* the goroutines executing SaveState
    waiting,     \* the one whose result Run is waiting for
    \* the machine
    outFile,     \* working.txt
    sidecar,     \* working.csv
    stateFile,   \* what LoadState would return for state.json
    clock, starts, faults,
    once,        \* -once was given at the last start
    \* history, read by the properties only
    passed,      \* links that have ever passed a tunnel test
    verdict,     \* outcome of the last test of a link by this process
    pubFailed,   \* the last writeOutputFile reported an error
    lostSave     \* a save of this process failed or was given up on

process == <<pc, after, entries, parsed, trigger, cancelled, urlsLeft, now,
             cand, survivors, savers, waiting>>
cycle   == <<urlsLeft, now, cand, survivors>>
files   == <<outFile, sidecar, stateFile>>
machine == <<clock, starts, faults, once>>
history == <<passed, verdict, pubFailed, lostSave>>
vars    == <<process, files, machine, history>>

NoSaver == -1
Idle    == [pc |-> "idle", snap |-> EmptyStore]

-----------------------------------------------------------------------------
(***************************************************************************)
(* The process starts, dies, and is signalled.                             *)
(***************************************************************************)
\* What is left of a process that is not running.
Vanish ==
    /\ pc' = "down" /\ after' = "none"
    /\ entries' = EmptyStore /\ parsed' = {}
    /\ trigger' = FALSE /\ cancelled' = FALSE
    /\ urlsLeft' = 0 /\ now' = 0 /\ cand' = {} /\ survivors' = {}
    /\ savers' = [k \in Saver |-> Idle] /\ waiting' = NoSaver
    /\ verdict' = [h \in Link |-> "none"]
    /\ pubFailed' = FALSE /\ lostSave' = FALSE

Init ==
    /\ pc = "down" /\ after = "none"
    /\ entries = EmptyStore /\ parsed = {}
    /\ trigger = FALSE /\ cancelled = FALSE
    /\ urlsLeft = 0 /\ now = 0 /\ cand = {} /\ survivors = {}
    /\ savers = [k \in Saver |-> Idle] /\ waiting = NoSaver
    /\ outFile = [status |-> "missing", lines |-> Published(EmptyStore)]
    /\ sidecar = Published(EmptyStore)
    /\ stateFile = EmptyStore
    /\ clock = 0 /\ starts = 0 /\ faults = 0 /\ once = FALSE
    /\ passed = {} /\ verdict = [h \in Link |-> "none"]
    /\ pubFailed = FALSE /\ lostSave = FALSE

\* NewDaemon: a missing or undecodable state.json is the empty state.  Run
\* first publishes the state it has loaded; -once goes straight to the cycle.
Start ==
    /\ pc = "down" /\ starts < MaxStarts
    /\ starts' = starts + 1
    /\ once' \in Mode
    /\ entries' = stateFile
    /\ IF once' THEN pc' = "load" /\ after' = after
                ELSE pc' = "publish" /\ after' = "loop"
    /\ UNCHANGED <<parsed, trigger, cancelled, cycle, savers, waiting, files,
                   clock, faults, history>>

\* kill -9, a power cut, or the Go runtime aborting on a concurrent map
\* access: nothing of the process survives, what it wrote does.
Crash ==
    /\ pc # "down"
    /\ Vanish
    /\ UNCHANGED <<files, machine, passed>>

\* main returns; goroutines still saving die with the process.
Exit ==
    /\ pc = "exit"
    /\ Vanish
    /\ UNCHANGED <<files, machine, passed>>

\* SignalContext cancels the context on the first SIGINT or SIGTERM.
Signal ==
    /\ pc \notin {"down", "exit"} /\ ~cancelled
    /\ cancelled' = TRUE
    /\ UNCHANGED <<pc, after, entries, parsed, trigger, cycle, savers, waiting,
                   files, machine, history>>

\* POST /api/cycle/trigger: a send that gives up when the channel is full, so
\* several requests become one cycle.  Run serves it until it stops HTTP.
Trigger ==
    /\ ~once /\ pc \notin {"down", "exit"} /\ after # "saveFinal"
    /\ ~trigger
    /\ trigger' = TRUE
    /\ UNCHANGED <<pc, after, entries, parsed, cancelled, cycle, savers,
                   waiting, files, machine, history>>

Tick ==
    /\ clock < MaxClock
    /\ clock' = clock + 1
    /\ UNCHANGED <<process, files, starts, faults, once, history>>

Fault == faults < MaxFaults /\ faults' = faults + 1

-----------------------------------------------------------------------------
(***************************************************************************)
(* Run: cycles and the sleep between them.                                 *)
(***************************************************************************)
\* Where runCycle returns to.
EndOfCycle == IF once THEN "exit" ELSE "sleep"

\* runCycle is over: its locals are gone.
LeaveCycle ==
    /\ pc' = EndOfCycle
    /\ urlsLeft' = 0 /\ now' = 0 /\ cand' = {} /\ survivors' = {}

LoopTop ==
    /\ pc = "loop"
    /\ pc' = IF cancelled THEN "shutdown" ELSE "load"
    /\ UNCHANGED <<after, entries, parsed, trigger, cancelled, cycle, savers,
                   waiting, files, machine, history>>

\* Mutant: the trigger is received, but the sleep goes on.
SwallowsTrigger ==
    /\ pc = "sleep" /\ trigger
    /\ trigger' = FALSE
    /\ UNCHANGED <<pc, after, entries, parsed, cancelled, cycle, savers,
                   waiting, files, machine, history>>

WakeByTrigger ==
    /\ pc = "sleep" /\ trigger
    /\ trigger' = FALSE /\ pc' = "loop"
    /\ UNCHANGED <<after, entries, parsed, cancelled, cycle, savers, waiting,
                   files, machine, history>>

WakeByTimer ==
    /\ pc = "sleep"
    /\ pc' = "loop"
    /\ UNCHANGED <<after, entries, parsed, trigger, cancelled, cycle, savers,
                   waiting, files, machine, history>>

\* Mutant: the context is only looked at when a trigger ends the sleep.
SleepsThroughSignal ==
    /\ pc = "sleep" /\ cancelled /\ trigger
    /\ pc' = "shutdown"
    /\ UNCHANGED <<after, entries, parsed, trigger, cancelled, cycle, savers,
                   waiting, files, machine, history>>

WakeByCancel ==
    /\ pc = "sleep" /\ cancelled
    /\ pc' = "shutdown"
    /\ UNCHANGED <<after, entries, parsed, trigger, cancelled, cycle, savers,
                   waiting, files, machine, history>>

\* shutdown stops the HTTP servers, publishes, and saves one last time.
Shutdown ==
    /\ pc = "shutdown"
    /\ pc' = "publish" /\ after' = "saveFinal"
    /\ UNCHANGED <<entries, parsed, trigger, cancelled, cycle, savers, waiting,
                   files, machine, history>>

-----------------------------------------------------------------------------
(***************************************************************************)
(* runCycle: subscriptions.                                                *)
(***************************************************************************)
LoadURLs ==
    /\ pc = "load"
    /\ \E n \in 0..MaxUrls : urlsLeft' = n
    /\ pc' = "fetch"
    /\ UNCHANGED <<after, entries, parsed, trigger, cancelled, now, cand,
                   survivors, savers, waiting, files, machine, history>>

\* The urls file cannot be read: the cycle returns before touching anything.
LoadURLsFails ==
    /\ pc = "load" /\ Fault
    /\ LeaveCycle
    /\ UNCHANGED <<after, entries, parsed, trigger, cancelled, savers, waiting,
                   files, clock, starts, once, history>>

\* FetchAndParse of one subscription, then mergeWithParsed.  A subscription
\* that cannot be fetched or parsed yields no link; otherwise it yields
\* whatever the provider serves today.
FetchURL ==
    /\ pc = "fetch" /\ urlsLeft > 0 /\ ~cancelled
    /\ \E found \in SUBSET Link :
          /\ parsed' = parsed \cup found
          /\ entries' = MergeIntoState(entries, found)
    /\ urlsLeft' = urlsLeft - 1
    /\ UNCHANGED <<pc, after, trigger, cancelled, now, cand, survivors, savers,
                   waiting, files, machine, history>>

FetchCancelled ==
    /\ pc = "fetch" /\ urlsLeft > 0 /\ cancelled
    /\ LeaveCycle
    /\ UNCHANGED <<after, entries, parsed, trigger, cancelled, savers, waiting,
                   files, machine, history>>

-----------------------------------------------------------------------------
(***************************************************************************)
(* runCycle: selection, TCP ping, tunnel test.                             *)
(***************************************************************************)
\* No candidate: publish and save.  Candidates, but none this process has
\* parsed: publish only.  Otherwise on to the ping pass, unless cancelled.
Select ==
    /\ pc = "fetch" /\ urlsLeft = 0
    /\ LET C == SelectCandidates(entries, clock)
       IN  \/ /\ C = {}
              /\ pc' = "publish" /\ after' = "saveSync"
              /\ UNCHANGED cycle
           \/ /\ C # {} /\ C \cap parsed = {}
              /\ pc' = "publish" /\ after' = "endCycle"
              /\ UNCHANGED cycle
           \/ /\ C \cap parsed # {} /\ cancelled
              /\ LeaveCycle
              /\ UNCHANGED after
           \/ /\ C \cap parsed # {} /\ ~cancelled
              /\ pc' = "ping" /\ now' = clock /\ cand' = C
              /\ UNCHANGED <<after, urlsLeft, survivors>>
    /\ UNCHANGED <<entries, parsed, trigger, cancelled, savers, waiting, files,
                   machine, history>>

\* What the properties remember of a ping pass and of a round of tests.
RecordPings(pinged, alive) ==
    verdict' = [h \in Link |-> IF h \in pinged \ alive THEN "fail"
                                                        ELSE verdict[h]]

\* TCPPing and the loop over its results.  Every parsed candidate is pinged,
\* unless the context was cancelled meanwhile: then any of them may be skipped.
Ping ==
    /\ pc = "ping"
    /\ \E pinged \in SUBSET (cand \cap parsed) :
       \E alive \in SUBSET pinged :
       \E time \in [alive -> PingTime] :
          /\ cancelled \/ pinged = cand \cap parsed
          /\ entries' = MarkUnreachable(entries, cand, alive, now)
          /\ IF cancelled
               THEN pc' = "publish" /\ after' = "saveSync"
                    /\ UNCHANGED survivors
               ELSE pc' = "xray" /\ after' = after
                    /\ survivors' = LimitSurvivors(alive, time)
          /\ RecordPings(pinged, alive)
    /\ UNCHANGED <<parsed, trigger, cancelled, urlsLeft, now, cand, savers,
                   waiting, files, machine, passed, pubFailed, lostSave>>

RecordTests(res) ==
    LET ok == {h \in DOMAIN res :
                 /\ res[h].success
                 /\ MaxLatencyMs > 0 => res[h].latency <= MaxLatencyMs}
    IN  /\ passed' = passed \cup ok
        /\ verdict' = [h \in Link |-> IF h \in ok THEN "pass"
                                      ELSE IF h \in DOMAIN res THEN "fail"
                                      ELSE verdict[h]]

\* Mutants: the list is not written once the tests are over; the save is
\* forgotten.
SkipsPublishing == pc' = "saveAsync" /\ after' = "saveAsync"
SkipsSaving == pc' = "publish" /\ after' = "endCycle"

TestsApplied == pc' = "publish" /\ after' = "saveAsync"

\* XrayTest and ApplyResults.  A survivor has no result only when it was
\* cancelled before it got a slot or when no port was left for it.
Xray ==
    /\ pc = "xray"
    /\ \E tested \in SUBSET survivors :
       \E res \in [tested -> [success: BOOLEAN, latency: TestLatency]] :
          /\ cancelled \/ PortsBusy \/ tested = survivors
          /\ entries' = ApplyResults(entries, res, now)
          /\ RecordTests(res)
    /\ TestsApplied
    /\ UNCHANGED <<parsed, trigger, cancelled, cycle, savers, waiting, files,
                   machine, pubFailed, lostSave>>

-----------------------------------------------------------------------------
(***************************************************************************)
(* writeOutputFile: os.WriteFile truncates, then writes; then the sidecar. *)
(***************************************************************************)
\* Control once writeOutputFile has returned.
Return ==
    IF after = "endCycle"
      THEN LeaveCycle /\ after' = "none"
      ELSE /\ pc' = after
           /\ after' = IF after = "loop" THEN "none" ELSE after
           /\ UNCHANGED cycle

OpenOutput ==
    /\ pc = "publish"
    /\ outFile' = [status |-> "torn", lines |-> outFile.lines]
    /\ pc' = "fill"
    /\ UNCHANGED <<after, entries, parsed, trigger, cancelled, cycle, savers,
                   waiting, sidecar, stateFile, machine, history>>

WriteOutput ==
    /\ pc = "fill"
    /\ outFile' = [status |-> "whole", lines |-> Published(entries)]
    /\ pc' = "sidecar"
    /\ UNCHANGED <<after, entries, parsed, trigger, cancelled, cycle, savers,
                   waiting, sidecar, stateFile, machine, history>>

WriteSidecar ==
    /\ pc = "sidecar"
    /\ sidecar' = Published(entries)
    /\ pubFailed' = FALSE
    /\ Return
    /\ UNCHANGED <<entries, parsed, trigger, cancelled, savers, waiting,
                   outFile, stateFile, machine, passed, verdict, lostSave>>

\* The open, the write or the sidecar fails: logged, the rest is skipped.
PublishFails ==
    /\ pc \in {"publish", "fill", "sidecar"} /\ Fault
    /\ pubFailed' = TRUE
    /\ Return
    /\ UNCHANGED <<entries, parsed, trigger, cancelled, savers, waiting, files,
                   clock, starts, once, passed, verdict, lostSave>>

-----------------------------------------------------------------------------
(***************************************************************************)
(* SaveState, called inline ("saveSync") or on a goroutine that is given   *)
(* three seconds ("saveAsync" in a cycle, "saveFinal" in shutdown).        *)
(***************************************************************************)
\* Goroutines are interchangeable: the first idle one is taken.
BeginSave ==
    /\ pc \in {"saveSync", "saveAsync", "saveFinal"}
    /\ \E k \in Saver :
          /\ savers[k].pc = "idle"
          /\ \A j \in Saver : j < k => savers[j].pc # "idle"
          /\ savers' = [savers EXCEPT ![k] =
                          [pc |-> "encode", snap |-> EmptyStore]]
          /\ waiting' = k
    /\ pc' = "wait"
    /\ UNCHANGED <<after, entries, parsed, trigger, cancelled, cycle, files,
                   machine, history>>

\* Run goes on, with or without the result of the save.
SaveOver ==
    /\ waiting' = NoSaver /\ after' = "none"
    /\ IF after = "saveFinal" THEN pc' = "exit" /\ UNCHANGED cycle
                              ELSE LeaveCycle

SaveReturned ==
    /\ pc = "wait" /\ savers[waiting].pc = "idle"
    /\ SaveOver
    /\ UNCHANGED <<entries, parsed, trigger, cancelled, savers, files, machine,
                   history>>

\* The cycle's timeout is derived from ctx, so a signal ends it at once; the
\* one of shutdown is not.  The goroutine is not stopped.
GivesUp ==
    \/ after = "saveAsync" /\ (cancelled \/ SlowDisk)
    \/ after = "saveFinal" /\ SlowDisk

SaveTimedOut ==
    /\ pc = "wait" /\ savers[waiting].pc # "idle" /\ GivesUp
    /\ SaveOver
    /\ lostSave' = TRUE
    /\ UNCHANGED <<entries, parsed, trigger, cancelled, savers, files, machine,
                   passed, verdict, pubFailed>>

\* json.MarshalIndent walks the state without a lock.
SaverEncode(k) ==
    /\ savers[k].pc = "encode"
    /\ savers' = [savers EXCEPT ![k] = [pc |-> "write", snap |-> entries]]
    /\ UNCHANGED <<pc, after, entries, parsed, trigger, cancelled, cycle,
                   waiting, files, machine, history>>

\* The walk is not atomic: of an entry that changes while it is under way
\* some fields are read before and some after, and a link added to the map
\* may or may not be met.  Reading again models the late reads.
Torn(old, new, late) ==
    [state      |-> IF "state" \in late THEN new.state ELSE old.state,
     lastTested |-> IF "lastTested" \in late THEN new.lastTested
                                             ELSE old.lastTested,
     latency    |-> IF "latency" \in late THEN new.latency ELSE old.latency]

SaverReread(k) ==
    /\ savers[k].pc = "write"
    /\ \E h \in Link, late \in SUBSET {"state", "lastTested", "latency"} :
          LET old  == savers[k].snap
              seen == IF old[h].state = "absent"
                        THEN entries[h] ELSE Torn(old[h], entries[h], late)
          IN  /\ old[h] # entries[h] /\ late # {}
              /\ savers' = [savers EXCEPT ![k] =
                              [pc |-> "write",
                               snap |-> [old EXCEPT ![h] = seen]]]
    /\ UNCHANGED <<pc, after, entries, parsed, trigger, cancelled, cycle,
                   waiting, files, machine, history>>

\* The encoding is written to a temporary file of its own name.
SaverWriteTmp(k) ==
    /\ savers[k].pc = "write"
    /\ savers' = [savers EXCEPT ![k] =
                    [pc |-> "rename", snap |-> savers[k].snap]]
    /\ UNCHANGED <<pc, after, entries, parsed, trigger, cancelled, cycle,
                   waiting, files, machine, history>>

SaverRename(k) ==
    /\ savers[k].pc = "rename"
    /\ stateFile' = savers[k].snap
    /\ savers' = [savers EXCEPT ![k] = Idle]
    /\ UNCHANGED <<pc, after, entries, parsed, trigger, cancelled, cycle,
                   waiting, outFile, sidecar, machine, history>>

\* The write or the rename fails: SaveState returns an error nobody reads.
SaverFails(k) ==
    /\ savers[k].pc \in {"write", "rename"} /\ Fault
    /\ savers' = [savers EXCEPT ![k] = Idle]
    /\ lostSave' = TRUE
    /\ UNCHANGED <<pc, after, entries, parsed, trigger, cancelled, cycle,
                   waiting, files, clock, starts, once, passed, verdict,
                   pubFailed>>

-----------------------------------------------------------------------------
\* What the goroutine of Run does next, the sleep timer excepted.
RunStep ==
    \/ LoopTop \/ WakeByTrigger \/ WakeByCancel \/ Shutdown \/ Exit
    \/ LoadURLs \/ LoadURLsFails \/ FetchURL \/ FetchCancelled
    \/ Select \/ Ping \/ Xray
    \/ OpenOutput \/ WriteOutput \/ WriteSidecar \/ PublishFails
    \/ BeginSave \/ SaveReturned \/ SaveTimedOut

SaverStep(k) ==
    SaverEncode(k) \/ SaverWriteTmp(k) \/ SaverRename(k) \/ SaverFails(k)

Next ==
    \/ Start \/ Crash \/ Signal \/ Trigger \/ Tick
    \/ RunStep \/ WakeByTimer
    \/ \E k \in Saver : SaverStep(k) \/ SaverReread(k)

Spec == Init /\ [][Next]_vars

\* The goroutines of the process are scheduled, and the calls they make
\* return: every one of them has a timeout or is a local file operation.
\* Nothing is assumed of signals, triggers, the timer, crashes or restarts.
FairSpec ==
    /\ Spec
    /\ WF_vars(RunStep)
    /\ \A k \in Saver : WF_vars(SaverStep(k))

-----------------------------------------------------------------------------
Control == {"down", "exit", "publish", "fill", "sidecar", "loop", "sleep",
            "shutdown", "load", "fetch", "ping", "xray", "saveSync",
            "saveAsync", "saveFinal", "wait"}

SaverState == [pc: {"idle", "encode", "write", "rename"}, snap: Store]

TypeOK ==
    /\ pc \in Control
    /\ after \in {"none", "loop", "endCycle", "saveSync", "saveAsync",
                  "saveFinal"}
    /\ entries \in Store /\ parsed \subseteq Link
    /\ trigger \in BOOLEAN /\ cancelled \in BOOLEAN
    /\ urlsLeft \in Nat /\ now \in Nat
    /\ cand \subseteq Link /\ survivors \subseteq Link
    /\ savers \in [Saver -> SaverState]
    /\ waiting \in Saver \cup {NoSaver}
    /\ outFile \in [status: {"missing", "torn", "whole"}, lines: Lines]
    /\ sidecar \in Lines
    /\ stateFile \in Store
    /\ clock \in Nat /\ starts \in Nat /\ faults \in Nat
    /\ once \in BOOLEAN
    /\ passed \subseteq Link
    /\ verdict \in [Link -> {"none", "pass", "fail"}]
    /\ pubFailed \in BOOLEAN /\ lostSave \in BOOLEAN

\* Whatever crashed, was cancelled, timed out or raced before: a link is only
\* ever served, held as working in memory, or persisted as working, if at some
\* time a tunnel test of it succeeded within the latency ceiling.
ServedPassed ==
    /\ Working(entries) \subseteq passed
    /\ Working(stateFile) \subseteq passed
    /\ \A k \in Saver : Working(savers[k].snap) \subseteq passed
    /\ Listed(outFile.lines) \subseteq passed
    /\ Listed(sidecar) \subseteq passed

\* A link that this process has tested or pinged is working only if the latest
\* of these attempts succeeded: no later failure is overwritten or forgotten.
WorkingIsLatestVerdict ==
    \A h \in Working(entries) : verdict[h] # "fail"

\* Between cycles, and when a daemon has shut down, working.txt and its
\* sidecar say exactly what the state says, although most ways out of a cycle
\* do not write them, unless the last attempt to write them failed.
PublishedIsCurrent ==
    ~once /\ pc \in {"sleep", "exit"} /\ ~pubFailed =>
        /\ outFile = [status |-> "whole", lines |-> Published(entries)]
        /\ sidecar = Published(entries)

\* Between cycles, and when the process ends in an orderly way, a restart would
\* load exactly the state that memory holds, although not every way out of a
\* cycle saves it, unless a save of this process failed or was abandoned.
SavedIsCurrent ==
    (\/ pc = "sleep" /\ ~cancelled
     \/ pc = "exit" /\ (once => ~cancelled)) /\ ~lostSave
    => stateFile = entries

\* The persisted state never goes back: across crashes, restarts and
\* concurrent saves no known link is lost and no test is unlearned.  This
\* needs saves to finish within their three seconds (SlowDisk = FALSE): a save
\* that was given up on may replace the result of a later one.
NoRegression ==
    [][\A h \in Link :
          /\ stateFile[h].state # "absent" => stateFile'[h].state # "absent"
          /\ stateFile[h].lastTested <= stateFile'[h].lastTested]_vars

\* A link turns unreachable only because a TCP ping of it failed, as the
\* README says of the ping pass.
UnreachableWasPinged ==
    [][\A h \in Link :
          pc = "ping" /\ entries'[h].state = "unreachable"
                      /\ entries[h].state # "unreachable"
          => verdict'[h] = "fail"]_vars

\* A trigger is not lost in whatever the daemon is doing: a cycle that loads
\* the urls anew follows, even if the sleep timer never fires.
TriggerServed == trigger ~> (pc = "load" \/ cancelled \/ pc = "down")

\* A signal ends the process wherever it arrives.
SignalStops == cancelled ~> (pc = "down")

\* "Loops forever, re-tests configs periodically": as long as the process is
\* not told to stop and the timer of its sleep fires, every link it has parsed
\* comes up for a ping again and again (KeepSuccessful with an interval that is
\* always over).
EveryLinkRetested ==
    WF_vars(WakeByTimer) =>
       \A h \in Link :
          h \in parsed ~>
             ((pc = "ping" /\ h \in cand) \/ cancelled \/ pc = "down")
=============================================================================
