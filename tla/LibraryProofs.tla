---------------------------- MODULE LibraryProofs ----------------------------
(***************************************************************************)
(* Proofs about the components of the library, which share nothing: the    *)
(* worker pool for any number of tasks and workers, the settings for       *)
(* anything the environment may say, the pool of xray processes for any    *)
(* number of clients, ports and starts, the runner for all batches,        *)
(* preferences, retries and widths of a duration, and the subscriptions    *)
(* for any number of URLs and lines.                                       *)
(***************************************************************************)
EXTENDS WorkerPool, DaemonConfig, XrayPool, ResilientRunner, Subscription,
        RecursionProofs, FiniteSetTheorems

-----------------------------------------------------------------------------
(***************************************************************************)
(* WorkerPool.                                                             *)
(***************************************************************************)
Counted == {t \in Task : stage[t] \in {"running", "leaving", "freed"}}

Stage == {"new", "holding", "refused", "running", "leaving", "freed", "done"}

Shape ==
    /\ stage \in [Task -> Stage] /\ covered \subseteq Task
    /\ waiter \in {"away", "waiting", "back"}

\* The WaitGroup counts the tasks between wg.Add and wg.Done.
Counts == wg = Cardinality(Counted)

\* What Wait is to cover has been submitted, and is over when Wait is.
Covers ==
    /\ \A t \in covered : stage[t] \in {"running", "leaving", "freed", "done"}
    /\ waiter = "back" => \A t \in covered : stage[t] = "done"

FirstOfFailed ==
    /\ firstErr \subseteq failed
    /\ failed # {} => firstErr # {}

WorkerInv == Shape /\ Counts /\ Covers /\ FirstOfFailed

LEMMA WorkerInit == ASSUME WorkerPoolAssumption PROVE WorkersInit => WorkerInv
<1> SUFFICES ASSUME WorkersInit PROVE WorkerInv
  OBVIOUS
<1>1. Counted = {}  BY DEF WorkersInit, Counted
<1>2. Counts  BY <1>1, FS_EmptySet DEF WorkersInit, Counts
<1>3. QED  BY <1>2 DEF WorkersInit, WorkerInv, Shape, Stage, Covers, FirstOfFailed

LEMMA CountedIsFinite ==
    ASSUME WorkerPoolAssumption PROVE IsFiniteSet(Counted)
<1>1. Counted \subseteq Task  BY DEF Counted
<1>2. QED  BY <1>1, FS_Subset DEF WorkerPoolAssumption

\* A step of one task that does not pass wg.Add or wg.Done.
LEMMA SameCount ==
    ASSUME Shape, Counts, NEW t \in Task, NEW from \in Stage, NEW to \in Stage,
           Goes(t, from, to), wg' = wg,
           from \in {"running", "leaving", "freed"}
             <=> to \in {"running", "leaving", "freed"}
    PROVE  Counts'
<1>1. Counted' = Counted  BY DEF Goes, Counted, Shape
<1>2. QED  BY <1>1 DEF Counts

LEMMA SubmittedCounts ==
    ASSUME WorkerPoolAssumption, Shape, Counts, NEW t \in Task, Submitted(t)
    PROVE  Counts'
<1>1. t \notin Counted /\ Counted' = Counted \cup {t}
  BY DEF Submitted, Goes, Counted, Shape
<1>2. Cardinality(Counted') = Cardinality(Counted) + 1
  BY <1>1, CountedIsFinite, FS_AddElement
<1>3. QED  BY <1>2 DEF Submitted, Counts

LEMMA DoneCounts ==
    ASSUME WorkerPoolAssumption, Shape, Counts, NEW t \in Task, Done(t)
    PROVE  Counts'
<1>1. t \in Counted /\ Counted' = Counted \ {t}
  BY DEF Done, Goes, Counted, Shape
<1>2. Cardinality(Counted') = Cardinality(Counted) - 1
  BY <1>1, CountedIsFinite, FS_RemoveElement
<1>3. QED  BY <1>2 DEF Done, Counts

LEMMA TaskKeeps ==
    ASSUME WorkerPoolAssumption, WorkerInv, NEW t \in Task,
           \/ TakeSlot(t) \/ Refused(t) \/ Submitted(t) \/ TaskSucceeds(t)
           \/ TaskFails(t) \/ FreeSlot(t) \/ Done(t)
    PROVE  WorkerInv'
<1> USE DEF WorkerInv, Stage
<1>1. Counts'
  <2>1. CASE TakeSlot(t)   BY <2>1, SameCount DEF TakeSlot
  <2>2. CASE Refused(t)    BY <2>2, SameCount DEF Refused
  <2>3. CASE Submitted(t)  BY <2>3, SubmittedCounts
  <2>4. CASE TaskSucceeds(t)   BY <2>4, SameCount DEF TaskSucceeds
  <2>5. CASE TaskFails(t)      BY <2>5, SameCount DEF TaskFails
  <2>6. CASE FreeSlot(t)   BY <2>6, SameCount DEF FreeSlot
  <2>7. CASE Done(t)       BY <2>7, DoneCounts
  <2>8. QED  BY <2>1, <2>2, <2>3, <2>4, <2>5, <2>6, <2>7
<1>2. PICK from \in Stage, to \in Stage :
         /\ Goes(t, from, to) /\ UNCHANGED <<waiter, covered>>
         /\ from \in {"running", "leaving", "freed"}
              => to \in {"running", "leaving", "freed", "done"}
         /\ from \notin {"refused", "done"}
  BY DEF TakeSlot, Refused, Submitted, TaskSucceeds, TaskFails, FreeSlot, Done
<1>3. Shape'   BY <1>2 DEF Goes, Shape
<1>4. Covers'  BY <1>2 DEF Goes, Shape, Covers
<1>5. FirstOfFailed'
  <2>1. CASE TaskFails(t)  BY <2>1 DEF TaskFails, FirstOfFailed
  <2>2. CASE ~TaskFails(t)
    BY <2>2 DEF TakeSlot, Refused, Submitted, TaskSucceeds, FreeSlot, Done, FirstOfFailed
  <2>3. QED  BY <2>1, <2>2
<1>6. QED  BY <1>1, <1>3, <1>4, <1>5

LEMMA WorkerStep ==
    ASSUME WorkerPoolAssumption PROVE WorkerInv /\ [WorkersNext]_workersVars => WorkerInv'
<1> SUFFICES ASSUME WorkerInv, [WorkersNext]_workersVars PROVE WorkerInv'
  OBVIOUS
<1> USE DEF WorkerInv
<1>1. ASSUME CallWait PROVE WorkerInv'
  BY <1>1 DEF CallWait, Shape, Counts, Counted, Covers, FirstOfFailed
<1>2. ASSUME WaitReturns PROVE WorkerInv'
  <2>1. Counted = {}
    BY <1>2, CountedIsFinite, FS_EmptySet DEF WaitReturns, Counts
  <2>2. \A t \in covered : stage[t] = "done"
    BY <2>1 DEF Counted, Covers, Shape
  <2>3. QED
    BY <1>2, <2>2 DEF WaitReturns, Shape, Counts, Counted, Covers, FirstOfFailed
<1>3. ASSUME CancelTasks \/ UNCHANGED workersVars PROVE WorkerInv'
  BY <1>3 DEF CancelTasks, workersVars, Shape, Counts, Counted, Covers, FirstOfFailed
<1>4. QED  BY <1>1, <1>2, <1>3, TaskKeeps DEF WorkersNext

\* When Wait returns, every task that was submitted before the call is over,
\* and Err returns the error of one that failed, for all numbers of tasks and
\* workers and whoever submits meanwhile.
THEOREM WaitCoversHolds ==
    ASSUME WorkerPoolAssumption PROVE WorkersSpec => []WaitCovers
<1>1. WorkersInit => WorkerInv  BY WorkerInit
<1>2. WorkerInv /\ [WorkersNext]_workersVars => WorkerInv'  BY WorkerStep
<1>3. WorkerInv => WaitCovers
  BY DEF WorkerInv, Covers, FirstOfFailed, WaitCovers
<1>4. QED  BY <1>1, <1>2, <1>3, PTL DEF WorkersSpec

-----------------------------------------------------------------------------
(***************************************************************************)
(* DaemonConfig.                                                           *)
(***************************************************************************)
Setting == Numeric \cup {"Depth", "Domains"}

\* The environment gives numbers where numbers are read.
EnvType ==
    /\ DOMAIN env = Setting
    /\ \A s \in Numeric : env[s] = <<>> \/ env[s][1] \in Int

ConfigInv == EnvType /\ SettingsFit

LEMMA Defaults ==
    /\ DOMAIN DefaultConfig = Setting
    /\ \A s \in Numeric : DefaultConfig[s] \in Int
BY DEF DefaultConfig, Setting, Numeric

LEMMA FromEnvType ==
    ASSUME EnvType
    PROVE  /\ DOMAIN FromEnv(env) = Setting
           /\ \A s \in Numeric : FromEnv(env)[s] \in Int
<1>1. Numeric \subseteq Setting  BY DEF Setting
<1>2. FromEnv(env) = [s \in Setting |-> IF env[s] = <<>> THEN DefaultConfig[s]
                                                         ELSE env[s][1]]
  BY Defaults DEF FromEnv
<1>3. QED  BY <1>1, <1>2, Defaults DEF EnvType

\* What validate does to each setting the other parts depend on.
LEMMA Clamped ==
    ASSUME NEW c, DOMAIN c = Setting, \A s \in Numeric : c[s] \in Int
    PROVE  LET v == validate(c)
           IN /\ v.Parallel = Between(c.Parallel, 1, 20)
              /\ v.TimeoutSec = AtLeast(c.TimeoutSec, 1)
              /\ v.CycleSleepSec = AtLeast(c.CycleSleepSec, 10)
              /\ v.MaxLatencyMs = AtLeast(c.MaxLatencyMs, 0)
              /\ v.PortBase = UsableBase(c.PortBase)
              /\ v.Depth = IF c.Depth \in ValidDepth \cup {"empty"}
                             THEN c.Depth ELSE "standard"
              /\ v.DomainTimeoutSec = AtLeast(c.DomainTimeoutSec, 1)
              /\ v.DomainQuorum = AtLeast(c.DomainQuorum, 1)
              /\ v.StabilityProbes = Between(c.StabilityProbes, 1, 10)
              /\ v.MaxXrayTests = Between(c.MaxXrayTests, 0, 100000)
BY DEF validate, Setting, Numeric

LEMMA UsableFacts ==
    ASSUME NEW n \in Int
    PROVE  UsableBase(n) \in Int /\ 1024 <= UsableBase(n) /\ UsableBase(n) <= 64000
BY SMT DEF UsableBase

LEMMA LoadFits ==
    ASSUME ConfigAssumption, EnvType, Load
    PROVE  SettingsFit'
<1> DEFINE c == FromEnv(env)
           v == validate(c)
<1>1. config' = <<v>>  BY DEF Load, LoadConfigFromEnv
<1>2. DOMAIN c = Setting /\ \A s \in Numeric : c[s] \in Int  BY FromEnvType
<1>3. /\ v.Parallel = Between(c.Parallel, 1, 20)
      /\ v.TimeoutSec = AtLeast(c.TimeoutSec, 1)
      /\ v.CycleSleepSec = AtLeast(c.CycleSleepSec, 10)
      /\ v.MaxLatencyMs = AtLeast(c.MaxLatencyMs, 0)
      /\ v.PortBase = UsableBase(c.PortBase)
      /\ v.Depth = IF c.Depth \in ValidDepth \cup {"empty"}
                     THEN c.Depth ELSE "standard"
      /\ v.DomainTimeoutSec = AtLeast(c.DomainTimeoutSec, 1)
      /\ v.DomainQuorum = AtLeast(c.DomainQuorum, 1)
      /\ v.StabilityProbes = Between(c.StabilityProbes, 1, 10)
      /\ v.MaxXrayTests = Between(c.MaxXrayTests, 0, 100000)
  BY <1>2, Clamped
<1>4. /\ c.Parallel \in Int /\ c.TimeoutSec \in Int /\ c.CycleSleepSec \in Int
      /\ c.MaxLatencyMs \in Int /\ c.PortBase \in Int /\ c.DomainTimeoutSec \in Int
      /\ c.DomainQuorum \in Int /\ c.StabilityProbes \in Int /\ c.MaxXrayTests \in Int
  BY <1>2 DEF Numeric
<1>5. DomainList(v) # <<>>
  BY DEF DomainList, ConfigAssumption
<1> HIDE DEF c, v
<1>6. v.PortBase \in Int /\ 1024 <= v.PortBase /\ v.PortBase <= 64000
  BY <1>3, <1>4, UsableFacts, SMT
<1>7. /\ v.Parallel \in Int /\ 1 <= v.Parallel /\ v.Parallel <= 20
      /\ v.StabilityProbes \in Int /\ 1 <= v.StabilityProbes
  BY <1>3, <1>4, SMT DEF Between
<1>8. v.MaxXrayTests \in Int /\ 0 <= v.MaxXrayTests
  BY <1>3, <1>4, SMT DEF Between
<1>9. /\ v.TimeoutSec \in Int /\ v.TimeoutSec >= 1
      /\ v.DomainTimeoutSec \in Int /\ v.DomainTimeoutSec >= 1
      /\ v.DomainQuorum \in Int /\ v.DomainQuorum >= 1
  BY <1>3, <1>4, SMT DEF AtLeast
<1>10. /\ v.MaxLatencyMs \in Int /\ v.MaxLatencyMs >= 0
       /\ v.CycleSleepSec \in Int /\ v.CycleSleepSec >= 10
  BY <1>3, <1>4, SMT DEF AtLeast
<1>11. v.Depth \in ValidDepth \cup {"empty"}  BY <1>3 DEF ValidDepth
<1>12. config'[1] = v  BY <1>1
<1>13. PoolSize \in Int /\ 20 <= PoolSize /\ PoolSize <= 100
  BY DEF ConfigAssumption
<1>14. /\ v.PortBase >= 1024 /\ v.PortBase + PoolSize - 1 <= 65535
       /\ v.Parallel \in 1..PoolSize /\ v.CycleSleepSec >= 1
       /\ v.StabilityProbes >= 1 /\ v.MaxXrayTests >= 0
  BY <1>6, <1>7, <1>8, <1>10, <1>13, SMT
<1>15. QED
  BY <1>5, <1>9, <1>10, <1>11, <1>12, <1>14 DEF SettingsFit

\* Settings are only read while the environment is what a shell can give.
LEMMA ConfigStep ==
    ASSUME ConfigAssumption PROVE ConfigInv /\ [SettingsNext]_settingsVars => ConfigInv'
<1> SUFFICES ASSUME ConfigInv, [SettingsNext]_settingsVars PROVE ConfigInv'
  OBVIOUS
<1> USE DEF ConfigInv
<1>1. ASSUME NEW s \in Setting, Edit(s) PROVE ConfigInv'
  <2>1. PICK v \in {<<>>} \cup {<<x>> : x \in Values(s)} :
           env' = [env EXCEPT ![s] = v]
    BY <1>1 DEF Edit
  <2>2. ASSUME s \in Numeric PROVE v = <<>> \/ v[1] \in Int
    <3>1. Values(s) = Settings[s]  BY <2>2 DEF Values, Numeric
    <3>2. Settings[s] \subseteq Int  BY <2>2 DEF ConfigAssumption
    <3>3. QED  BY <2>1, <3>1, <3>2
  <2>3. EnvType'  BY <2>1, <2>2 DEF EnvType
  <2>4. SettingsFit'  BY <1>1 DEF Edit, SettingsFit, Running
  <2>5. QED  BY <2>3, <2>4
<1>2. ASSUME Load PROVE ConfigInv'
  BY <1>2, LoadFits DEF Load, EnvType
<1>3. ASSUME Stop PROVE ConfigInv'
  BY <1>3 DEF Stop, EnvType, SettingsFit, Running
<1>4. ASSUME UNCHANGED settingsVars PROVE ConfigInv'
  BY <1>4 DEF settingsVars, EnvType, SettingsFit, Running
<1>5. QED  BY <1>1, <1>2, <1>3, <1>4, Defaults DEF SettingsNext

\* Whatever the environment says, the ports of the test pool exist, every test
\* finds one, and the other settings mean something.
THEOREM SettingsFitHolds ==
    ASSUME ConfigAssumption PROVE SettingsSpec => []SettingsFit
<1>1. SettingsInit => ConfigInv
  BY Defaults DEF SettingsInit, ConfigInv, EnvType, SettingsFit, Running, Setting
<1>2. ConfigInv /\ [SettingsNext]_settingsVars => ConfigInv'  BY ConfigStep
<1>3. ConfigInv => SettingsFit  BY DEF ConfigInv
<1>4. QED  BY <1>1, <1>2, <1>3, PTL DEF SettingsSpec
-----------------------------------------------------------------------------
(***************************************************************************)
(* XrayPool.                                                               *)
(***************************************************************************)
PoolType ==
    /\ available = <<>>
    /\ inUse \in [Port -> Nat]
    /\ started \in Nat /\ down \in 0..started
    /\ alive \subseteq 1..started
    /\ call \in [Caller -> {"idle", "starting", "started", "using"}]
    /\ want \in [Caller -> Port \cup {NoInstance}]
    /\ has \in [Caller -> 0..started]

\* A port is a caller's from Acquire to Release, an instance from startFn on.
Holding ==
    \A c \in Caller :
       /\ call[c] = "idle" <=> want[c] = NoInstance
       /\ call[c] \in {"started", "using"} <=> has[c] # NoInstance

OnePort ==
    \A c, d \in Caller : want[c] = want[d] /\ want[c] # NoInstance => c = d

OneInstance ==
    \A c, d \in Caller : has[c] = has[d] /\ has[c] # NoInstance => c = d

Held == \A x \in alive : \E c \in Caller : has[c] = x

\* A caller may use an instance the pool forgot in a Shutdown, but that one
\* no longer runs.
Known ==
    \A c \in Caller :
       call[c] = "using" /\ has[c] \in alive => inUse[want[c]] = has[c]

PoolInv ==
    /\ PoolType /\ Holding /\ OnePort /\ OneInstance /\ Held /\ Known
    /\ ShutdownStopsRegistered

LEMMA PoolBegins == ASSUME PoolAssumption PROVE PoolInit => PoolInv
BY DEF PoolAssumption, PoolInit, PoolInv, PoolType, Holding, OnePort, OneInstance, Held,
       Known, ShutdownStopsRegistered, NoInstance

LEMMA AcquireKeeps ==
    ASSUME PoolAssumption, PoolInv, NEW c \in Caller, NEW p \in Port, Acquire(c, p)
    PROVE  PoolInv'
<1> USE DEF PoolInv, NoInstance
<1>1. PoolType'          BY DEF Acquire, PoolType
<1>2. Holding'       BY DEF Acquire, PoolType, Holding, PoolAssumption
<1>3. OnePort'       BY DEF Acquire, PoolType, OnePort
<1>4. OneInstance'   BY DEF Acquire, OneInstance
<1>5. Held'          BY DEF Acquire, Held
<1>6. Known'         BY DEF Acquire, PoolType, Known
<1>7. ShutdownStopsRegistered' BY DEF Acquire, ShutdownStopsRegistered
<1>8. QED  BY <1>1, <1>2, <1>3, <1>4, <1>5, <1>6, <1>7

LEMMA StartKeeps ==
    ASSUME PoolInv, NEW c \in Caller, Start(c)
    PROVE  PoolInv'
<1> USE DEF PoolInv, NoInstance
<1>1. PoolType'          BY DEF Start, PoolType
<1>2. Holding'       BY DEF Start, PoolType, Holding
<1>3. OnePort'       BY DEF Start, OnePort
<1>4. OneInstance'   BY DEF Start, PoolType, OneInstance
<1>5. Held'
  <2>1. has[c] = NoInstance  BY DEF Start, Holding
  <2>2. QED  BY <2>1 DEF Start, PoolType, Held
<1>6. Known'         BY DEF Start, PoolType, Known
<1>7. ShutdownStopsRegistered' BY DEF Start, PoolType, ShutdownStopsRegistered
<1>8. QED  BY <1>1, <1>2, <1>3, <1>4, <1>5, <1>6, <1>7

LEMMA StartFailsKeeps ==
    ASSUME PoolInv, NEW c \in Caller, StartFails(c)
    PROVE  PoolInv'
<1> USE DEF PoolInv, NoInstance
<1>1. PoolType'          BY DEF StartFails, PoolType
<1>2. Holding'       BY DEF StartFails, PoolType, Holding
<1>3. OnePort'       BY DEF StartFails, PoolType, OnePort
<1>4. OneInstance'   BY DEF StartFails, OneInstance
<1>5. Held'          BY DEF StartFails, Held
<1>6. Known'         BY DEF StartFails, PoolType, Known
<1>7. ShutdownStopsRegistered' BY DEF StartFails, ShutdownStopsRegistered
<1>8. QED  BY <1>1, <1>2, <1>3, <1>4, <1>5, <1>6, <1>7

LEMMA RegisterKeeps ==
    ASSUME PoolInv, NEW c \in Caller, Register(c)
    PROVE  PoolInv'
<1> USE DEF PoolInv, NoInstance
<1>0. want[c] \in Port /\ want[c] # NoInstance  BY DEF Register, PoolType, Holding
<1>1. PoolType'          BY <1>0 DEF Register, PoolType
<1>2. Holding'       BY DEF Register, PoolType, Holding
<1>3. OnePort'       BY DEF Register, OnePort
<1>4. OneInstance'   BY DEF Register, OneInstance
<1>5. Held'          BY DEF Register, Held
<1>6. Known'
  <2> SUFFICES ASSUME NEW d \in Caller, call'[d] = "using", has'[d] \in alive'
               PROVE  inUse'[want'[d]] = has'[d]
    BY DEF Known
  <2>1. CASE d = c   BY <2>1, <1>0 DEF Register, PoolType
  <2>2. CASE d # c
    <3>1. call[d] = "using"   BY <2>2 DEF Register, PoolType
    <3>2. want[d] # want[c]  BY <2>2, <1>0 DEF OnePort
    <3>3. QED  BY <3>1, <3>2 DEF Register, PoolType, Known
  <2>3. QED  BY <2>1, <2>2
<1>7. ShutdownStopsRegistered' BY DEF Register, ShutdownStopsRegistered
<1>8. QED  BY <1>1, <1>2, <1>3, <1>4, <1>5, <1>6, <1>7

LEMMA ReleaseKeeps ==
    ASSUME PoolInv, NEW c \in Caller, Release(c)
    PROVE  PoolInv'
<1> USE DEF PoolInv, NoInstance
<1>0. alive' = alive \ {has[c]} /\ available' = available
  BY DEF Release, IsRunning
<1>1. PoolType'
  <2>1. inUse' \in [Port -> Nat] /\ want' \in [Caller -> Port \cup {NoInstance}]
    BY DEF Release, PoolType
  <2>2. has' \in [Caller -> 0..started'] /\ started' \in Nat /\ down' \in 0..started'
    BY DEF Release, PoolType
  <2>3. alive' \subseteq 1..started' /\ available' = <<>>
    BY <1>0 DEF Release, PoolType
  <2>4. call' \in [Caller -> {"idle", "starting", "started", "using"}]
    BY DEF Release, PoolType
  <2>5. QED  BY <2>1, <2>2, <2>3, <2>4 DEF PoolType
<1>2. Holding'       BY DEF Release, PoolType, Holding
<1>3. OnePort'       BY DEF Release, PoolType, OnePort
<1>4. OneInstance'   BY DEF Release, PoolType, OneInstance
<1>5. Held'          BY <1>0 DEF Release, PoolType, Held
<1>6. Known'
  <2> SUFFICES ASSUME NEW d \in Caller, call'[d] = "using", has'[d] \in alive'
               PROVE  inUse'[want'[d]] = has'[d]
    BY DEF Known
  <2>1. d # c /\ call[d] = "using"  BY DEF Release, PoolType
  <2>2. want[d] # want[c]  BY <2>1 DEF OnePort, Holding
  <2>3. QED  BY <1>0, <2>1, <2>2 DEF Release, PoolType, Known
<1>7. ShutdownStopsRegistered' BY <1>0 DEF Release, ShutdownStopsRegistered
<1>8. QED  BY <1>1, <1>2, <1>3, <1>4, <1>5, <1>6, <1>7

LEMMA ShutdownKeeps ==
    ASSUME PoolInv, Shutdown
    PROVE  PoolInv'
<1> USE DEF PoolInv, NoInstance
<1>0. alive' \subseteq alive \ Mapped  BY DEF Shutdown
<1>1. PoolType'
  <2>1. started' \in Nat /\ down' \in 0..started'  BY DEF Shutdown, PoolType
  <2>2. available' = <<>> /\ inUse' \in [Port -> Nat]  BY DEF Shutdown
  <2>3. alive' \subseteq 1..started'  BY <1>0 DEF Shutdown, PoolType
  <2>4. QED  BY <2>1, <2>2, <2>3 DEF Shutdown, PoolType
<1>2. Holding'       BY DEF Shutdown, Holding
<1>3. OnePort'       BY DEF Shutdown, OnePort
<1>4. OneInstance'   BY DEF Shutdown, OneInstance
<1>5. Held'          BY <1>0 DEF Shutdown, Held
<1>6. \A c \in Caller : call[c] = "using" => has[c] \notin alive'
  <2> SUFFICES ASSUME NEW c \in Caller, call[c] = "using", has[c] \in alive'
               PROVE  FALSE
    OBVIOUS
  <2>1. inUse[want[c]] = has[c] /\ has[c] # NoInstance /\ want[c] \in Port
    BY <1>0 DEF Known, Holding, PoolType
  <2>2. QED  BY <1>0, <2>1 DEF Mapped
<1>7. Known'         BY <1>6 DEF Shutdown, Known
<1>8. ShutdownStopsRegistered'
  <2> SUFFICES ASSUME NEW x \in alive' PROVE x \in late'
    BY DEF ShutdownStopsRegistered
  <2>1. PICK c \in Caller : has[c] = x  BY <1>0 DEF Held
  <2>2. call[c] \in {"started", "using"}  BY <2>1, <1>0 DEF Holding, PoolType
  <2>3. call[c] = "started"  BY <2>1, <2>2, <1>6
  <2>4. QED  BY <2>1, <2>3 DEF Shutdown, NotYetInMap
<1>9. QED  BY <1>1, <1>2, <1>3, <1>4, <1>5, <1>7, <1>8

LEMMA DiesKeeps ==
    ASSUME PoolInv, Dies
    PROVE  PoolInv'
<1> USE DEF PoolInv
<1>0. alive' \subseteq alive  BY DEF Dies
<1>1. PoolType'          BY <1>0 DEF Dies, PoolType
<1>2. Holding' /\ OnePort' /\ OneInstance'  BY DEF Dies, Holding, OnePort, OneInstance
<1>3. Held' /\ Known'  BY <1>0 DEF Dies, Held, Known
<1>4. ShutdownStopsRegistered' BY <1>0 DEF Dies, ShutdownStopsRegistered
<1>5. QED  BY <1>1, <1>2, <1>3, <1>4

LEMMA PoolStep ==
    ASSUME PoolAssumption PROVE PoolInv /\ [PoolNext]_poolVars => PoolInv'
<1> SUFFICES ASSUME PoolInv, [PoolNext]_poolVars PROVE PoolInv'
  OBVIOUS
<1>1. ASSUME UNCHANGED poolVars PROVE PoolInv'
  BY <1>1 DEF poolVars, PoolInv, PoolType, Holding, OnePort, OneInstance, Held, Known,
              ShutdownStopsRegistered
<1>2. ASSUME NEW c \in Caller, Refuse(c) PROVE PoolInv'
  BY <1>1, <1>2 DEF Refuse
<1>3. QED
  BY <1>1, <1>2, AcquireKeeps, StartKeeps, StartFailsKeeps, RegisterKeeps,
     ReleaseKeeps, ShutdownKeeps, DiesKeeps DEF PoolNext

LEMMA PoolInvariant == ASSUME PoolAssumption PROVE PoolSpec => []PoolInv
<1>1. PoolInit => PoolInv  BY PoolBegins
<1>2. PoolInv /\ [PoolNext]_poolVars => PoolInv'  BY PoolStep
<1>3. QED  BY <1>1, <1>2, PTL DEF PoolSpec

\* Every process that runs is in the hands of exactly one caller, whatever
\* Shutdown does beside Acquire and Release.
THEOREM EveryProcessHeldHolds ==
    ASSUME PoolAssumption PROVE PoolSpec => []EveryProcessHeld
<1>1. PoolInv => EveryProcessHeld
  BY DEF PoolInv, PoolType, Held, OneInstance, EveryProcessHeld, NoInstance
<1>2. QED  BY <1>1, PoolInvariant, PTL

\* No instance that was in the map at a Shutdown runs after it.
THEOREM ShutdownStopsRegisteredHolds ==
    ASSUME PoolAssumption PROVE PoolSpec => []ShutdownStopsRegistered
<1>1. PoolInv => ShutdownStopsRegistered  BY DEF PoolInv
<1>2. QED  BY <1>1, PoolInvariant, PTL
-----------------------------------------------------------------------------
(***************************************************************************)
(* Decide and ResilientRunner.                                             *)
(***************************************************************************)
\* Whatever the user asked for and whatever the batch, a decision can be worked
\* with: a depth and a style that exist, at least one worker, no negative
\* number of retries and some time for every test.
THEOREM DecisionIsUsable ==
    ASSUME DecisionAssumption, NEW ctx \in TestContext, NEW p \in Preferences,
           NEW n \in Nat \ {0}
    PROVE  LET d == Decide(ctx, p, n)
           IN /\ d.Depth \in Depths /\ d.Style \in Styles \ {"auto"}
              /\ d.Workers >= 1 /\ d.Retry.MaxRetries \in Nat
              /\ d.TimeoutPerTest >= 1
<1> USE DEF TestContext, Preferences
<1>1. decideDepth(ctx, p.depth) \in Depths
  <2>1. DepthForSize(ctx.total) \in Depths
    BY DEF DepthForSize, Depths, DecisionAssumption
  <2>2. bumpDepth(DepthForSize(ctx.total)) \in Depths
    BY DEF bumpDepth, Depths
  <2>3. QED  BY <2>1, <2>2 DEF decideDepth, Depths
<1>2. decideStyle(ctx, p.style) \in Styles \ {"auto"}
  BY DEF decideStyle, Styles
<1>3. decideConcurrency(ctx, p.workers, n) >= 1
  BY DEF decideConcurrency, Capped
<1>4. decideRetry(ctx, p.retries).MaxRetries \in Nat
  BY DEF decideRetry
<1>5. decideTimeout(ctx, p.timeout) >= 1
  BY DEF decideTimeout, DecisionAssumption
<1>6. QED  BY <1>1, <1>2, <1>3, <1>4, <1>5 DEF Decide

-----------------------------------------------------------------------------
(***************************************************************************)
(* A growing batch.                                                        *)
(***************************************************************************)
LEMMA BatchGrows ==
    ASSUME NEW S, NEW b \in Seq(S), NEW c \in S
    PROVE  /\ Cardinality(DOMAIN b) = Len(b) /\ Len(b) \in Nat
           /\ Cardinality(DOMAIN Append(b, c)) = Len(b) + 1
<1>1. DOMAIN b = 1..Len(b) /\ Len(b) \in Nat
  OBVIOUS
<1>2. DOMAIN Append(b, c) = 1..(Len(b) + 1)
  OBVIOUS
<1>3. /\ Cardinality(1..Len(b)) = IF 1 > Len(b) THEN 0 ELSE Len(b) - 1 + 1
      /\ Cardinality(1..(Len(b) + 1)) =
            IF 1 > Len(b) + 1 THEN 0 ELSE Len(b) + 1 - 1 + 1
  BY <1>1, FS_Interval
<1>4. QED  BY <1>1, <1>2, <1>3

\* One config more, of a kind the batch has or does not miss, is not tested
\* deeper and not retried more often.
LEMMA DecideIsMonotone ==
    ASSUME DecisionAssumption, NEW x, NEW y, NEW p, NEW n,
           x.total \in Nat \ {0}, y.total = x.total + 1, y.reality = x.reality,
           p.retries \in Int
    PROVE  /\ Rank[Decide(y, p, n).Depth] <= Rank[Decide(x, p, n).Depth]
           /\ Decide(y, p, n).Retry.MaxRetries <= Decide(x, p, n).Retry.MaxRetries
<1> DEFINE dx == DepthForSize(x.total)
           dy == DepthForSize(y.total)
<1>1. /\ dx \in {"quick", "standard", "full"} /\ dy \in {"quick", "standard", "full"}
      /\ dx = "quick" => dy = "quick"
      /\ dx = "standard" => dy \in {"quick", "standard"}
  BY DEF DepthForSize, DecisionAssumption
<1> HIDE DEF dx, dy
<1>2. Rank[dy] <= Rank[dx] /\ Rank[bumpDepth(dy)] <= Rank[bumpDepth(dx)]
  BY <1>1 DEF Rank, bumpDepth
<1>3. Rank[decideDepth(y, p.depth)] <= Rank[decideDepth(x, p.depth)]
  <2>1. CASE p.depth \in Depths
    <3>1. decideDepth(x, p.depth) = p.depth /\ decideDepth(y, p.depth) = p.depth
      BY <2>1 DEF decideDepth
    <3>2. Rank[p.depth] \in Int  BY <2>1 DEF Depths, Rank
    <3>3. QED  BY <3>1, <3>2
  <2>2. CASE p.depth \notin Depths
    <3>1. /\ decideDepth(x, p.depth) = IF x.reality THEN bumpDepth(dx) ELSE dx
          /\ decideDepth(y, p.depth) = IF x.reality THEN bumpDepth(dy) ELSE dy
      BY <2>2 DEF decideDepth, dx, dy
    <3>2. QED  BY <1>2, <3>1
  <2>3. QED  BY <2>1, <2>2
<1>4. decideRetry(y, p.retries).MaxRetries <= decideRetry(x, p.retries).MaxRetries
  BY DEF decideRetry, DecisionAssumption
<1>5. QED  BY <1>3, <1>4 DEF Decide

-----------------------------------------------------------------------------
(***************************************************************************)
(* The inductive invariant of the runner.                                  *)
(***************************************************************************)
RunStage == {"flags", "parsing", "ready", "running", "backoff", "returned"}

\* The decision is about the batch parsed so far.
Decided ==
    /\ batch \in Seq(ConfigOf) /\ prefs.retries \in Int
    /\ phase \in {"flags", "parsing"} =>
          decision = Decide(BuildContext(batch, NumCPU), prefs, NumCPU)
    /\ decision.Retry.MaxRetries \in Nat

\* Runs and retries are counted alike, and none is begun that is not left.
RunsCounted ==
    /\ phase \in RunStage /\ attempt \in Nat
    /\ attempt <= decision.Retry.MaxRetries
    /\ runs = IF phase \in {"flags", "parsing", "ready"} THEN attempt ELSE attempt + 1
    /\ phase \in {"flags", "parsing"} => attempt = 0
    /\ phase \in {"backoff", "returned"} => retries = attempt
    /\ phase = "backoff" => attempt < decision.Retry.MaxRetries
    /\ phase = "returned" =>
          status = "success" \/ ctxDone \/ attempt = decision.Retry.MaxRetries

RunnerInv == Decided /\ RunsCounted

LEMMA RetriesAreCounted ==
    ASSUME NEW configs, NEW p, p.retries \in Int
    PROVE  Decide(BuildContext(configs, NumCPU), p, NumCPU).Retry.MaxRetries \in Nat
BY DEF Decide, decideRetry

LEMMA RunnerInit == RunInit => RunnerInv
<1> SUFFICES ASSUME RunInit PROVE RunnerInv
  OBVIOUS
<1>1. prefs.retries \in Int /\ batch \in Seq(ConfigOf)
  BY DEF RunInit, NoPreference
<1>2. decision.Retry.MaxRetries \in Nat
  BY <1>1, RetriesAreCounted DEF RunInit
<1>3. Decided  BY <1>1, <1>2 DEF RunInit, Decided
<1>4. RunsCounted  BY <1>2 DEF RunInit, RunsCounted, RunStage
<1>5. QED  BY <1>3, <1>4 DEF RunnerInv

LEMMA RunnerStep ==
    ASSUME RunnerAssumption, RunnerInv, [RunNext]_runVars
    PROVE  RunnerInv'
<1> USE DEF RunnerInv, runner
<1>1. ASSUME Flags PROVE RunnerInv'
  <2>1. PICK p \in Prefs : prefs' = p /\ Decides(batch, p)
    BY <1>1 DEF Flags
  <2>2. prefs'.retries \in Int /\ decision'.Retry.MaxRetries \in Nat
    BY <2>1, RetriesAreCounted DEF RunnerAssumption, Decides
  <2>3. Decided'  BY <1>1, <2>1, <2>2 DEF Flags, Decided, Decides
  <2>4. RunsCounted'  BY <1>1, <2>2 DEF Flags, RunsCounted, RunStage
  <2>5. QED  BY <2>3, <2>4
<1>2. ASSUME Parsed PROVE RunnerInv'
  <2>1. PICK c \in ConfigOf :
           batch' = Append(batch, c) /\ Decides(Append(batch, c), prefs)
    BY <1>2 DEF Parsed
  <2>2. batch' \in Seq(ConfigOf) /\ prefs' = prefs /\ prefs.retries \in Int
    BY <1>2, <2>1 DEF Parsed, Decided
  <2>3. decision'.Retry.MaxRetries \in Nat
    BY <2>1, <2>2, RetriesAreCounted DEF Decides
  <2>4. Decided'  BY <1>2, <2>1, <2>2, <2>3 DEF Parsed, Decided, Decides
  <2>5. RunsCounted'  BY <1>2, <2>3 DEF Parsed, RunsCounted, RunStage
  <2>6. QED  BY <2>4, <2>5
<1>3. ASSUME NewResilientRunner PROVE RunnerInv'
  <2>1. Decided'
    BY <1>3 DEF NewResilientRunner, Decided, NoPreference
  <2>2. RunsCounted'  BY <1>3 DEF NewResilientRunner, RunsCounted, RunStage
  <2>3. QED  BY <2>1, <2>2
<1>4. ASSUME PipelineRun PROVE RunnerInv'
  <2>1. Decided'  BY <1>4 DEF PipelineRun, Decided
  <2>2. RunsCounted'  BY <1>4 DEF PipelineRun, RunsCounted, RunStage
  <2>3. QED  BY <2>1, <2>2
<1>5. ASSUME Succeeds PROVE RunnerInv'
  <2>1. Decided'  BY <1>5 DEF Succeeds, Decided
  <2>2. RunsCounted'  BY <1>5 DEF Succeeds, RunsCounted, RunStage
  <2>3. QED  BY <2>1, <2>2
<1>6. ASSUME NEW st \in {"failed", "error"}, NEW e \in Sentinels, Fails(st, e)
      PROVE  RunnerInv'
  <2>1. Decided'  BY <1>6 DEF Fails, Decided
  <2>2. /\ phase = "running" /\ retries' = attempt
        /\ UNCHANGED <<decision, attempt, runs>>
    BY <1>6 DEF Fails
  <2>3. \/ RetriesLeft /\ phase' = "backoff"
        \/ ~RetriesLeft /\ phase' = "returned"
    BY <1>6 DEF Fails
  <2>4. decision.Retry.MaxRetries \in Nat  BY DEF Decided
  <2>5. RunsCounted'  BY <2>2, <2>3, <2>4 DEF RetriesLeft, RunsCounted, RunStage
  <2>6. QED  BY <2>1, <2>5
<1>7. ASSUME TimerFires PROVE RunnerInv'
  <2>1. Decided'  BY <1>7 DEF TimerFires, Decided
  <2>2. RunsCounted'  BY <1>7 DEF TimerFires, RunsCounted, RunStage, Decided
  <2>3. QED  BY <2>1, <2>2
<1>8. ASSUME WaitCancelled PROVE RunnerInv'
  <2>1. Decided'  BY <1>8 DEF WaitCancelled, Decided
  <2>2. RunsCounted'  BY <1>8 DEF WaitCancelled, RunsCounted, RunStage
  <2>3. QED  BY <2>1, <2>2
<1>9. ASSUME Cancel PROVE RunnerInv'
  <2>1. Decided'  BY <1>9 DEF Cancel, Decided
  <2>2. RunsCounted'  BY <1>9 DEF Cancel, RunsCounted, RunStage
  <2>3. QED  BY <2>1, <2>2
<1>10. ASSUME UNCHANGED runVars PROVE RunnerInv'
  BY <1>10 DEF runVars, Decided, RunsCounted
<1>11. QED
  BY <1>1, <1>2, <1>3, <1>4, <1>5, <1>6, <1>7, <1>8, <1>9, <1>10 DEF RunNext

LEMMA RunnerInvariant == ASSUME RunnerAssumption PROVE RunSpec => []RunnerInv
<1>1. RunInit => RunnerInv  BY RunnerInit
<1>2. RunnerInv /\ [RunNext]_runVars => RunnerInv'  BY RunnerStep
<1>3. QED  BY <1>1, <1>2, PTL DEF RunSpec

\* The result of a run counts the retries that were made, and a failure is
\* handed on only when none is left or the context is done, for every policy.
THEOREM GivesUpLastHolds ==
    ASSUME RunnerAssumption PROVE RunSpec => []GivesUpLast
<1>1. RunnerInv => GivesUpLast
  BY DEF RunnerInv, Decided, RunsCounted, GivesUpLast, RunStage
<1>2. QED  BY <1>1, RunnerInvariant, PTL

\* A batch that grows by a config, of a kind it has or that is no REALITY, is
\* never tested deeper or retried more often, for all limits of the sizes and
\* all preferences.
THEOREM LargerIsNoDeeperHolds ==
    ASSUME RunnerAssumption PROVE RunSpec => LargerIsNoDeeper
<1> DEFINE Step ==
      phase = "parsing" /\ phase' = "parsing" /\ batch # <<>>
      /\ BuildContext(batch, NumCPU).reality = BuildContext(batch', NumCPU).reality
        => /\ Rank[decision'.Depth] <= Rank[decision.Depth]
           /\ decision'.Retry.MaxRetries <= decision.Retry.MaxRetries
<1>1. RunnerInv /\ RunnerInv' /\ [RunNext]_runVars => [Step]_runVars
  <2> SUFFICES ASSUME RunnerInv, RunnerInv', RunNext,
                      phase = "parsing", phase' = "parsing", batch # <<>>,
                      BuildContext(batch, NumCPU).reality
                         = BuildContext(batch', NumCPU).reality
               PROVE  /\ Rank[decision'.Depth] <= Rank[decision.Depth]
                      /\ decision'.Retry.MaxRetries <= decision.Retry.MaxRetries
    OBVIOUS
  <2>1. Parsed
    BY DEF RunNext, Flags, NewResilientRunner, PipelineRun, Succeeds, Fails, TimerFires,
           WaitCancelled, Cancel
  <2>2. PICK c \in ConfigOf :
           batch' = Append(batch, c) /\ Decides(Append(batch, c), prefs)
    BY <2>1 DEF Parsed
  <2> DEFINE x == BuildContext(batch, NumCPU)
             y == BuildContext(batch', NumCPU)
  <2>3. decision = Decide(x, prefs, NumCPU) /\ decision' = Decide(y, prefs, NumCPU)
    BY <2>2 DEF RunnerInv, Decided, Decides
  <2>4. batch \in Seq(ConfigOf) /\ Len(batch) # 0 /\ prefs.retries \in Int
    BY DEF RunnerInv, Decided
  <2>5. x.total = Len(batch) /\ y.total = Len(batch) + 1 /\ Len(batch) \in Nat
    BY <2>2, <2>4, BatchGrows DEF BuildContext
  <2>6. y.reality = x.reality
    OBVIOUS
  <2> HIDE DEF x, y
  <2>7. QED  BY <2>3, <2>4, <2>5, <2>6, DecideIsMonotone DEF RunnerAssumption
<1>2. QED  BY <1>1, RunnerInvariant, PTL DEF RunSpec, LargerIsNoDeeper
-----------------------------------------------------------------------------
(***************************************************************************)
(* The backoff: as long as it fits a time.Duration it doubles up to the    *)
(* cap, and a run that is cancelled does not go on.                        *)
(***************************************************************************)
LEMMA Shifts ==
    /\ Shifted[0] = 1
    /\ \A k \in Nat : Shifted[k] \in Nat \ {0} /\ Shifted[k + 1] = 2 * Shifted[k]
<1> DEFINE h == [n \in Nat |-> [v \in Nat |-> 2 * v]]
           Doubling(g) == [k \in Nat |-> IF k = 0 THEN 1 ELSE 2 * g[k - 1]]
<1>1. h \in [Nat -> [Nat -> Nat]]
  OBVIOUS
<1>2. PICK f : Recurs(f, Nat, 1, h)
  <2> HIDE DEF h
  <2>1. 1 \in Nat
    OBVIOUS
  <2> QED BY <1>1, <2>1, Recursion
<1>3. f = Doubling(f)
  <2>1. ASSUME NEW k \in Nat PROVE f[k] = IF k = 0 THEN 1 ELSE 2 * f[k - 1]
    <3>1. CASE k = 0
      <4> HIDE DEF h
      <4> QED BY <1>2, <3>1 DEF Recurs
    <3>2. CASE k # 0
      <4>1. k - 1 \in Nat /\ (k - 1) + 1 = k
        BY <3>2
      <4>2. f[k] = h[k - 1][f[k - 1]] /\ f[k - 1] \in Nat
        <5> HIDE DEF h
        <5> QED BY <1>2, <4>1 DEF Recurs
      <4> QED BY <3>2, <4>1, <4>2
    <3> QED BY <3>1, <3>2
  <2>2. f \in [Nat -> Nat]
    <3> HIDE DEF h
    <3> QED BY <1>2 DEF Recurs
  <2> QED BY <2>1, <2>2
<1>4. Shifted = Doubling(Shifted)
  <2>1. Shifted = CHOOSE g : g = Doubling(g)
    BY DEF Shifted
  <2> HIDE DEF Doubling, h
  <2> QED BY <1>3, <2>1
<1>5. \A k \in Nat : Shifted[k] = IF k = 0 THEN 1 ELSE 2 * Shifted[k - 1]
  BY <1>4
<1>6. Shifted[0] = 1
  BY <1>5
<1>7. \A k \in Nat : Shifted[k + 1] = 2 * Shifted[k]
  <2> TAKE k \in Nat
  <2>1. k + 1 \in Nat /\ k + 1 # 0 /\ (k + 1) - 1 = k
    OBVIOUS
  <2> QED BY <1>5, <2>1
<1> DEFINE P == {k \in Nat : Shifted[k] \in Nat \ {0}}
<1>8. 0 \in P
  BY <1>6
<1>9. ASSUME NEW k \in P PROVE k + 1 \in P
  BY <1>7
<1>10. P = Nat
  <2>1. P \in SUBSET Nat
    OBVIOUS
  <2> HIDE DEF P
  <2> QED BY <1>8, <1>9, <2>1, Induction
<1> QED BY <1>6, <1>7, <1>10

LEMMA Times ==
    ASSUME NEW a \in Nat \ {0}, NEW x \in Nat, NEW y \in Nat, x <= y
    PROVE  a * x \in Nat /\ x <= a * x /\ a * x <= a * y
BY SMT

\* Numbers that fit the width are not changed by it.
LEMMA WrapFits ==
    ASSUME RunnerAssumption, NEW n \in Nat, n < Shifted[Bits - 1]
    PROVE  Wrap(n) = n
<1> DEFINE H == Shifted[Bits - 1]
<1>1. Bits - 1 \in Nat /\ (Bits - 1) + 1 = Bits
  BY DEF RunnerAssumption
<1>2. H \in Nat \ {0} /\ Shifted[Bits] = 2 * H
  BY <1>1, Shifts
<1>3. n < H
  OBVIOUS
<1> HIDE DEF H
<1>4. (n + H) % (2 * H) = n + H
  BY <1>2, <1>3
<1> QED BY <1>2, <1>4 DEF Wrap, H
\* A backoff that fits is the base times the power of two, up to the cap.
LEMMA BackoffFits ==
    ASSUME RunnerAssumption, NEW base \in Nat \ {0}, NEW k \in Nat,
           base * Shifted[k] < Shifted[Bits - 1]
    PROVE  /\ base * Shifted[k] \in Nat /\ base <= base * Shifted[k]
           /\ Backoff(base, k) = IF base * Shifted[k] > MaxBackoff
                                   THEN MaxBackoff ELSE base * Shifted[k]
<1>1. Shifted[k] \in Nat \ {0} /\ Shifted[Bits - 1] \in Nat
  <2>1. Bits - 1 \in Nat
    BY DEF RunnerAssumption
  <2> QED BY <2>1, Shifts
<1>2. base * Shifted[k] \in Nat /\ Shifted[k] <= base * Shifted[k]
  BY <1>1, Times
<1>3. base * 1 <= base * Shifted[k]
  <2>1. 1 <= Shifted[k] /\ 1 \in Nat /\ Shifted[k] \in Nat
    BY <1>1
  <2> QED BY <2>1, Times
<1> DEFINE x == Shifted[k]
           y == base * Shifted[k]
           H == Shifted[Bits - 1]
<1>4. x \in Nat /\ y \in Nat /\ H \in Nat /\ x <= y /\ y < H
  BY <1>1, <1>2
<1>5. x < H
  <2> HIDE DEF x, y, H
  <2> QED BY <1>4
<1>6. Wrap(Shifted[k]) = Shifted[k] /\ Wrap(base * Shifted[k]) = base * Shifted[k]
  BY <1>4, <1>5, WrapFits
<1> QED BY <1>2, <1>3, <1>6 DEF Backoff

LEMMA MaxBackoffType == ASSUME RunnerAssumption PROVE MaxBackoff \in Nat \ {0}
BY DEF MaxBackoff, RunnerAssumption, DecisionAssumption

\* A retry waits at least as long as the one before it.
LEMMA NextBackoff ==
    ASSUME RunnerAssumption, NEW base \in Nat \ {0}, NEW k \in Nat,
           base * Shifted[k + 1] < Shifted[Bits - 1]
    PROVE  Backoff(base, k) <= Backoff(base, k + 1)
<1> DEFINE y == base * Shifted[k]
           z == base * Shifted[k + 1]
           H == Shifted[Bits - 1]
<1>1. y \in Nat /\ z \in Nat /\ y <= z
  <2>1. Shifted[k] \in Nat /\ Shifted[k + 1] \in Nat /\ Shifted[k] <= Shifted[k + 1]
    BY Shifts
  <2> QED BY <2>1, Times
<1>2. y < H
  <2>1. H \in Nat /\ z < H
    BY Shifts DEF RunnerAssumption
  <2> HIDE DEF y, z, H
  <2> QED BY <1>1, <2>1
<1>3. /\ Backoff(base, k) = IF y > MaxBackoff THEN MaxBackoff ELSE y
      /\ Backoff(base, k + 1) = IF z > MaxBackoff THEN MaxBackoff ELSE z
  BY <1>2, BackoffFits
<1>4. MaxBackoff \in Nat
  BY MaxBackoffType
<1> HIDE DEF y, z
<1> QED BY <1>1, <1>3, <1>4

\* The wait is the backoff of the retries begun, and after the context is done
\* only the run its timer had let go begins.
Patient ==
    /\ decision.Retry.BackoffBase \in Nat \ {0}
    /\ phase \in {"flags", "parsing"} => attempt = 0 /\ wait = 0
    /\ phase \in {"ready", "running"} =>
          wait = IF attempt = 0 THEN 0
                 ELSE Backoff(decision.Retry.BackoffBase, attempt - 1)
    /\ phase = "backoff" => wait = Backoff(decision.Retry.BackoffBase, attempt)

Cancelled ==
    /\ ctxDone => phase \notin {"flags", "parsing"}
    /\ lateRuns \in Nat
    /\ ~ctxDone => lateRuns = 0
    /\ Fits => lateRuns <= 1 /\ (phase = "ready" => lateRuns = 0)

LEMMA BaseOfDecision ==
    ASSUME NEW configs, NEW p
    PROVE  Decide(BuildContext(configs, NumCPU), p, NumCPU).Retry.BackoffBase = Second
BY DEF Decide, decideRetry

LEMMA PatientInit == ASSUME RunnerAssumption PROVE RunInit => Patient /\ Cancelled
BY BaseOfDecision DEF RunInit, Patient, Cancelled, RunnerAssumption, DecisionAssumption

\* A run in its backoff waits for some time, if the backoffs fit.
LEMMA WaitsSomeTime ==
    ASSUME RunnerAssumption, RunnerInv, Patient, Fits, phase = "backoff"
    PROVE  wait \in Nat \ {0}
<1> DEFINE base == decision.Retry.BackoffBase
<1>1. /\ base \in Nat \ {0} /\ attempt \in Nat
      /\ base * Shifted[attempt] < Shifted[Bits - 1] /\ wait = Backoff(base, attempt)
  BY DEF RunnerInv, Decided, RunsCounted, Patient, Fits
<1> HIDE DEF base
<1>2. /\ base * Shifted[attempt] \in Nat /\ base <= base * Shifted[attempt]
      /\ wait = IF base * Shifted[attempt] > MaxBackoff
                  THEN MaxBackoff ELSE base * Shifted[attempt]
  BY <1>1, BackoffFits
<1> QED BY <1>1, <1>2, MaxBackoffType

LEMMA PatientStep ==
    ASSUME RunnerAssumption, RunnerInv, Patient, Cancelled, [RunNext]_runVars
    PROVE  Patient' /\ Cancelled'
<1> USE DEF Patient, Cancelled, runner
<1>1. ASSUME Flags PROVE Patient' /\ Cancelled'
  <2>1. decision'.Retry.BackoffBase = Second /\ Second \in Nat \ {0}
    BY <1>1, BaseOfDecision DEF Flags, Decides, RunnerAssumption, DecisionAssumption
  <2> QED BY <1>1, <2>1 DEF Flags
<1>2. ASSUME Parsed PROVE Patient' /\ Cancelled'
  <2>1. decision'.Retry.BackoffBase = Second /\ Second \in Nat \ {0}
    BY <1>2, BaseOfDecision DEF Parsed, Decides, RunnerAssumption, DecisionAssumption
  <2> QED BY <1>2, <2>1 DEF Parsed
<1>3. ASSUME NewResilientRunner PROVE Patient' /\ Cancelled'
  BY <1>3 DEF NewResilientRunner, Fits
<1>4. ASSUME PipelineRun PROVE Patient' /\ Cancelled'
  BY <1>4 DEF PipelineRun, Fits
<1>5. ASSUME Succeeds PROVE Patient' /\ Cancelled'
  BY <1>5 DEF Succeeds, Fits
<1>6. ASSUME NEW st \in {"failed", "error"}, NEW e \in Sentinels, Fails(st, e)
      PROVE  Patient' /\ Cancelled'
  BY <1>6 DEF Fails, Fits
<1>7. ASSUME TimerFires PROVE Patient' /\ Cancelled'
  <2>1. /\ phase = "backoff" /\ phase' = "ready" /\ attempt' = attempt + 1
        /\ UNCHANGED <<decision, wait, lateRuns, ctxDone>>
    BY <1>7 DEF TimerFires
  <2>2. attempt \in Nat
    BY DEF RunnerInv, RunsCounted
  <2>3. Patient'
    BY <2>1, <2>2
  <2>4. ASSUME Fits PROVE lateRuns = 0
    <3>1. wait \in Nat \ {0}
      BY <2>1, <2>4, WaitsSomeTime
    <3>2. ~(wait <= 0)
      BY <3>1
    <3> QED BY <1>7, <3>2 DEF TimerFires
  <2>5. Fits' <=> Fits
    BY <2>1 DEF Fits
  <2> QED BY <2>1, <2>3, <2>4, <2>5
<1>8. ASSUME WaitCancelled PROVE Patient' /\ Cancelled'
  BY <1>8 DEF WaitCancelled, Fits
<1>9. ASSUME Cancel PROVE Patient' /\ Cancelled'
  BY <1>9 DEF Cancel, Fits
<1>10. ASSUME UNCHANGED runVars PROVE Patient' /\ Cancelled'
  BY <1>10 DEF runVars, Fits
<1> QED BY <1>1, <1>2, <1>3, <1>4, <1>5, <1>6, <1>7, <1>8, <1>9, <1>10 DEF RunNext

LEMMA PatientInvariant ==
    ASSUME RunnerAssumption PROVE RunSpec => [](RunnerInv /\ Patient /\ Cancelled)
<1>1. RunInit => RunnerInv /\ Patient /\ Cancelled
  BY RunnerInit, PatientInit
<1>2. RunnerInv /\ Patient /\ Cancelled /\ [RunNext]_runVars
         => (RunnerInv /\ Patient /\ Cancelled)'
  BY RunnerStep, PatientStep
<1> QED BY <1>1, <1>2, PTL DEF RunSpec

\* Once the context is done at most one more run begins, for every width of a
\* duration, cap and number of retries whose backoffs fit the width.
THEOREM CancelStopsHolds ==
    ASSUME RunnerAssumption PROVE RunSpec => []CancelStops
<1>1. Cancelled => CancelStops
  BY DEF Cancelled, CancelStops
<1> QED BY <1>1, PatientInvariant, PTL

\* The waits between the retries of ResilientRunner.Run never shrink, begin
\* with the base and end at the cap.
THEOREM BackoffGrowsHolds ==
    ASSUME RunnerAssumption PROVE RunSpec => BackoffGrows
<1> DEFINE Step == phase' = "backoff" /\ phase # "backoff" /\ Fits =>
                      /\ wait <= wait' /\ wait' <= MaxBackoff
                      /\ decision.Retry.BackoffBase <= wait' \/ wait' = MaxBackoff
<1>1. RunnerInv /\ Patient /\ [RunNext]_runVars => [Step]_runVars
  <2> SUFFICES ASSUME RunnerInv, Patient, RunNext,
                      phase' = "backoff", phase # "backoff", Fits
               PROVE  /\ wait <= wait' /\ wait' <= MaxBackoff
                      /\ decision.Retry.BackoffBase <= wait' \/ wait' = MaxBackoff
    OBVIOUS
  <2> DEFINE base == decision.Retry.BackoffBase
             m == decision.Retry.MaxRetries
  <2>1. PICK st \in {"failed", "error"}, e \in Sentinels : Fails(st, e)
    BY DEF RunNext, Flags, Parsed, NewResilientRunner, PipelineRun, Succeeds, TimerFires,
           WaitCancelled, Cancel
  <2>2. phase = "running" /\ attempt < m /\ wait' = Backoff(base, attempt)
    BY <2>1 DEF Fails, RetriesLeft
  <2>3. /\ base \in Nat \ {0} /\ m \in Nat /\ attempt \in Nat
        /\ base * Shifted[attempt] < Shifted[Bits - 1]
        /\ wait = IF attempt = 0 THEN 0 ELSE Backoff(base, attempt - 1)
    BY <2>2 DEF RunnerInv, Decided, RunsCounted, Patient, Fits
  <2>4. MaxBackoff \in Nat
    BY MaxBackoffType
  <2> HIDE DEF base, m
  <2>5. /\ base * Shifted[attempt] \in Nat /\ base <= base * Shifted[attempt]
        /\ wait' = IF base * Shifted[attempt] > MaxBackoff
                     THEN MaxBackoff ELSE base * Shifted[attempt]
    BY <2>2, <2>3, BackoffFits
  <2>6. wait <= wait'
    <3>1. CASE attempt = 0
      BY <2>3, <2>4, <2>5, <3>1
    <3>2. CASE attempt # 0
      <4>1. attempt - 1 \in Nat /\ (attempt - 1) + 1 = attempt
        BY <2>3, <3>2
      <4>2. Backoff(base, attempt - 1) <= Backoff(base, (attempt - 1) + 1)
        BY <2>3, <4>1, NextBackoff
      <4> QED BY <2>2, <2>3, <3>2, <4>1, <4>2
    <3> QED BY <3>1, <3>2
  <2>7. wait' <= MaxBackoff
    BY <2>4, <2>5
  <2>8. base <= wait' \/ wait' = MaxBackoff
    BY <2>3, <2>5
  <2> QED BY <2>6, <2>7, <2>8 DEF base
<1> QED BY <1>1, PatientInvariant, PTL DEF RunSpec, BackoffGrows
-----------------------------------------------------------------------------
(***************************************************************************)
(* Subscription.                                                           *)
(***************************************************************************)
\* What is read before a line that ends the scan are lines of the body, and
\* all of them if there is no such line.
LEMMA BeforeFacts ==
    ASSUME NEW X, NEW s \in Seq(X), NEW S
    PROVE  /\ Before(s, S) \in Seq(X)
           /\ Range(Before(s, S)) \subseteq Range(s)
           /\ Range(s) \cap S = {} => Before(s, S) = s
<1> DEFINE ends == {i \in DOMAIN s : s[i] \in S}
           end  == CHOOSE i \in ends : \A j \in ends : i <= j
<1>1. Before(s, S) = IF ends = {} THEN s ELSE SubSeq(s, 1, end - 1)
  BY DEF Before
<1>2. Len(s) \in Nat /\ DOMAIN s = 1..Len(s) /\ \A i \in 1..Len(s) : s[i] \in X
  BY LenProperties, ElementOfSeq
<1>3. Range(s) \cap S = {} => ends = {}
  BY DEF Range
<1>4. ASSUME ends # {}
      PROVE  /\ SubSeq(s, 1, end - 1) \in Seq(X)
             /\ Range(SubSeq(s, 1, end - 1)) \subseteq Range(s)
  <2>1. end \in 1..Len(s)
    <3>1. ends \in SUBSET Nat
      BY <1>2
    <3>2. \E i \in ends : \A j \in ends : i <= j
      <4> HIDE DEF ends
      <4> QED BY <1>4, <3>1, Least
    <3>3. end \in ends
      <4> HIDE DEF ends
      <4> QED BY <3>2
    <3> QED BY <1>2, <3>3
  <2> HIDE DEF end, ends
  <2> DEFINE t == SubSeq(s, 1, end - 1)
  <2>2. \A i \in 1..(end - 1) : s[i] \in X /\ i \in DOMAIN s
    BY <1>2, <2>1
  <2>3. /\ t \in Seq(X)
        /\ Len(t) = IF 1 <= end - 1 THEN end - 1 - 1 + 1 ELSE 0
        /\ \A i \in 1..(end - 1 - 1 + 1) : t[i] = s[1 + i - 1]
    BY <2>1, <2>2, SubSeqProperties
  <2>4. DOMAIN t = 1..Len(t)
    <3> HIDE DEF t
    <3> QED BY <2>3, LenProperties
  <2> HIDE DEF t
  <2>5. \A i \in DOMAIN t : i \in 1..(end - 1) /\ t[i] = s[i]
    BY <2>1, <2>3, <2>4
  <2>6. Range(t) \subseteq Range(s)
    BY <2>2, <2>5 DEF Range
  <2> QED BY <2>3, <2>6 DEF t
<1> QED BY <1>1, <1>3, <1>4

Bodies == [enc : Encodings, lines : Seq(LineOf)]

LEMMA WellFormed ==
    ASSUME SubsAssumption
    PROVE  /\ Body \subseteq Bodies
           /\ \A n \in 0..MaxLines : \A links \in [1..n -> Link] : Sub(links) \in Bodies
<1>1. ASSUME NEW n \in 0..MaxLines, NEW lines \in [1..n -> LineOf]
      PROVE  lines \in Seq(LineOf)
  <2>1. n \in Nat /\ lines = [i \in 1..n |-> lines[i]] /\ \A i \in 1..n : lines[i] \in LineOf
    BY DEF SubsAssumption
  <2>2. [i \in 1..n |-> lines[i]] \in Seq(LineOf)
    BY <2>1, IsASeq
  <2> QED BY <2>1, <2>2
<1>2. Body \subseteq Bodies
  BY <1>1 DEF Body, Bodies
<1>3. ASSUME NEW n \in 0..MaxLines, NEW links \in [1..n -> Link]
      PROVE  Sub(links) \in Bodies
  <2>1. links \in [1..n -> LineOf]
    BY DEF LineOf
  <2>2. links \in Seq(LineOf)
    BY <1>1, <2>1
  <2> QED BY <2>2 DEF Sub, Bodies, Encodings
<1> QED BY <1>2, <1>3

\* Parse makes up no link, and loses none of a body it can decode whose lines
\* the scanner can hold.
LEMMA Parses ==
    ASSUME SubsAssumption, NEW b \in Bodies
    PROVE  /\ Parse(b).configs \subseteq LinksOf(b)
           /\ b.enc \in {"plain", "padded"} /\ TooLong \notin Range(b.lines)
                 => /\ Parse(b).configs = LinksOf(b)
                    /\ Parse(b).failed => LinksOf(b) = {}
<1> DEFINE lines == Decoded(b)
           configs == Sift(Scanned(lines), Link)
<1>1. /\ Parse(b).configs = Range(configs)
      /\ Parse(b).failed <=> \/ lines = <<>>
                             \/ TooLong \in Range(lines)
                             \/ configs = <<>> /\ Bad \in Range(lines)
  BY DEF Parse
<1>2. b.lines \in Seq(LineOf) /\ Bad \in LineOf
  BY DEF Bodies, LineOf
<1>3. /\ lines \in Seq(LineOf)
      /\ Range(lines) \cap Link \subseteq LinksOf(b)
      /\ b.enc \in {"plain", "padded"} => lines = b.lines
  <2>1. CASE b.enc \in {"plain", "padded"}
    <3>1. lines = b.lines
      BY <2>1 DEF Decoded
    <3> QED BY <1>2, <3>1 DEF LinksOf
  <2>2. CASE b.enc \notin {"plain", "padded"}
    <3>1. lines = <<>> \/ lines = <<Bad>>
      BY <2>2 DEF Decoded
    <3>2. Range(<<>>) = {} /\ Range(<<Bad>>) = {Bad}
      BY DEF Range
    <3>3. <<>> \in Seq(LineOf) /\ <<Bad>> \in Seq(LineOf)
      BY <1>2
    <3> QED BY <2>2, <3>1, <3>2, <3>3 DEF SubsAssumption
  <2> QED BY <2>1, <2>2
<1> HIDE DEF lines
<1>4. /\ Scanned(lines) \in Seq(LineOf)
      /\ Range(Scanned(lines)) \subseteq Range(lines)
      /\ TooLong \notin Range(lines) => Scanned(lines) = lines
  BY <1>3, BeforeFacts DEF Scanned
<1>5. Range(configs) = Range(Scanned(lines)) \cap Link
  BY <1>4, SiftRange
<1>6. configs = <<>> \/ lines = <<>> => Range(configs) = {}
  <2>1. Range(<<>>) = {}
    BY DEF Range
  <2> HIDE DEF configs
  <2> QED BY <1>4, <1>5, <2>1
<1> HIDE DEF configs
<1> QED BY <1>1, <1>3, <1>4, <1>5, <1>6 DEF LinksOf

SubsInv == bodies \subseteq Bodies /\ GoodLinesSurvive

LEMMA SubsStep ==
    ASSUME SubsAssumption PROVE SubsInv /\ [SubsNext]_subsVars => SubsInv'
<1> SUFFICES ASSUME SubsInv, [SubsNext]_subsVars PROVE SubsInv'
  OBVIOUS
<1>1. ASSUME NEW b \in Bodies, Merges(b) PROVE SubsInv'
  <2>1. /\ bodies' = bodies \cup {b}
        /\ found' = found \cup IF Parse(b).failed THEN {} ELSE Parse(b).configs
    BY <1>1 DEF Merges
  <2>2. \A x \in bodies' :
           x.enc \in {"plain", "padded"} /\ TooLong \notin Range(x.lines)
              => LinksOf(x) \subseteq found'
    BY <2>1, Parses DEF SubsInv, GoodLinesSurvive
  <2>3. found' \subseteq UNION {LinksOf(x) : x \in bodies'}
    BY <2>1, Parses DEF SubsInv, GoodLinesSurvive
  <2> QED BY <2>1, <2>2, <2>3 DEF SubsInv, GoodLinesSurvive
<1>2. ASSUME UNCHANGED <<found, bodies>> PROVE SubsInv'
  BY <1>2 DEF SubsInv, GoodLinesSurvive
<1>3. SubsNext => (\E b \in Bodies : Merges(b)) \/ UNCHANGED <<found, bodies>>
  BY WellFormed DEF SubsNext, Call, FetchFails, FetchBody, FetchOwn
<1> QED BY <1>1, <1>2, <1>3 DEF subsVars

\* FetchAndParse finds every link of the bodies it can decode and scan,
\* whatever the other lines and the other subscriptions are like.
THEOREM GoodLinesSurviveHolds ==
    ASSUME SubsAssumption PROVE SubsSpec => []GoodLinesSurvive
<1>1. SubsInit => SubsInv
  BY DEF SubsInit, SubsInv, GoodLinesSurvive
<1>2. SubsInv /\ [SubsNext]_subsVars => SubsInv'
  BY SubsStep
<1>3. SubsInv => GoodLinesSurvive
  BY DEF SubsInv
<1> QED BY <1>1, <1>2, <1>3, PTL DEF SubsSpec
=============================================================================
