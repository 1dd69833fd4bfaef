# Viberayd in TLA+

Viberayd fetches subscriptions of proxy share links, tests them through TCP, TLS, protocol handshakes and real
xray-core tunnels, and serves the links that work. `viberayd` is the daemon (HTTP API, cycles, persistence);
the same repository holds a library of caches, pools and retry helpers around the tester.

This directory holds TLA+ modules translated from the Go source, TLC configurations that check small instances,
and TLAPS proofs for every value of the constants. `PROJECT.json` maps each definition to the source lines it
models and each property to a mutated definition (a plausible bug) that breaks it; the mutants stand in the
modules, right before what they mutate.

Contents: [The system](#the-system) · [The modules](#the-modules) · [What each run checks](#what-each-run-checks) ·
[Fairness](#fairness) · [What is proved](#what-is-proved) · [Where code and documentation disagree](#where-code-and-documentation-disagree) ·
[What is abstracted](#what-is-abstracted) ·
[Not modelled](#not-modelled) · [Plan](#plan)

## The system

### The daemon

| component | state it keeps | operations | interacts with |
|---|---|---|---|
| daemon loop (`daemon/loop.go`) | `State` (map of entries), `configs` parsed by this process, `trigger` channel of capacity 1, the context | `Run`, `RunCycle`, `Trigger`, `writeOutputFile`, `shutdown` | urls file, fetcher, TCPPing, XrayTest, state file, output files |
| state store (`state.go`, `limit.go`, `MergeIntoState` in `fetcher.go`) | an entry per link: unknown, unreachable, failed, working; last test, latency | `SelectCandidates`, `MergeIntoState`, `ApplyResults`, `limitSurvivors`, `SaveState`, `LoadState` | `state.json` |
| signals (`signals.go`) | one goroutine, one context | `SignalContext` | every `ctx` in the process |
| HTTP API (`http.go`, `metrics.go`) | nothing of its own | `/api/urls` (GET, POST, PUT, DELETE), `/api/cycle/trigger`, `/api/stats`, `/api/configs`, `/metrics`, `/sub` | urls file, trigger, state under `StateMu.RLock`, `working.txt` |
| test round (`tester.go: XrayTest`, `tester/xray.go`) | goroutine per config, semaphore, result map under a mutex | acquire, allocate a port, run the pipeline, report | port manager, config files `xray-<port>.json`, xray processes |
| TCP ping (`tester.go: TCPPing`) | goroutine per config, semaphore, result map | dial with a timeout | result map |
| port manager (`concurrency/port.go`) | `allocated`, cursor `next`, mutex | `Allocate`, `Reserve`, `Release` | operating system (trial bind) |
| pipeline (`tester/pipeline.go` and the stage files) | locals of one run | TCP, TLS, protocol, proxy, domains, stability passes | context deadline from `Budget` |
| link parsers (`pkg/parser`) | none | `ParseSingle` and one parser per protocol | pipeline and xray config read the fields |
| xray config (`tester/xray_config.go`) | none | `buildOutbound` per protocol | xray-core |

### The library around it

The repository also ships packages that no path of the daemon calls: result cache and DNS cache (`internal/cache`), xray
pool and worker pool (`internal/concurrency`), `ResilientRunner` with the error classification
(`tester/resilience.go`, `internal/errors`), `orchestrator`, and `output` (exporters, checkpoints).

| component | state it keeps | operations | interacts with |
|---|---|---|---|
| subscriptions (`fetcher.go`, `parser.Parse`) | links found by a call | `FetchAndParse`, `Fetch`, `Parse`, `/sub` of another instance | HTTP, `MergeIntoState` |
| configuration (`daemon/config.go`) | none after the start | `LoadConfigFromEnv`, `validate`, `DomainList` | every part of the daemon reads it |
| result cache, DNS cache | map, list, timestamps under a mutex | `Get`, `Put`, `Lookup` | resolver |
| xray pool (`xray_pool.go`) | idle and used instances under a mutex | `Acquire`, `Release`, `Shutdown` | xray processes |
| worker pool (`pool.go`) | semaphore, WaitGroup, first error | `Submit`, `Wait`, `Err` | the goroutines of its tasks |
| resilient runner (`resilience.go`) | retries of one run, the shared parallelism | `Run` | `Pipeline.Run`, `Categorize`, `Recommend` |
| orchestrator (`decision.go`) | none | `BuildContext`, `Decide` | the runner's retry policy |

All of these are modelled but `output`, logging and the command-line tools.

### What is hard here, and what makes each part correct

- **Daemon**: signals, triggers, failing system calls and the death of the process can fall between any two steps
  of a cycle; a save that overruns its three seconds goes on beside the next cycle and encodes the state without a
  lock. Correct means: only links that passed a tunnel test are served or persisted as such; between cycles the
  published files and the state file agree with memory unless a write failed; tests are never unlearned; triggers and
  signals are not lost; every link comes up again.
- **urls file**: handlers and cycles read and write one file with no lock. Correct means: an acknowledged URL stays,
  a handler changes exactly the entries it was asked to, nobody reads half a list.
- **Test round**: slots, ports, config files and processes of many goroutines, with passes cut off by their context.
  Correct means: bounded parallelism, an own port and own file per process, no success without all passes, nothing left
  behind, and the end of the round.
- **Pipeline**: which stages run is decided in several places from depth, protocol, TLS and domains, and the deadline is
  computed from a count of stages. Correct means: success is earned, a good config is not cut off or rejected, xray is
  spawned only after the cheap stages.
- **Caches and pools**: state is read under a lock, used after it; goroutines are counted before they run. Correct means:
  bounded, map and list agree, nothing older than the caller may expect, no process without an owner, no `Wait`
  that returns over a task that was submitted before.
- **Runner and decisions**: retries, backoff in 64-bit arithmetic, a context that may end at any point, and tables of
  sizes. Correct means: as many retries as decided and none after the end of the context, growing waits up to a cap, a
  larger batch never tested deeper.
- **Subscriptions and configuration**: lines, bodies and variables anybody may have written. Correct means: what is broken
  costs nothing but itself, and the settings the parts get fit together.

`PROJECT.json` lists 40 hazards at their source lines, with the properties that cover them or the reason none does.

## The modules

```
ConfigStore ── DaemonCycle ── DaemonCycleProofs          TestRound ◄─ implements ─ XrayTest ── XrayTestProofs
                                                                                     │ uses
UrlList ◄─ implements ─ UrlsFile ── UrlsFileProofs       PortAllocator ◄─ implements ─ PortManager ── PortManagerProofs
   └────── Sifting ────────┘
                                                         LruEntries
ProxyConfig ── Pipeline ── PipelineProofs                   ├─ DNSCache    (implements LruEntries!LruSpec)
                                                            └─ ResultCache (implements LruEntries!LruSpec)
Decision ── ResilientRunner ─┐                                    └─ ResultCacheProofs, about all three
Sifting ─── Subscription ────┤
XrayPool, WorkerPool ────────┼─ LibraryProofs            RecursionProofs: induction, recursion and Sift, used by
DaemonConfig ────────────────┘                           UrlsFileProofs, LibraryProofs and PipelineProofs

MCLibrary = ResultCache, DNSCache, XrayPool, WorkerPool, ResilientRunner, Subscription, DaemonConfig side by side
```

`MC*.tla` extend a module and only name model values for its configuration files. `MCLibrary` extends the modules of the
library, which share neither a name nor state, and runs one of them per behaviour.

**ConfigStore** – the pure functions on the map of entries: `SelectCandidates`, `MergeIntoState`, `MarkUnreachable`
(the loop after the ping pass in `runCycle`), `LimitSurvivors`, `ApplyResults`, `Published`. Links are numbers because
only the order of their hashes matters (ties in `limitSurvivors`).

**DaemonCycle** – the process. `pc` is the position of the goroutine that executes `Run`; an action is the code between
two points where somebody else can act. `Start`/`Exit`/`Crash` are lives of the process; `LoadURLs`, `FetchURL`,
`Select`, `Ping`, `Xray` are the phases of `runCycle`; `OpenOutput`, `WriteOutput`, `WriteSidecar`, `PublishFails` the
system calls of `writeOutputFile` (its callers are told apart by `after`); `BeginSave`, `SaveReturned`, `SaveTimedOut` and
the `Saver…` actions are `SaveState` on its goroutines, where `SaverReread` lets the unlocked encoding mix old and
new fields. `Ping` and `Xray` are one action each with every outcome the passes can have; `XrayTest` opens the second up. A
concurrent map access by the HTTP readers, which Go answers with the end of the process, is one of the causes of `Crash`.
History variables (`passed`, `verdict`, `pubFailed`, `lostSave`) are read by properties only.

**UrlsFile / UrlList** – the handlers of `/api/urls`, one system call per action (`os.WriteFile` is a truncation and a
write), and the list they promise. A line is a sequence of tokens so that an append to a line without newline can be told
from a line of its own. **Sifting** – `Sift(s, S)`, the elements of `s` that are in `S`: what the loops with a `continue` in `LoadURLs`,
`replaceURLs` and `Parse` keep.

**PortManager / PortAllocator** – `Allocate` port by port under the mutex, with the cursor moved before the port is looked
at, while other programs open and close ports; and the allocator that lends a free port in one step.

**XrayTest / TestRound** – a round of tunnel tests: `Spawn`, the semaphore (`Acquire`, `LeaveCancelled`, `FreeSlot`), the
port (`GetPort`, through the abstract allocator), each pass of `withTempXray` in its order (`WriteConfig`, `StartXray`,
`Connected`, `Fetch`, `KillXray`, `RemoveConfig`), `Report` and the deferred calls. `TestRound` is the promise that
`DaemonCycle!Xray` relies on: at most one result per config, none after the return.

**ProxyConfig** – what each parser's result has (TLS, and which of the fields that tests ask for), what each
protocol's test asks for, and which outbound and security xray is told. **Pipeline** – `Pipeline.Run` for one of these configs, stage by
stage with a clock: each stage fails at once, fails or succeeds after some time up to its timeout, or is cut by the deadline of `Budget`;
`MedianDuration` and `Passed` are the algorithms in it.

**LruEntries** – map, list and timestamps as both caches keep them, with *any* sequence of the helpers a caller may apply
to an entry it still holds. **DNSCache** – `Lookup` in the steps between which the mutex is free. **ResultCache** – `Get` and
`Put`; `Get` uses its entry after the unlock and reads the result in two parts while `Put` may be writing it.

**XrayPool** – `Acquire` (check, unlock, start, register), `Release`, `Shutdown`, and processes that die. `IsRunning`
sends a nil signal, which `os.Process.Signal` always refuses, so it is `FALSE`, as in the program.

**WorkerPool** – `Submit` between taking a slot, counting the task and starting it, the deferred calls in their order, and a
goroutine that calls `Wait` at any moment.

**Decision / ResilientRunner** – `BuildContext` and the five functions of `Decide` as operators; a batch that grows config by
config, then `Run` on one of them: every outcome of the pipeline, the classification of its error, the halving of the
parallelism, the backoff in arithmetic that wraps at `Bits`, and the `select` between timer and context.

**Subscription** – a body is its encoding and its lines, a line a link, a comment, something no parser takes or longer
than the scanner's buffer; `Decoded`, `Scanned` and `Parse` say which links come out, `Merges` what `FetchAndParse` makes of
several bodies and failures.

**DaemonConfig** – any environment, edited variable by variable while the daemon is down, and `LoadConfigFromEnv` with each
clamp of `validate`.

## What each run checks

| run | module | instance | shows |
|---|---|---|---|
| `daemon_cycle` | DaemonCycle | 2 links, 2 process lives, 2 savers, a latency ceiling, a cap of one tunnel test, 1 clock tick, with and without `-once` | `ServedPassed`; `WorkingIsLatestVerdict`: no failed attempt is overwritten; `NoRegression`: the persisted state unlearns nothing |
| `daemon_live` | DaemonCycle | 1 link, 1 life, 2 failing system calls anywhere, slow disk, tests without port | `PublishedIsCurrent`, `SavedIsCurrent` under faults and abandoned saves; `TriggerServed`, `SignalStops`, `EveryLinkRetested` |
| `daemon_unpinged` | DaemonCycle | 2 links, 2 lives | violation: see findings |
| `urls_list` | UrlsFile | 2 URLs, 2 requests at a time, 4 in all, one crash; all four kinds of request overlap, the file may lack its last newline | `AddedIsKept`: an acknowledged URL is lost in the four known ways only; `ImplementsList` until the first overlap with a rewrite |
| `urls_torn_read` | UrlsFile | a GET beside a PUT | violation: see findings |
| `ports` | PortManager | 3 goroutines, 3 ports, other programs at every step | `RefusesOnlyWhenFull`, `ImplementsAllocator`, `AllocateReturns`, no deadlock |
| `xray_round` | XrayTest | 3 configs, 2 slots, 3 ports: one in use elsewhere, one that may be taken at any time; cancellation at every step | `OwnPortOwnConfig`, `StraysOnlyToIntruders`, `SuccessPassedAll`, `LeavesNothingBehind`, `EveryConfigReported`, `ImplementsRound`, `Terminates` |
| `pipeline_depths` | Pipeline | all 9 protocols with all their parser results, 4 depths and the empty one, 4 passes, 3 domains with quorum 2, stages of different length | `SuccessIsEarned`, `TunnelAfterCheapStages`, `LatencyIsMedian`, `GoodIsAccepted`, `OnlyRealityIsCut`, `UntestableFailsFast` |
| `pipeline_budget` | Pipeline | one REALITY config | violation: see findings |
| `library` | MCLibrary | the parts one by one, see the bounds | caches: `ReturnsLatest`, `DropsOnlyExpired`, `LruSpec`, `EvictsLeastUsed`, `DnsIsLru`; pools: `EveryProcessHeld`, `ShutdownStopsRegistered`, `WaitCovers`; runner: `CancelStops`, `GivesUpLast`, `BackoffGrows`, `LargerIsNoDeeper`; `GoodLinesSurvive`; `SettingsFit` |
| `subscription_unpadded` | MCLibrary | the same | violation: see findings |
| `resilient_load` | MCLibrary | the same | violation: see findings |

The type invariants (`TypeOK`), `Exclusive`, `AtMostParallel`, `StageNamesFailure`, `FieldsStopOnlySS` and `Bounded` are proved for all
instances and therefore not among the properties of the runs.

Every action of every module fires in one of the passing runs. `CHECK_DEADLOCK FALSE` is set where behaviours end: a process that has used up its starts,
a round that returned, a run that has its result, or a bound on calls. `ports` never ends and is checked for deadlock.

### Bounds, and why they are enough

- `daemon_cycle`: two links are needed for `limitSurvivors` to drop one and for a cycle to change one entry while a save
  encodes the other; two lives for a restart that loads what a crash left; two savers for an abandoned save beside a
  new one. Faults are left to `daemon_live`, where one link and one life are enough for the properties about a single
  entry. The theorems below hold for any number of each.
- `daemon_live`: one saver, since a second one only matters for the order of renames, which `daemon_cycle` covers. Its
  re-test interval is zero, so that time plays no part in the liveness properties.
- `urls_list`: with four requests a list has two entries when a DELETE with either id, or a PUT with a comment or an
  invalid entry in its batch, arrives, and any two of the four kinds overlap in every way while a URL added before is
  in the list. What is lost when a rewrite is overlapped is recorded in `atRisk`; the property is that nothing else is.
  Three requests are too few to lose a URL to a DELETE that reads an emptied file.
- `ports`: with a range of three the cursor wraps inside a scan in every position and a range is exhausted by own
  and foreign ports together; three clients let two wait for one.
- `xray_round`: `Passes = 1`. What a second pass adds on the same port (the process and file of the first must be gone) is
  `OwnPortOwnConfig` and `SuccessPassedAll`, both proved for every number of passes. Three configs are one
  more than the slots, so that one waits; as many ports as slots can be had, so that a slot too many shows as a config
  without a port (`EveryConfigReported`), and one port too few happens (`NoPortLeft`).
- `pipeline_depths`: four passes, so that the median lies between two samples (the odd case is the simpler branch) and each
  pass has three latencies; the timeouts differ so that the deadline's unit is not the timeout of every stage.
- `library`, caches: two callers, two keys and a cache for one (result cache), three hosts and a cache for two (DNS): more
  keys than places, and a bound on entries one larger than what fits, so that evicted entries are still held by
  callers; three puts and three gets let one Get meet two writers.
- `library`, pools: three callers of a pool of two with four starts, so that two pass the check of the capacity together
  and an instance is started beside a `Shutdown`; three tasks on two workers, so that one waits for a slot while `Wait` runs.
- `library`, runner: `Small` 2 and `Medium` 4 with batches of up to five, so that both limits are passed one config at a
  time; retries of -1 (the table), 0, 3, 6 and 9 against durations of eight bits in which a second is 3: six retries reach
  the cap of 30 seconds and still fit, nine overflow, as 35 do with 64 bits and a second of 10^9. The properties of the
  backoff are stated for runs that fit.
- `library`, subscriptions and settings: two bodies of two lines, so that a good and a bad one stand in either order;
  each setting inside, at and beyond its limits, up to three variables set at once.

## Fairness

- `DaemonCycle!FairSpec`: weak fairness of what Run's goroutine does next and of each save goroutine. Go schedules runnable
  goroutines, and every call in these steps has a timeout or is a local file operation. Nothing is assumed of the
  sleep timer, triggers, signals, crashes or restarts; that the timer fires is a premise of `EveryLinkRetested` only.
- `PortManager!LiveSpec`: weak fairness of the steps under the mutex; *strong* fairness of `Lock`, because `sync.Mutex` hands itself to a
  waiter that has starved for a millisecond.
- `XrayTest!LiveSpec`: weak fairness per goroutine and of the main one. Dials, requests and passes have timeouts; a
  channel semaphore serves its senders in order, and with a finite round weak fairness of each goroutine suffices.
  Nothing is assumed of xray: it may never listen, and die at any time.

## What is proved

All proofs are for every value of the constants under the named assumptions of the modules (`StoreAssumption`,
`CycleAssumption`, `PortsAssumption`, `RoundAssumption`, `PipelineAssumption`, `LruAssumption`, `ResultAssumption`,
`PoolAssumption`, `WorkerPoolAssumption`, `RunnerAssumption`, `SubsAssumption`, `ConfigAssumption`, `UrlsAssumption`; TLC
evaluates each of them in a run).
`PROJECT.json` lists the theorems with what each says; here is what they rest on.

| module | theorem | argument |
|---|---|---|
| DaemonCycleProofs | `TypeCorrect` | `TypeInv`: `TypeOK`, and `after` names a place to return to while `writeOutputFile` runs |
| | `ServedPassedHolds` | `ServedPassed` is inductive with the types: it follows a link from a successful test through memory, snapshots, files and back through a restart; a torn encoding is working only if the entry was before or is after |
| | `WorkingIsLatestVerdictHolds` | `LatestInv`: a ping that failed takes its link out of the working ones in the same step, whatever the cap leaves of the survivors, and a dead process has no verdicts |
| | `PublishedIsCurrentHolds` | `PublishedInv`: at every place from which the sleep can be reached without writing the files, nothing that changes the published lines has happened since they were written |
| | `SavedIsCurrentHolds` | `SavedInv`: as long as no save was lost, no saver is left over between cycles, its snapshot is the state, and the ways out that skip the save have nothing to save |
| | `NoRegressionHolds` | `SnapshotInv`: with a disk that keeps its three seconds only a signal abandons a save, after which no cycle begins, so every snapshot under way is the state itself; `AgeInv`: no test is dated later than the clock, so the state only grows, and a running process never knows less than the file it loaded |
| UrlsFileProofs | `TypeCorrect` | `TypeInv`: the file is a file, and each request holds what its operation can have worked out: a DELETE a list without the entry it read, a PUT the lines of its batch |
| | `AddedIsKeptHolds` | `KeptInv`: while nobody has the file emptied, every acknowledged URL that is not at risk has a line of its own, and every list a DELETE keeps to write back has it too, or it is the one taken out; a file without its last newline has no acknowledged URL yet |
| | `ImplementsListHolds` | `ListInv`: until the first overlap, what a DELETE keeps is the list of the moment without its entry, and a file that is being rewritten is empty; the lemmas `AppendLoads`, `WriteOverLoads`, `Deleted` and `Replaced` say what each file operation does to `LoadURLs` for files of any length |
| PortManagerProofs | `ExclusiveHolds`, `RefusesOnlyWhenFullHolds`, `ImplementsAllocatorHolds` | `ScanInv`: the ports tried by a scan are exactly those from where it began to the cursor, through the wrap |
| XrayTestProofs | `AtMostParallelHolds`, `OwnPortOwnConfigHolds`, `SuccessPassedAllHolds`, `LeavesNothingBehindHolds`, `ImplementsRoundHolds` | `IInv`: the semaphore counts the goroutines between its two ends, ports are held exactly between allocation and return, a process or file exists only at the places that own one |
| | `StraysOnlyToIntrudersHolds` | `StrayInv`: a port that is lent was free at that moment, so who else listens on it later is an intruder; a listener that answered is the own process unless an intruder has the port |
| | `EveryConfigReportedHolds` | `ReportInv`: a config that leaves without a result was cancelled or found the range full; in the second case the ports that are left are mapped one to one to the other goroutines that hold a port, of which there are fewer than slots |
| PipelineProofs | `SuccessIsEarnedHolds`, `StageNamesFailureHolds`, `TunnelAfterCheapStagesHolds` | `Counted`, `Climbed`, `Named`: how many verifications and which cheap stages lie behind each place |
| | `LatencyIsMedianHolds` | `Largest`, `NthRank`, `Median`: the element of a given rank exists and is what the definition takes; the induction is one over the naturals, made with the least counterexample (`RecursionProofs!Least`) |
| | `GoodIsAcceptedHolds` | `BlameInv`: a failure was a stage's own or the deadline's |
| | `FieldsStopOnlySSHolds` | parser by parser: what its result has against what the test asks for |
| | `OnlyRealityIsCutHolds`, `UntestableFailsFastHolds` | an upper bound on the clock at each place, against `Budget` as a multiple of the longest stage |
| ResultCacheProofs | `BoundedHolds` (LruEntries) | `LInv`: list without repetition, every entry the map returns is on it under its key, also when helpers get stale entries |
| | `ImplementsLru`, `CacheBoundedHolds` | each step is a step of `LruEntries` or leaves its variables alone |
| | `ReturnsLatestHolds` | `Current`, `Ordered`: an entry in a caller's hands never holds less than what was stored when its Get began |
| | `DropsOnlyExpiredHolds` | `DropInv`: what a Get saw as expired is expired until a Put of its key touches it |
| | `DnsImplementsLru` | `DnsInv`: an entry the map returns has been made, and a host that is resolved is a key; the helpers are those of `LruEntries` |
| | `EvictsLeastUsedHolds` (DNSCache) | the list is the reverse of the history of last uses cut down to the entries on it, so its last one was used before the others |
| LibraryProofs | `WaitCoversHolds` | `WorkerInv`: the WaitGroup counts the tasks between `Add` and `Done`, and every covered task is among them or over |
| | `SettingsFitHolds` | each clamp bounds its setting for any integer |
| | `EveryProcessHeldHolds`, `ShutdownStopsRegisteredHolds` | `PoolInv`: instances are numbered as they start, a number is in the hands of at most one caller, and what runs is in somebody's; what `Shutdown` does not find in the map it meets between start and map |
| | `DecisionIsUsable` | table by table |
| | `GivesUpLastHolds` | `RunnerInv`: runs and retries are counted alike and no retry is begun that is not left |
| | `LargerIsNoDeeperHolds` | the decision under way is that of the batch so far; each table is monotone in the size, also under the bump for REALITY |
| | `BackoffGrowsHolds`, `CancelStopsHolds` | `Patient`: the wait is the backoff of the retries begun, which doubles up to the cap as long as it fits the word (`Shifts`, `BackoffFits`, `NextBackoff`); so it is never nothing, a timer that has not fired cannot beat a context that is done, and `Cancelled`: only the run that was let go before can begin late |
| | `GoodLinesSurviveHolds` | `Parses`: what `Parse` returns for a body of any length is the set of links before the first oversized line, by the lemmas about `Sift`; the invariant is the property with the type of the bodies |
| RecursionProofs | `Least`, `Induction`, `SeqInduction`, `Recursion`, `Kept`, `SiftAppend`, `SiftRange`, … (lemmas) | induction for *sets* of numbers and of sequences, and recursion for a step that is a *function*, neither of which takes an operator as a parameter; with them a recursive function gets its equations and `Sift` what it keeps of a sequence of any length |

What implements what: `PortManager` implements `PortAllocator`, on which `XrayTest` is built; `XrayTest` implements `TestRound`;
`ResultCache` and `DNSCache` implement `LruEntries`; `UrlsFile` implements `UrlList` until the first overlap with a rewrite. All of
these are theorems, and TLC checks them too.

Only model-checked: liveness (`TriggerServed`, `SignalStops`, `EveryLinkRetested`, `AllocateReturns`, `Terminates`), which is outside
the prover's reach. Every other property of the passing runs is stated by a theorem: `EvictsLeastUsed` and `DnsIsLru`, which the run
checks of an instance in `MCLibrary`, by `EvictsLeastUsedHolds` and `DnsImplementsLru` about `DNSCache` itself.

What the theorems do not say: `NoRegression` is proved for a disk that is not slow, and with a slow one it does not hold;
`BackoffGrows` and `CancelStops` are about runs whose backoffs fit the word, and with more retries they do not hold; `ImplementsList`
says nothing after the first overlap, and `AddedIsKept` nothing about a URL once it is at risk.

## Where code and documentation disagree

Five runs are expected to find a violation of what the repository says:

1. `daemon_unpinged` – after the ping pass every candidate without a successful ping becomes unreachable, also one that
   was never pinged: after a restart `configs` is empty until its subscription is fetched again, and a cancelled
   pass skips pings. The README says the pass "removes dead hosts".
2. `urls_torn_read` – `replaceURLs` "atomically replaces the whole urls file", with `os.WriteFile`: a reader may meet the
   emptied file, and a process that dies there leaves it empty.
3. `pipeline_budget` – `Budget` is "a generous upper bound for one config's whole run", but counts one unit for a protocol
   stage that makes two connections with the whole `ProtoTimeout` each; a REALITY config within all its timeouts can be cut.
   `OnlyRealityIsCut` proves that it is the only kind of config this happens to.
4. `subscription_unpadded` – the links of a subscription are decoded in all four alphabets of base64 ("the alphabets real
   subscriptions use"), but the body around them only in the padded standard one: any other body is one unparsable line.
5. `resilient_load` – "If a resource/runtime error occurred, optionally reduce parallelism": the runner classifies a new
   error made of the text of the old one, which wraps no sentinel, so the parallelism is never reduced.

Met while modelling, with no line of the repository that promises otherwise:

- urls file: a DELETE that overlaps a POST or a PUT overwrites what they wrote; a POST after a last line without newline
  glues its URL to that line. A DELETE that reads the file in the moment in which a PUT or another DELETE has it emptied, and a few
  POSTs have written to it since, writes back those few: a URL that was added long before either request is gone, although the PUT
  had it in its batch and was answered. (An attempt to prove `AddedIsKept` with two ways of losing a URL got stuck on that step; with a
  fourth request TLC found the behaviour, and the property now names it.)
- daemon: `StateMu` is never locked for writing; a second SIGINT during a slow shutdown is swallowed (`signals.go:17`).
- settings: the quorum may exceed the number of domains, and then depth `full` accepts nothing; the ports of the pool may
  overlap those of the HTTP server; a domain of less than eight characters without a scheme is sliced beyond its end, which ends the
  daemon (`domaincheck.go:83`).
- subscriptions: one line of more than 64 KB costs the body all its links, also those before it.
- xray pool: it may exceed `maxSize` when two `Acquire` pass the check together, and never reuses an instance.
- runner and decisions: the halving of the parallelism is a Load and a Store, of two at once one may be lost; with more
  than 34 retries of a base of one second the backoff overflows to no wait at all; `MaxRetries: 0` in the preferences is a wish for
  no retries although "zero-values mean auto" (`decision.go:21`).

## What is abstracted

Data is cut down to what properties tell apart: links, URLs, keys, ports and configs are model values or small
numbers, a subscription yields any set of links (what it does to a body is in `Subscription`), a test any verdict and one of
a few latencies, time is a counter. Log lines, HTTP statuses and formats, JSON, the letters of base64 and URLs, and the contents of the
xray configuration other than outbound and security are left out. A file rename is atomic and durable. HTTP, DNS, xray-core and
other programs are nondeterministic environments, marked external in the map. The entry fields no code path reads back are left
out of the store.

## Not modelled

- `output` (exporters, checkpoints), logging, the models' declarations: formatting and plain file writes without control worth a model.
- `cmd/bench`, `cmd/qualitycheck`: command-line tools around the library, without state of their own.
- The counts that `/api/stats`, `/api/configs` and `/metrics` return: sums over a map; that they walk it while a cycle writes it is
  the action `Crash`.
- URL and JSON syntax of the link parsers and the fields of the xray JSON that no test depends on: they are below the
  level of these models; what a parser fills in and a test asks for is in `ProxyConfig`.
- File names and HTTP ports of the configuration: they pass through `LoadConfigFromEnv` unchecked.
- The semaphore of `TCPPing`: its goroutines share nothing but a result map, which they lock; `DaemonCycle!Ping` has every outcome.

## Plan

In the order of the build, most important first; all of these are done: ConfigStore, DaemonCycle and its proofs; UrlsFile;
PortManager and its proofs; XrayTest and its proofs; ProxyConfig, Pipeline and its proofs; the caches and their proofs; XrayPool,
WorkerPool, Decision, ResilientRunner and DaemonConfig with their proofs; Subscription; RecursionProofs and, resting on it, the
proofs about UrlsFile, Subscription and the backoff.

What could follow: `TCPPing` as an implementation of the set-valued step in `DaemonCycle!Ping`, with its semaphore; what a page of
`/api/configs` may mix of two moments, should the map get the lock it lacks; a stronger abstraction of the urls file that says what is
left of the list after an overlap; and that `DaemonCycle!FetchURL` may rely on `Subscription` for the links it merges, as a refinement.
