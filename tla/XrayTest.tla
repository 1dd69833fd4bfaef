------------------------------ MODULE XrayTest ------------------------------
(***************************************************************************)
(* One round of tunnel tests (daemon.XrayTest): a goroutine per config, a  *)
(* semaphore of Parallel, a port for each test, and one xray process after *)
(* another on that port for the passes of Pipeline.Run (withTempXray).     *)
(* Ports come from the abstract allocator that PortManager implements.     *)
(***************************************************************************)
EXTENDS Integers, FiniteSets

CONSTANTS
    Config,       \* the configs of the round: their places in the list
    Port,         \* the range of the port manager
    NoPort,
    Parallel,     \* tests at a time
    Passes,       \* tunnel passes of one test: 0 for depth "quick"
    Busy,         \* ports other programs listen on when the round begins
    Intruded      \* ports they may begin to listen on later

ASSUME RoundAssumption ==
    /\ Config \subseteq Nat /\ IsFiniteSet(Config) /\ NoPort \notin Port
    /\ Parallel \in Nat \ {0} /\ Passes \in Nat
    /\ Busy \subseteq Port /\ Intruded \subseteq Port

\* Who may listen on a port beside the xray of a config.
Nobody  == -1
Foreign == -2

VARIABLES
    main,         \* XrayTest itself: "spawn", "wait" or "returned"
    pc,           \* where each goroutine is
    sem,          \* slots of the semaphore in use
    held,         \* the port of each test
    pass,         \* the pass each test is in
    good,         \* no pass of the test has failed
    xray,         \* the xray process of each test
    listener,     \* who accepts connections on a port
    cfgFile,      \* the config each xray-<port>.json was written for
    results,
    cancelled,    \* the context of the cycle is cancelled
    \* history
    strayed       \* ports on which a pass met a listener that is not its xray

slot   == <<pc, sem>>
tunnel == <<pass, good, xray, listener, cfgFile, strayed>>
vars   == <<main, pc, sem, held, tunnel, results, cancelled>>

Allocator == INSTANCE PortAllocator WITH Client <- Config

Init ==
    /\ main = "spawn"
    /\ pc = [c \in Config |-> "unborn"]
    /\ sem = 0
    /\ held = [c \in Config |-> NoPort]
    /\ pass = [c \in Config |-> 0]
    /\ good = [c \in Config |-> TRUE]
    /\ xray = [c \in Config |-> "none"]
    /\ listener = [p \in Port |-> IF p \in Busy THEN Foreign ELSE Nobody]
    /\ cfgFile = [p \in Port |-> Nobody]
    /\ results = [c \in Config |-> "none"]
    /\ cancelled = FALSE /\ strayed = {}

Goto(c, there) == pc' = [pc EXCEPT ![c] = there]

-----------------------------------------------------------------------------
(***************************************************************************)
(* The environment.                                                        *)
(***************************************************************************)
Cancel ==
    /\ ~cancelled /\ main # "returned"
    /\ cancelled' = TRUE
    /\ UNCHANGED <<main, slot, held, tunnel, results>>

\* Another instance, or an xray that outlived a crashed one, starts to listen.
Intrude ==
    /\ \E p \in Intruded :
          /\ listener[p] = Nobody
          /\ listener' = [listener EXCEPT ![p] = Foreign]
    /\ UNCHANGED <<main, slot, held, pass, good, xray, cfgFile, strayed,
                   results, cancelled>>

-----------------------------------------------------------------------------
(***************************************************************************)
(* XrayTest.                                                               *)
(***************************************************************************)
\* wg.Add and go, in the order of the list.
Spawn(c) ==
    /\ main = "spawn" /\ pc[c] = "unborn"
    /\ \A d \in Config : d < c => pc[d] # "unborn"
    /\ Goto(c, "select")
    /\ UNCHANGED <<main, sem, held, tunnel, results, cancelled>>

AllSpawned ==
    /\ main = "spawn" /\ \A c \in Config : pc[c] # "unborn"
    /\ main' = "wait"
    /\ UNCHANGED <<slot, held, tunnel, results, cancelled>>

\* Mutant: wg.Add is called by the goroutines.
WaitsForTheStarted ==
    /\ main = "wait"
    /\ \A c \in Config : pc[c] \in {"select", "done"}
    /\ main' = "returned"
    /\ UNCHANGED <<slot, held, tunnel, results, cancelled>>

\* wg.Wait.
Return ==
    /\ main = "wait" /\ \A c \in Config : pc[c] = "done"
    /\ main' = "returned"
    /\ UNCHANGED <<slot, held, tunnel, results, cancelled>>

-----------------------------------------------------------------------------
(***************************************************************************)
(* A goroutine.                                                            *)
(***************************************************************************)
\* Mutant: the semaphore has one slot too many.
AcquiresOneMore(c) ==
    /\ pc[c] = "select" /\ sem <= Parallel
    /\ sem' = sem + 1
    /\ Goto(c, "allocate")
    /\ UNCHANGED <<main, held, tunnel, results, cancelled>>

Acquire(c) ==
    /\ pc[c] = "select" /\ sem < Parallel
    /\ sem' = sem + 1
    /\ Goto(c, "allocate")
    /\ UNCHANGED <<main, held, tunnel, results, cancelled>>

LeaveCancelled(c) ==
    /\ pc[c] = "select" /\ cancelled
    /\ Goto(c, "done")
    /\ UNCHANGED <<main, sem, held, tunnel, results, cancelled>>

\* Mutant: nobody asks whether the port can be bound.
GetAnyPort(c) ==
    /\ pc[c] = "allocate"
    /\ \E p \in Port : Allocator!Lend(c, p)
    /\ Goto(c, "run")
    /\ UNCHANGED <<main, sem, tunnel, results, cancelled>>

\* Allocate, which tries whether the port can be bound.
GetPort(c) ==
    /\ pc[c] = "allocate"
    /\ \E p \in Port : /\ listener[p] = Nobody
                       /\ Allocator!Lend(c, p)
    /\ Goto(c, "run")
    /\ UNCHANGED <<main, sem, tunnel, results, cancelled>>

\* "port range exhausted": the config gets no result.
NoPortLeft(c) ==
    /\ pc[c] = "allocate"
    /\ \A p \in Port : \/ listener[p] # Nobody
                       \/ \E d \in Config : held[d] = p
    /\ Goto(c, "leave")
    /\ UNCHANGED <<main, sem, held, tunnel, results, cancelled>>

\* TCP, TLS and protocol stages, which need no port.
QuickStages(c) ==
    /\ pc[c] = "run"
    /\ \E ok \in BOOLEAN :
          /\ good' = [good EXCEPT ![c] = ok]
          /\ Goto(c, IF ok /\ Passes > 0 THEN "config" ELSE "report")
    /\ UNCHANGED <<main, sem, held, pass, xray, listener, cfgFile, strayed,
                   results, cancelled>>

\* withTempXray writes xray-<port>.json and starts xray with it; either may
\* fail.
WriteConfig(c) ==
    /\ pc[c] = "config"
    /\ pass' = [pass EXCEPT ![c] = pass[c] + 1]
    /\ cfgFile' = [cfgFile EXCEPT ![held[c]] = c]
    /\ Goto(c, "start")
    /\ UNCHANGED <<main, sem, held, good, xray, listener, strayed, results,
                   cancelled>>

StartXray(c) ==
    /\ pc[c] = "start"
    /\ xray' = [xray EXCEPT ![c] = "starting"]
    /\ Goto(c, "dial")
    /\ UNCHANGED <<main, sem, held, pass, good, listener, cfgFile, strayed,
                   results, cancelled>>

StartFails(c) ==
    /\ pc[c] = "start"
    /\ good' = [good EXCEPT ![c] = FALSE]
    /\ Goto(c, "clean")
    /\ UNCHANGED <<main, sem, held, pass, xray, listener, cfgFile, strayed,
                   results, cancelled>>

\* waitForListener: somebody accepts the connection.
Connected(c) ==
    /\ pc[c] = "dial" /\ listener[held[c]] # Nobody
    /\ Goto(c, "fetch")
    /\ UNCHANGED <<main, sem, held, tunnel, results, cancelled>>

\* listenerWait passes or the context ends first.
NeverListened(c) ==
    /\ pc[c] = "dial"
    /\ good' = [good EXCEPT ![c] = FALSE]
    /\ Goto(c, "kill")
    /\ UNCHANGED <<main, sem, held, pass, xray, listener, cfgFile, strayed,
                   results, cancelled>>

\* The callback: one request through the SOCKS port, or a domain check.
Fetch(c) ==
    /\ pc[c] = "fetch"
    /\ \E ok \in BOOLEAN :
          /\ ok => listener[held[c]] # Nobody
          /\ good' = [good EXCEPT ![c] = ok]
          /\ strayed' = IF ok /\ listener[held[c]] # c
                          THEN strayed \cup {held[c]} ELSE strayed
    /\ Goto(c, "kill")
    /\ UNCHANGED <<main, sem, held, pass, xray, listener, cfgFile, results,
                   cancelled>>

NoLonger(c) ==
    listener' = [p \in Port |-> IF listener[p] = c THEN Nobody
                                                   ELSE listener[p]]

\* Mutant: the process is left to the context that kills it later.
LeavesXrayRunning(c) ==
    /\ pc[c] = "kill"
    /\ Goto(c, "clean")
    /\ UNCHANGED <<main, sem, held, tunnel, results, cancelled>>

\* Kill and Wait, deferred.
KillXray(c) ==
    /\ pc[c] = "kill"
    /\ xray' = [xray EXCEPT ![c] = "none"]
    /\ NoLonger(c)
    /\ Goto(c, "clean")
    /\ UNCHANGED <<main, sem, held, pass, good, cfgFile, strayed, results,
                   cancelled>>

\* os.Remove, deferred; then the next pass or the verdict.
RemoveConfig(c) ==
    /\ pc[c] = "clean"
    /\ cfgFile' = [cfgFile EXCEPT ![held[c]] = Nobody]
    /\ Goto(c, IF good[c] /\ pass[c] < Passes THEN "config" ELSE "report")
    /\ UNCHANGED <<main, sem, held, pass, good, xray, listener, strayed,
                   results, cancelled>>

\* Mutant: the outcome of the last pass is not looked at.
ReportsSuccess(c) ==
    /\ pc[c] = "report"
    /\ results' = [results EXCEPT ![c] = "ok"]
    /\ Goto(c, "giveBack")
    /\ UNCHANGED <<main, sem, held, tunnel, cancelled>>

Report(c) ==
    /\ pc[c] = "report"
    /\ results' = [results EXCEPT ![c] = IF good[c] THEN "ok" ELSE "failed"]
    /\ Goto(c, "giveBack")
    /\ UNCHANGED <<main, sem, held, tunnel, cancelled>>

\* Deferred, last in first out: the port ...
GiveBackPort(c) ==
    /\ pc[c] = "giveBack"
    /\ Allocator!TakeBack(c)
    /\ Goto(c, "leave")
    /\ UNCHANGED <<main, sem, tunnel, results, cancelled>>

\* Mutant: the slot is not given back.
KeepsSlot(c) ==
    /\ pc[c] = "leave"
    /\ Goto(c, "wgDone")
    /\ UNCHANGED <<main, sem, held, tunnel, results, cancelled>>

\* ... then the slot ...
FreeSlot(c) ==
    /\ pc[c] = "leave"
    /\ sem' = sem - 1
    /\ Goto(c, "wgDone")
    /\ UNCHANGED <<main, held, tunnel, results, cancelled>>

\* ... then wg.Done.
Done(c) ==
    /\ pc[c] = "wgDone"
    /\ Goto(c, "done")
    /\ UNCHANGED <<main, sem, held, tunnel, results, cancelled>>

-----------------------------------------------------------------------------
(***************************************************************************)
(* The xray process of a test.                                             *)
(***************************************************************************)
\* It binds the SOCKS inbound that its config file names, unless somebody
\* has the port.
XrayBinds(c) ==
    /\ xray[c] = "starting"
    /\ \E p \in Port : /\ p = held[c] /\ listener[p] = Nobody
                       /\ listener' = [listener EXCEPT ![p] = c]
    /\ xray' = [xray EXCEPT ![c] = "listening"]
    /\ UNCHANGED <<main, slot, held, pass, good, cfgFile, strayed, results,
                   cancelled>>

\* It exits, or the context of the pass ends and kills it.
XrayDies(c) ==
    /\ xray[c] # "none"
    /\ xray' = [xray EXCEPT ![c] = "none"]
    /\ NoLonger(c)
    /\ UNCHANGED <<main, slot, held, pass, good, cfgFile, strayed, results,
                   cancelled>>

\* What a goroutine does next.
Step(c) ==
    \/ Acquire(c) \/ LeaveCancelled(c) \/ GetPort(c) \/ NoPortLeft(c)
    \/ QuickStages(c)
    \/ WriteConfig(c) \/ StartXray(c) \/ StartFails(c)
    \/ Connected(c) \/ NeverListened(c) \/ Fetch(c)
    \/ KillXray(c) \/ RemoveConfig(c)
    \/ Report(c) \/ GiveBackPort(c) \/ FreeSlot(c) \/ Done(c)

Next ==
    \/ Cancel \/ Intrude
    \/ AllSpawned \/ Return
    \/ \E c \in Config : Spawn(c) \/ Step(c) \/ XrayBinds(c) \/ XrayDies(c)

Spec == Init /\ [][Next]_vars

\* Every system call of a goroutine comes back: dials, requests and passes
\* have timeouts.  A channel serves its senders in the order they came.
Fairness ==
    /\ WF_vars(AllSpawned) /\ WF_vars(Return)
    /\ \A c \in Config : WF_vars(Spawn(c)) /\ WF_vars(Step(c))

LiveSpec == Spec /\ Fairness

-----------------------------------------------------------------------------
Who == Config \cup {Nobody, Foreign}

Place == {"unborn", "select", "allocate", "run", "config", "start", "dial",
          "fetch", "kill", "clean", "report", "giveBack", "leave", "wgDone",
          "done"}

TypeOK ==
    /\ main \in {"spawn", "wait", "returned"}
    /\ pc \in [Config -> Place]
    /\ sem \in Nat
    /\ held \in [Config -> Port \cup {NoPort}]
    /\ pass \in [Config -> Nat]
    /\ good \in [Config -> BOOLEAN]
    /\ xray \in [Config -> {"none", "starting", "listening"}]
    /\ listener \in [Port -> Who]
    /\ cfgFile \in [Port -> Who]
    /\ results \in [Config -> {"none", "ok", "failed"}]
    /\ cancelled \in BOOLEAN /\ strayed \subseteq Port

\* Not more than Parallel xray processes are alive at any moment.
AtMostParallel == Cardinality({c \in Config : xray[c] # "none"}) <= Parallel

\* An xray process, alive or about to start, has its port for itself and
\* reads the config file that was written for it.
OwnPortOwnConfig ==
    \A c \in Config :
       /\ xray[c] # "none" \/ pc[c] \in {"start", "dial", "fetch", "kill"}
             => held[c] # NoPort /\ cfgFile[held[c]] = c
       /\ \A d \in Config : held[c] = held[d] /\ held[c] # NoPort => c = d

\* A config is judged by what came through its own tunnel, unless another
\* program took the port between Allocate's trial and xray's bind.
StraysOnlyToIntruders == strayed \subseteq Intruded

\* A config reported as working came through every pass its depth asks for.
SuccessPassedAll ==
    \A c \in Config : results[c] = "ok" => pass[c] = Passes /\ good[c]

\* When XrayTest returns nothing of the round is left: no process, no config
\* file, no port.
LeavesNothingBehind ==
    main = "returned" =>
       \A c \in Config : /\ xray[c] = "none" /\ held[c] = NoPort
                         /\ \A p \in Port : c # listener[p] /\ c # cfgFile[p]

\* As long as other programs leave a port for every parallel test, a round that
\* nobody cancels tests every config.
EveryConfigReported ==
    (/\ main = "returned" /\ ~cancelled
     /\ Cardinality({p \in Port : listener[p] # Foreign}) >= Parallel)
    => \A c \in Config : results[c] # "none"

\* The round ends, cancelled or not.
Terminates == <>(main = "returned")

\* The round keeps what it promises the cycle.
Promise == INSTANCE TestRound WITH returned <- (main = "returned")
ImplementsRound == Promise!Spec
=============================================================================
