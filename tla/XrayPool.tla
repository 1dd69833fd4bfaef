------------------------------ MODULE XrayPool ------------------------------
(***************************************************************************)
(* concurrency.XrayPool: xray processes that are kept for reuse.  Acquire  *)
(* gives the mutex back while a new process starts, so a Shutdown or       *)
(* another Acquire may come in between.  Callers bring ports of their own  *)
(* (PortManager).                                                          *)
(***************************************************************************)
EXTENDS Integers, Sequences, FiniteSets

CONSTANTS
    Caller,
    Port,
    MaxInstances,
    MaxStarts   \* bound on the processes ever started

PoolAssumption ==
    MaxInstances \in Nat \ {0} /\ MaxStarts \in Nat /\ 0 \notin Port

Instance == 1..MaxStarts

NoInstance == 0

VARIABLES
    available,  \* the idle instances
    inUse,      \* the map from ports to instances
    alive,      \* instances whose process runs
    started,
    call, want, has,  \* of every caller: its call, its port, its instance
    \* history
    down,       \* how many instances had been started at the last Shutdown
    late        \* instances a Shutdown met between startFn and the map

poolVars == <<available, inUse, alive, started, call, want, has, down, late>>

Mapped == {inUse[p] : p \in Port} \ {NoInstance}

PoolInit ==
    /\ available = <<>> /\ inUse = [p \in Port |-> NoInstance]
    /\ alive = {} /\ started = 0 /\ down = 0 /\ late = {}
    /\ call = [c \in Caller |-> "idle"]
    /\ want = [c \in Caller |-> NoInstance] /\ has = [c \in Caller |-> NoInstance]

\* os.Process.Signal refuses os.Signal(nil), which is not a syscall.Signal,
\* before it looks at the process: no instance ever counts as running.  What
\* Acquire and HealthCheck do with idle instances that run is dead code.
IsRunning(x) == FALSE

Full == Cardinality(Mapped) >= MaxInstances

\* Acquire, up to the check of the capacity.
Refuse(c) ==
    /\ call[c] = "idle" /\ Full
    /\ UNCHANGED poolVars

Acquire(c, p) ==
    /\ call[c] = "idle" /\ ~Full /\ \A d \in Caller : want[d] # p
    /\ call' = [call EXCEPT ![c] = "starting"]
    /\ want' = [want EXCEPT ![c] = p]
    /\ UNCHANGED <<available, inUse, alive, started, has, down, late>>

\* startFn, without the mutex.
Start(c) ==
    /\ call[c] = "starting" /\ started < MaxStarts
    /\ started' = started + 1
    /\ alive' = alive \cup {started'}
    /\ has' = [has EXCEPT ![c] = started']
    /\ call' = [call EXCEPT ![c] = "started"]
    /\ UNCHANGED <<available, inUse, want, down, late>>

StartFails(c) ==
    /\ call[c] = "starting"
    /\ call' = [call EXCEPT ![c] = "idle"]
    /\ want' = [want EXCEPT ![c] = NoInstance]
    /\ UNCHANGED <<available, inUse, alive, started, has, down, late>>

\* The rest of Acquire.
Register(c) ==
    /\ call[c] = "started"
    /\ inUse' = [inUse EXCEPT ![want[c]] = has[c]]
    /\ call' = [call EXCEPT ![c] = "using"]
    /\ UNCHANGED <<available, alive, started, want, has, down, late>>

\* Mutant: an instance that is not taken for running is left alone.
LeavesProcess(c) ==
    /\ call[c] = "using"
    /\ inUse' = [inUse EXCEPT ![want[c]] = NoInstance]
    /\ call' = [call EXCEPT ![c] = "idle"]
    /\ want' = [want EXCEPT ![c] = NoInstance] /\ has' = [has EXCEPT ![c] = NoInstance]
    /\ UNCHANGED <<available, alive, started, down, late>>

Release(c) ==
    /\ call[c] = "using"
    /\ inUse' = [inUse EXCEPT ![want[c]] = NoInstance]
    /\ IF IsRunning(has[c])
         THEN available' = Append(available, has[c]) /\ UNCHANGED alive
         ELSE alive' = alive \ {has[c]} /\ UNCHANGED available
    /\ call' = [call EXCEPT ![c] = "idle"]
    /\ want' = [want EXCEPT ![c] = NoInstance] /\ has' = [has EXCEPT ![c] = NoInstance]
    /\ UNCHANGED <<started, down, late>>

NotYetInMap == {has[c] : c \in {d \in Caller : call[d] = "started"}}

StopsIdleOnly ==
    /\ alive' = alive \ {available[i] : i \in DOMAIN available}
    /\ available' = <<>> /\ inUse' = [p \in Port |-> NoInstance]
    /\ down' = started /\ late' = late \cup NotYetInMap
    /\ UNCHANGED <<started, call, want, has>>

Shutdown ==
    /\ alive' = alive \ (Mapped \cup {available[i] : i \in DOMAIN available})
    /\ available' = <<>> /\ inUse' = [p \in Port |-> NoInstance]
    /\ down' = started /\ late' = late \cup NotYetInMap
    /\ UNCHANGED <<started, call, want, has>>

\* xray ends by itself.
Dies ==
    /\ \E x \in alive : alive' = alive \ {x}
    /\ UNCHANGED <<available, inUse, started, call, want, has, down, late>>

PoolNext ==
    \/ \E c \in Caller : \/ Refuse(c) \/ Start(c) \/ StartFails(c)
                         \/ Register(c) \/ Release(c)
                         \/ \E p \in Port : Acquire(c, p)
    \/ Shutdown \/ Dies

PoolSpec == PoolInit /\ [][PoolNext]_poolVars

-----------------------------------------------------------------------------
\* Every process that runs is in the hands of one caller: none is left over
\* when all callers have released theirs, whatever Shutdown does meanwhile.
EveryProcessHeld ==
    \A x \in alive : \E c \in Caller :
       has[c] = x /\ \A d \in Caller : has[d] = x => d = c

\* An instance that was started before a Shutdown runs after it only if its
\* Acquire had not put it into the map yet.
ShutdownStopsRegistered == \A x \in alive : x <= down => x \in late
=============================================================================
