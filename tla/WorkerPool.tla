----------------------------- MODULE WorkerPool -----------------------------
(***************************************************************************)
(* concurrency.Pool: a semaphore of Workers slots, a WaitGroup and the     *)
(* first error.  Every task is submitted by a goroutine of its own, and    *)
(* someone waits for the pool at any moment.                               *)
(***************************************************************************)
EXTENDS Integers, FiniteSets

CONSTANTS Task, Workers

WorkerPoolAssumption ==
    IsFiniteSet(Task) /\ Workers \in Nat \ {0}

VARIABLES
    stage,      \* of every task
    semaphore,  \* slots taken
    wg,         \* the counter of the WaitGroup
    firstErr,   \* the task whose error Err returns, or {}
    cancelled,  \* the context is done
    waiter,     \* the goroutine that calls Wait
    \* history
    covered,    \* tasks whose Submit had returned nil when Wait was called
    failed      \* tasks that returned an error

workersVars == <<stage, semaphore, wg, firstErr, cancelled, waiter, covered, failed>>

WorkersInit ==
    /\ stage = [t \in Task |-> "new"]
    /\ semaphore = 0 /\ wg = 0 /\ firstErr = {}
    /\ cancelled = FALSE /\ waiter = "away" /\ covered = {} /\ failed = {}

Goes(t, from, to) == stage[t] = from /\ stage' = [stage EXCEPT ![t] = to]

\* Submit takes a slot, or gives up once the context is done; when both are
\* possible the select takes either.
TakeSlot(t) ==
    /\ Goes(t, "new", "holding")
    /\ semaphore < Workers
    /\ semaphore' = semaphore + 1
    /\ UNCHANGED <<wg, firstErr, cancelled, waiter, covered, failed>>

Refused(t) ==
    /\ Goes(t, "new", "refused")
    /\ cancelled
    /\ UNCHANGED <<semaphore, wg, firstErr, cancelled, waiter, covered, failed>>

\* Mutant: the goroutine counts itself, when it is too late.
SubmitUncounted(t) ==
    /\ Goes(t, "holding", "running")
    /\ UNCHANGED <<semaphore, wg, firstErr, cancelled, waiter, covered, failed>>

\* wg.Add, the go statement, and Submit returns.
Submitted(t) ==
    /\ Goes(t, "holding", "running")
    /\ wg' = wg + 1
    /\ UNCHANGED <<semaphore, firstErr, cancelled, waiter, covered, failed>>

\* The task returns nil ...
TaskSucceeds(t) ==
    /\ Goes(t, "running", "leaving")
    /\ UNCHANGED <<semaphore, wg, firstErr, cancelled, waiter, covered, failed>>

\* ... or an error, of which errOnce keeps the first.
TaskFails(t) ==
    /\ Goes(t, "running", "leaving")
    /\ failed' = failed \cup {t}
    /\ firstErr' = IF firstErr = {} THEN {t} ELSE firstErr
    /\ UNCHANGED <<semaphore, wg, cancelled, waiter, covered>>

\* The deferred function frees the slot and then counts down.
FreeSlot(t) ==
    /\ Goes(t, "leaving", "freed")
    /\ semaphore' = semaphore - 1
    /\ UNCHANGED <<wg, firstErr, cancelled, waiter, covered, failed>>

Done(t) ==
    /\ Goes(t, "freed", "done")
    /\ wg' = wg - 1
    /\ UNCHANGED <<semaphore, firstErr, cancelled, waiter, covered, failed>>

CallWait ==
    /\ waiter = "away" /\ waiter' = "waiting"
    /\ covered' = {t \in Task : stage[t] \in {"running", "leaving", "freed", "done"}}
    /\ UNCHANGED <<stage, semaphore, wg, firstErr, cancelled, failed>>

WaitReturns ==
    /\ waiter = "waiting" /\ wg = 0
    /\ waiter' = "back"
    /\ UNCHANGED <<stage, semaphore, wg, firstErr, cancelled, covered, failed>>

CancelTasks ==
    /\ ~cancelled /\ cancelled' = TRUE
    /\ UNCHANGED <<stage, semaphore, wg, firstErr, waiter, covered, failed>>

WorkersNext ==
    \/ \E t \in Task :
          \/ TakeSlot(t) \/ Refused(t) \/ Submitted(t) \/ TaskSucceeds(t)
          \/ TaskFails(t) \/ FreeSlot(t) \/ Done(t)
    \/ CallWait \/ WaitReturns \/ CancelTasks

WorkersSpec == WorkersInit /\ [][WorkersNext]_workersVars

-----------------------------------------------------------------------------
\* When Wait returns, every task whose Submit had returned before the call is
\* over, its slot is free again, and if one of them failed Err returns the
\* error of a task that failed, whoever submits meanwhile.
WaitCovers ==
    waiter = "back" =>
       /\ \A t \in covered : stage[t] = "done"
       /\ covered \cap failed # {} => firstErr # {} /\ firstErr \subseteq failed
=============================================================================
