-------------------------- MODULE ResilientRunner --------------------------
(***************************************************************************)
(* A config tested with retries: the orchestrator decides how patient to   *)
(* be, ResilientRunner.Run repeats Pipeline.Run with a backoff until it    *)
(* succeeds, the retries are spent or the context is done.  A failed       *)
(* retry is classified and may halve the parallelism of the batch.         *)
(***************************************************************************)
EXTENDS Decision, Sequences

CONSTANTS
    ConfigOf,    \* configs of a batch: [addr, protocol]
    Prefs,       \* what the user may ask for
    NumCPU,
    Parallelism, \* what the batch starts with
    Bits,        \* width of a time.Duration
    MaxConfigs   \* bound: configs of a batch

RunnerAssumption ==
    /\ DecisionAssumption
    /\ \A p \in Prefs : p.retries \in Int
    /\ Bits \in Nat \ {0} /\ Parallelism \in Nat \ {0}

VARIABLES
    batch, prefs, decision,
    phase,       \* of Run, and before it of the program that calls it
    attempt,     \* retries begun
    wait,        \* the last backoff
    status, retries,   \* fields of the result
    parallelism,
    ctxDone,     \* the context is done
    \* history
    runs,        \* pipeline runs begun
    lateRuns,    \* runs begun after the context was done
    overloaded   \* a retry failed for want of resources or with its xray

runner == <<attempt, wait, status, retries, parallelism, runs, lateRuns, overloaded>>
runVars == <<batch, prefs, decision, phase, ctxDone, runner>>

-----------------------------------------------------------------------------
(***************************************************************************)
(* Categorize, Recommend and StrategyFor.                                  *)
(***************************************************************************)
ParseErrors    == {"ErrInvalidProtocol", "ErrInvalidEncoding", "ErrInvalidFormat",
                   "ErrMissingField", "ErrInvalidUUID", "ErrInvalidPort",
                   "ErrInvalidNetwork", "ErrInvalidSecurity", "ErrInvalidFlow",
                   "ErrInvalidPublicKey", "ErrInvalidFingerprint"}
NetworkErrors  == {"ErrTCPConnect", "ErrPortExhausted", "ErrPortConflict"}
ProtocolErrors == {"ErrTLSHandshake", "ErrProtocolTest"}
ResourceErrors == {"ErrResourceExhaust"}
RuntimeErrors  == {"ErrXrayCrash", "ErrProxyTest", "ErrXrayNotFound"}
Sentinels == ParseErrors \cup NetworkErrors \cup ProtocolErrors
                \cup ResourceErrors \cup RuntimeErrors

\* An error that is, or wraps, one of the sentinels has its category.
Categorize(e) ==
    CASE e \in ParseErrors    -> "parse"
      [] e \in NetworkErrors  -> "network"
      [] e \in ProtocolErrors -> "protocol"
      [] e \in ResourceErrors -> "resource"
      [] e \in RuntimeErrors  -> "runtime"
      [] OTHER                -> "unknown"

Recommend(category) ==
    CASE category = "parse"    -> "skip"
      [] category = "network"  -> "retry"
      [] category = "resource" -> "reduce-load"
      [] category = "runtime"  -> "restart"
      [] OTHER                 -> "continue"

\* Run makes a new error of the text of the old one; it wraps none.
Retold(e) == "fmt.Errorf"

Halved(n) == IF n \div 2 < 1 THEN 1 ELSE n \div 2

ReducesLoad(e) ==
    Recommend(Categorize(Retold(e))) \in {"reduce-load", "restart"}

-----------------------------------------------------------------------------
(***************************************************************************)
(* The backoff, as time.Duration computes it.                              *)
(***************************************************************************)
\* 1 << k, a power of two.
Shifted[k \in Nat] == IF k = 0 THEN 1 ELSE 2 * Shifted[k - 1]

Wrap(n) == ((n + Shifted[Bits - 1]) % Shifted[Bits]) - Shifted[Bits - 1]

MaxBackoff == 30 * Second

\* Mutant: the cap is forgotten.
Uncapped(base, k) == Wrap(base * Wrap(Shifted[k]))

Backoff(base, k) ==
    LET d == Wrap(base * Wrap(Shifted[k])) IN IF d > MaxBackoff THEN MaxBackoff ELSE d

-----------------------------------------------------------------------------
NoPreference == [depth |-> "unset", style |-> "unset", workers |-> 0, timeout |-> 0,
                 retries |-> 0, cache |-> <<>>]

RunInit ==
    /\ batch = <<>> /\ prefs = NoPreference
    /\ decision = Decide(BuildContext(batch, NumCPU), prefs, NumCPU)
    /\ phase = "flags" /\ ctxDone = FALSE
    /\ attempt = 0 /\ wait = 0 /\ status = "none" /\ retries = 0
    /\ parallelism = Parallelism /\ runs = 0 /\ lateRuns = 0 /\ overloaded = FALSE

Decides(configs, p) ==
    decision' = Decide(BuildContext(configs, NumCPU), p, NumCPU)

Flags ==
    /\ phase = "flags" /\ phase' = "parsing"
    /\ \E p \in Prefs : prefs' = p /\ Decides(batch, p)
    /\ UNCHANGED <<batch, ctxDone, runner>>

\* The batch grows by a config.
Parsed ==
    /\ phase = "parsing" /\ Len(batch) < MaxConfigs
    /\ \E c \in ConfigOf :
          batch' = Append(batch, c) /\ Decides(Append(batch, c), prefs)
    /\ UNCHANGED <<prefs, phase, ctxDone, runner>>

\* NewResilientRunner.  Run is about one config of the batch.
NewResilientRunner ==
    /\ phase = "parsing" /\ phase' = "ready"
    /\ batch' = <<>> /\ prefs' = NoPreference
    /\ UNCHANGED <<decision, ctxDone, runner>>

PipelineRun ==
    /\ phase = "ready" /\ phase' = "running"
    /\ runs' = runs + 1
    /\ lateRuns' = IF ctxDone THEN lateRuns + 1 ELSE lateRuns
    /\ UNCHANGED <<batch, prefs, decision, ctxDone, attempt, wait, status,
                   retries, parallelism, overloaded>>

\* Mutant: one retry too few.
StopsEarly == attempt + 1 < decision.Retry.MaxRetries

RetriesLeft == attempt < decision.Retry.MaxRetries

Succeeds ==
    /\ phase = "running" /\ phase' = "returned"
    /\ status' = "success" /\ retries' = attempt
    /\ UNCHANGED <<batch, prefs, decision, ctxDone, attempt, wait, parallelism,
                   runs, lateRuns, overloaded>>

\* Pipeline.Run fails with an error.
Fails(st, e) ==
    /\ phase = "running"
    /\ status' = st /\ retries' = attempt
    /\ overloaded' =
          (overloaded \/ (attempt > 0 /\ Categorize(e) \in {"resource", "runtime"}))
    /\ parallelism' = IF attempt > 0 /\ ReducesLoad(e)
                        THEN Halved(parallelism) ELSE parallelism
    /\ IF RetriesLeft
         THEN phase' = "backoff" /\ wait' = Backoff(decision.Retry.BackoffBase, attempt)
         ELSE phase' = "returned" /\ UNCHANGED wait
    /\ UNCHANGED <<batch, prefs, decision, ctxDone, attempt, runs, lateRuns>>

\* The timer fires.  A context that is done first ends the wait, unless there
\* is nothing to wait for: then the select takes either.
TimerFires ==
    /\ phase = "backoff" /\ (ctxDone => wait <= 0)
    /\ phase' = "ready"
    /\ attempt' = attempt + 1
    /\ UNCHANGED <<batch, prefs, decision, ctxDone, wait, status, retries,
                   parallelism, runs, lateRuns, overloaded>>

\* Mutant: the end of the context only cuts the wait short.
OnlyWakes ==
    /\ phase = "backoff" /\ ctxDone
    /\ phase' = "ready"
    /\ attempt' = attempt + 1
    /\ UNCHANGED <<batch, prefs, decision, ctxDone, wait, status, retries,
                   parallelism, runs, lateRuns, overloaded>>

WaitCancelled ==
    /\ phase = "backoff" /\ ctxDone
    /\ phase' = "returned" /\ status' = "error"
    /\ UNCHANGED <<batch, prefs, decision, ctxDone, attempt, wait, retries,
                   parallelism, runs, lateRuns, overloaded>>

Cancel ==
    /\ phase \in {"ready", "running", "backoff"} /\ ~ctxDone
    /\ ctxDone' = TRUE
    /\ UNCHANGED <<batch, prefs, decision, phase, runner>>

RunNext ==
    \/ Flags \/ Parsed \/ NewResilientRunner
    \/ PipelineRun \/ Succeeds
    \/ \E st \in {"failed", "error"}, e \in Sentinels : Fails(st, e)
    \/ TimerFires \/ WaitCancelled \/ Cancel

RunSpec == RunInit /\ [][RunNext]_runVars

-----------------------------------------------------------------------------
\* No backoff of this run overflows: with 64 bits, up to 34 retries.
Fits ==
    \A k \in 0..(decision.Retry.MaxRetries - 1) :
       decision.Retry.BackoffBase * Shifted[k] < Shifted[Bits - 1]

Rank == [quick |-> 1, standard |-> 2, full |-> 3, comprehensive |-> 3]

\* A batch that grows, by configs of the kinds it has, is never tested deeper
\* or more patiently than before, whatever the user asked for.
LargerIsNoDeeper ==
    [][phase = "parsing" /\ phase' = "parsing" /\ batch # <<>>
        /\ BuildContext(batch, NumCPU).reality = BuildContext(batch', NumCPU).reality
          => /\ Rank[decision'.Depth] <= Rank[decision.Depth]
             /\ decision'.Retry.MaxRetries <= decision.Retry.MaxRetries]_runVars

\* A retry never comes sooner after a failure than the one before it, nor
\* later than the cap allows.
BackoffGrows ==
    [][phase' = "backoff" /\ phase # "backoff" /\ Fits =>
          /\ wait <= wait' /\ wait' <= MaxBackoff
          /\ decision.Retry.BackoffBase <= wait' \/ wait' = MaxBackoff]_runVars

\* Once the context is done at most one more run begins, the one its timer had
\* just let go.
CancelStops == Fits => lateRuns <= 1

\* The result counts the retries that were made, and a failure is only handed
\* on when none is left or the context is done.
GivesUpLast ==
    phase = "returned" =>
       /\ retries = runs - 1
       /\ status = "success" \/ ctxDone
             \/ retries = decision.Retry.MaxRetries

\* "If a resource/runtime error occurred, optionally reduce parallelism": with
\* ReduceLoadOn, which every runner has, a retry that fails that way reduces it.
LoadIsReduced == overloaded /\ Parallelism > 1 => parallelism < Parallelism
=============================================================================
