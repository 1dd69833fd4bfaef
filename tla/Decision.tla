------------------------------ MODULE Decision ------------------------------
(***************************************************************************)
(* orchestrator.Decide: from the machine, the batch of configs and the     *)
(* user's preferences to the parameters of a run.                          *)
(***************************************************************************)
EXTENDS Integers, FiniteSets

CONSTANTS
    Small,      \* batches up to this size are small (100 in the code),
    Medium,     \* and larger ones up to this size medium (500)
    Second      \* time.Second: 10^9 in the code

DecisionAssumption ==
    /\ Small \in Nat /\ Medium \in Nat /\ Small <= Medium
    /\ Second \in Nat \ {0}

Depths == {"quick", "standard", "full", "comprehensive"}
Styles == {"json", "csv", "table", "markdown", "html", "auto"}

\* What Decide reads of a TestContext, and the preferences.  "unset" stands
\* for a depth or style that is not set or not known, <<>> for a nil *bool.
TestContext == [total : Nat, duplicates : Nat, reality : BOOLEAN, cpus : Nat]
Preferences == [depth : Depths \cup {"unset"}, style : Styles \cup {"unset"},
                workers : Int, timeout : Int, retries : Int,
                cache : {<<>>, <<TRUE>>, <<FALSE>>}]

\* Configs that share their address with an earlier one; one without an
\* address is passed over.
Duplicates(configs) ==
    Cardinality({i \in DOMAIN configs :
                    /\ configs[i].addr # "unset"
                    /\ \E j \in 1..(i - 1) : configs[j].addr = configs[i].addr})

BuildContext(configs, cpus) ==
    [total      |-> Cardinality(DOMAIN configs),
     duplicates |-> Duplicates(configs),
     reality    |-> \E i \in DOMAIN configs : configs[i].protocol = "reality",
     cpus       |-> cpus]

-----------------------------------------------------------------------------
\* Mutant: the tests for medium and large batches changed places.
SwapsSizes(total) ==
    CASE total <= Small -> "full"
      [] total > Small /\ total <= Medium -> "quick"
      [] OTHER -> "standard"

DepthForSize(total) ==
    CASE total <= Small -> "full"
      [] total > Small /\ total <= Medium -> "standard"
      [] OTHER -> "quick"

bumpDepth(d) == IF d = "quick" THEN "standard" ELSE "full"

decideDepth(ctx, override) ==
    CASE override \in Depths -> override
      [] override \notin Depths /\ ctx.total = 0 -> "quick"
      [] OTHER -> IF ctx.reality THEN bumpDepth(DepthForSize(ctx.total))
                                 ELSE DepthForSize(ctx.total)

decideStyle(ctx, override) ==
    CASE override \in Styles \ {"auto"} -> override
      [] OTHER -> IF ctx.total <= Small THEN "table" ELSE "csv"

Capped(n, cap) == IF n > cap THEN cap ELSE n

\* A machine that reports no CPU is taken at its word only after asking again;
\* runtime.NumCPU, which answers then, is at least one.
decideConcurrency(ctx, override, numCPU) ==
    IF override > 0 THEN override
    ELSE Capped(2 * (IF ctx.cpus > 0 THEN ctx.cpus ELSE numCPU), 100)

\* The zero value of the preference counts as a wish for no retries.
decideRetry(ctx, override) ==
    [MaxRetries  |-> IF override >= 0 THEN override
                     ELSE IF ctx.total > Small THEN 1 ELSE 2,
     BackoffBase |-> Second]

\* More than one in twenty is a duplicate.
decideCache(ctx, override) ==
    IF override # <<>> THEN override[1]
    ELSE ctx.total # 0 /\ 20 * ctx.duplicates > ctx.total

decideTimeout(ctx, override) ==
    IF override > 0 THEN override ELSE IF ctx.reality THEN 7 * Second ELSE 5 * Second

Decide(ctx, prefs, numCPU) ==
    [Depth   |-> decideDepth(ctx, prefs.depth),
     Style   |-> decideStyle(ctx, prefs.style),
     Workers |-> decideConcurrency(ctx, prefs.workers, numCPU),
     Retry   |-> decideRetry(ctx, prefs.retries),
     CacheEnabled   |-> decideCache(ctx, prefs.cache),
     TimeoutPerTest |-> decideTimeout(ctx, prefs.timeout)]
=============================================================================
