----------------------------- MODULE TestRound -----------------------------
(***************************************************************************)
(* What XrayTest promises the cycle that calls it: at most one result for  *)
(* each of the configs it was given, and none after it has returned.       *)
(***************************************************************************)
CONSTANT Config
VARIABLES results, returned

vars == <<results, returned>>

Outcome == {"none", "ok", "failed"}

Init == results = [c \in Config |-> "none"] /\ returned = FALSE

Report(c) ==
    /\ ~returned /\ results[c] = "none"
    /\ results' \in {[results EXCEPT ![c] = o] : o \in {"ok", "failed"}}
    /\ UNCHANGED returned

Return == ~returned /\ returned' = TRUE /\ UNCHANGED results

Next == Return \/ \E c \in Config : Report(c)
Spec == Init /\ [][Next]_vars
=============================================================================
