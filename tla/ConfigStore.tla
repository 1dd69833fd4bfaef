---------------------------- MODULE ConfigStore ----------------------------
(***************************************************************************)
(* The data the viberayd daemon keeps about share links, and the pure      *)
(* functions of internal/daemon that read and rewrite it: which links are  *)
(* due for a test, how freshly parsed links are merged, how a TCP ping     *)
(* pass and a round of tunnel tests change an entry, and which links a     *)
(* capped cycle keeps.                                                     *)
(*                                                                         *)
(* A link is named by sha256(raw).  Only the order of the hashes matters   *)
(* to the code (they break ties in a sort), so links are natural numbers.  *)
(* A state maps every link to an entry; a link that is not in the map of   *)
(* the program has an entry in state "absent".  The fields of an entry     *)
(* that no code path reads back (raw, host, port, protocol, source_url,    *)
(* first_seen, last_success and the two counters) are left out.            *)
(***************************************************************************)
EXTENDS Integers, FiniteSets

CONSTANTS
    Link,             \* the share links that ever appear in a subscription
    RetestInterval,   \* DAEMON_RETEST_INTERVAL (not clamped: may be <= 0)
    KeepSuccessful,   \* DAEMON_KEEP_SUCCESSFUL
    MaxLatencyMs,     \* DAEMON_MAX_LATENCY_MS, 0 disables the ceiling
    MaxXrayTests      \* DAEMON_MAX_XRAY_TESTS, 0 disables the cap

ASSUME StoreAssumption ==
    /\ Link \subseteq Nat
    /\ IsFiniteSet(Link)
    /\ RetestInterval \in Int
    /\ KeepSuccessful \in BOOLEAN
    /\ MaxLatencyMs \in Nat
    /\ MaxXrayTests \in Nat

\* The zero time.Time of an entry that was never tested.
Never == -1

EntryState == {"absent", "unknown", "unreachable", "failed", "working"}

Entry == [state: EntryState, lastTested: Nat \cup {Never}, latency: Nat]

Store == [Link -> Entry]

Absent == [state |-> "absent", lastTested |-> Never, latency |-> 0]

\* NewState: an empty map.
EmptyStore == [h \in Link |-> Absent]

Known(s) == {h \in Link : s[h].state # "absent"}

Working(s) == {h \in Link : s[h].state = "working"}

-----------------------------------------------------------------------------
\* A working link is due again RetestInterval after its last test.  The zero
\* time lies further back than any interval.
Due(e, now) ==
    \/ e.lastTested = Never
    \/ now - e.lastTested >= RetestInterval

\* Mutant: a link whose host was once unreachable is never tried again.
ForgetsUnreachable(s, now) ==
    {h \in Link :
        \/ s[h].state \in {"unknown", "failed"}
        \/ s[h].state = "working" /\ KeepSuccessful /\ Due(s[h], now)}

SelectCandidates(s, now) ==
    {h \in Link :
        \/ s[h].state \in {"unknown", "failed", "unreachable"}
        \/ s[h].state = "working" /\ KeepSuccessful /\ Due(s[h], now)}

\* New links enter as "unknown"; a link that is already known keeps its entry.
MergeIntoState(s, parsed) ==
    [h \in Link |->
        IF h \in parsed /\ s[h].state = "absent"
          THEN [Absent EXCEPT !.state = "unknown"]
          ELSE s[h]]

\* Mutant: the entry is built anew instead of being updated.
ResetUnreachable(s, cand, alive, now) ==
    [h \in Link |->
        IF h \in cand \ alive /\ s[h].state \notin {"absent", "unreachable"}
          THEN [Absent EXCEPT !.state = "unreachable"]
          ELSE s[h]]

\* The loop of runCycle over the candidates after the TCP ping pass: every
\* candidate without a successful ping, pinged or not, becomes unreachable.
MarkUnreachable(s, cand, alive, now) ==
    [h \in Link |->
        IF h \in cand \ alive /\ s[h].state \notin {"absent", "unreachable"}
          THEN [s[h] EXCEPT !.state = "unreachable", !.lastTested = now]
          ELSE s[h]]

\* limitSurvivors: when there are more than MaxXrayTests links left, the ones
\* with the fastest TCP handshake are kept, the hash breaking ties.
FasterThan(g, h, ping) == ping[g] < ping[h] \/ (ping[g] = ping[h] /\ g < h)

LimitSurvivors(alive, ping) ==
    IF MaxXrayTests = 0 \/ Cardinality(alive) <= MaxXrayTests
      THEN alive
      ELSE {h \in alive :
              Cardinality({g \in alive : FasterThan(g, h, ping)})
                  < MaxXrayTests}

\* A test result is a verdict and the measured latency.
Result == [success: BOOLEAN, latency: Nat]

\* Mutant: the ceiling is ignored.
IgnoresCeiling(r) == r.success

\* A test that succeeded above the latency ceiling counts as a failure.
Accepted(r) == r.success /\ (MaxLatencyMs = 0 \/ r.latency <= MaxLatencyMs)

\* Mutant: a working link that fails once stays working.
ForgivesOnce(state) ==
    IF state \in {"unreachable", "working"} THEN state ELSE "failed"

\* A failed test leaves an unreachable link unreachable.
FailedState(state) == IF state = "unreachable" THEN "unreachable" ELSE "failed"

\* res maps the tested links to their results; a link that is not known, or
\* has no result, keeps its entry.
ApplyResults(s, res, now) ==
    [h \in Link |->
        IF h \notin DOMAIN res \/ s[h].state = "absent" THEN s[h]
        ELSE IF Accepted(res[h])
          THEN [state |-> "working", lastTested |-> now,
                latency |-> res[h].latency]
          ELSE [state |-> FailedState(s[h].state), lastTested |-> now,
                latency |-> IF res[h].latency > 0 THEN res[h].latency
                                                  ELSE s[h].latency]]

\* What writeOutputFile publishes: the working links with their latency (the
\* order of the lines is a function of these).
NotListed == -1

Lines == [Link -> Nat \cup {NotListed}]

Published(s) ==
    [h \in Link |-> IF s[h].state = "working" THEN s[h].latency ELSE NotListed]

Listed(lines) == {h \in Link : lines[h] # NotListed}
=============================================================================
