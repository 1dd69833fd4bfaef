------------------------------ MODULE Pipeline ------------------------------
(***************************************************************************)
(* The test of one config (tester.Pipeline.Run) under the context that     *)
(* XrayTest gives it: a chain of stages, each with its own timeout, all    *)
(* under one deadline, Budget.  Time passes in units; every stage may take *)
(* any number of them up to its timeout and may fail.                      *)
(***************************************************************************)
EXTENDS ProxyConfig, Integers, Sequences, FiniteSets

CONSTANTS
    Protocol,         \* protocols of the configs that are tested
    Depth,            \* the depths a run may have
    Domain,           \* the configured domain URLs
    DomainQuorum,
    StabilityProbes,
    TCPTimeout, TLSTimeout, ProtoTimeout, XrayTimeout

ASSUME PipelineAssumption ==
    /\ Protocol \subseteq Known
    /\ Depth \subseteq {"empty", "quick", "standard", "full", "comprehensive"}
    /\ IsFiniteSet(Domain) /\ DomainQuorum \in Nat \ {0}
    /\ StabilityProbes \in Int
    /\ {TCPTimeout, TLSTimeout, ProtoTimeout, XrayTimeout} \subseteq Nat \ {0}

VARIABLES
    depth,      \* DAEMON_DEPTH; "empty" when it is set to nothing
    cfg,        \* the config (see ProxyConfig)
    pc,         \* what runs next
    clock,      \* time since the start of the run
    stage, status, response,     \* fields of the result
    samples,    \* the latency of every proxied request so far
    \* history
    cut,        \* the deadline ended a stage that was within its timeout
    flawless,   \* no stage failed by itself
    cheap,      \* which of the stages before the tunnel passed
    domainRuns  \* domain checks that passed

vars == <<depth, cfg, pc, clock, stage, status, response, samples, cut, flawless,
          cheap, domainRuns>>

-----------------------------------------------------------------------------
\* The links under test, as the parser returned them.
Config == {c \in ParseSingle : c.protocol \in Protocol}

Larger(a, b) == IF a < b THEN b ELSE a

Probes == Larger(StabilityProbes, 1)

\* Mutant: the deprecated alias is forgotten.
OnlyFull == depth = "full"

\* normalizedDepth, and the domain check only if domains are configured.
ChecksDomains == depth \in {"full", "comprehensive"} /\ Domain # {}

\* The longest stage.
Stage == Larger(Larger(XrayTimeout, TCPTimeout),
                Larger(TLSTimeout, ProtoTimeout))

\* Mutant: one verification is counted, whatever the number of probes.
CountsOneProbe == 4 * Stage

Budget == (3 + Probes + (IF ChecksDomains THEN Probes ELSE 0)) * Stage

NeedsTLS(c) ==
    \/ c.protocol = "reality"
    \/ /\ c.protocol \in {"vmess", "vless", "trojan", "tuic", "hysteria2"}
       /\ c.tls

\* Protocols whose handshake test makes a TLS connection of its own.
HandshakeTLS(c) == c.protocol \in {"reality", "tuic", "hysteria2"}

\* The k-th smallest sample.
Nth(s, k) ==
    CHOOSE v \in {s[i] : i \in DOMAIN s} :
       /\ Cardinality({i \in DOMAIN s : s[i] < v}) < k
       /\ Cardinality({i \in DOMAIN s : s[i] <= v}) >= k

\* Mutant: the fastest pass speaks for the tunnel.
Fastest(s) == IF s = <<>> THEN 0 ELSE Nth(s, 1)

MedianDuration(s) ==
    LET n == Len(s) IN
    IF n = 0 THEN 0
    ELSE IF n % 2 = 1 THEN Nth(s, n \div 2 + 1)
    ELSE (Nth(s, n \div 2) + Nth(s, n \div 2 + 1)) \div 2

-----------------------------------------------------------------------------
Init ==
    /\ depth \in Depth
    /\ cfg \in Config
    /\ pc = "tcp" /\ clock = 0
    /\ stage = "tcp" /\ status = "success" /\ response = 0
    /\ samples = <<>>
    /\ cut = FALSE /\ flawless = TRUE /\ cheap = {} /\ domainRuns = 0

Goto(there, s) == pc' = there /\ stage' = s /\ UNCHANGED status

Fails == pc' = "done" /\ status' = "failed" /\ UNCHANGED stage

Completes == Goto("done", "completed")

\* A call that takes d and is given up at the deadline of the context.
Elapses(d) ==
    /\ clock' = IF clock + d <= Budget THEN clock + d ELSE Larger(clock, Budget)
    /\ cut' = (cut \/ clock + d > Budget)

InTime(d) == clock + d <= Budget

Judges(ok, name) ==
    /\ flawless' = (flawless /\ ok)
    /\ cheap' = IF ok THEN cheap \cup {name} ELSE cheap

\* TestTCPForConfig.
TestTCP ==
    /\ pc = "tcp"
    /\ \E d \in 1..TCPTimeout, ok \in BOOLEAN :
          /\ Elapses(d)
          /\ Judges(ok, "tcp")
          /\ IF ok /\ InTime(d)
               THEN Goto(IF NeedsTLS(cfg) THEN "tls" ELSE "fields", "tls")
               ELSE Fails
    /\ UNCHANGED <<depth, cfg, response, samples, domainRuns>>

\* TestTLSForConfig, which has its timeout and not the context.
TestTLS ==
    /\ pc = "tls"
    /\ \E d \in 1..TLSTimeout, ok \in BOOLEAN :
          /\ clock' = clock + d
          /\ Judges(ok, "tls")
          /\ IF ok THEN Goto("fields", stage) ELSE Fails
    /\ UNCHANGED <<depth, cfg, response, samples, cut, domainRuns>>

AfterHandshake ==
    IF depth = "quick" THEN Completes ELSE Goto("proxy", "proxy")

\* TestProtocol: the fields, then a TCP connection, then TLS for some.
CheckFields ==
    /\ pc = "fields"
    /\ flawless' = (flawless /\ Complete(cfg))
    /\ stage' = "protocol"
    /\ IF Complete(cfg) THEN pc' = "handshake" /\ UNCHANGED status
                         ELSE pc' = "done" /\ status' = "failed"
    /\ UNCHANGED <<depth, cfg, clock, response, samples, cut, cheap, domainRuns>>

Handshake ==
    /\ pc = "handshake"
    /\ \E d \in 1..ProtoTimeout, ok \in BOOLEAN :
          /\ Elapses(d)
          /\ Judges(ok, "handshake")
          /\ IF ~(ok /\ InTime(d)) THEN Fails
             ELSE IF HandshakeTLS(cfg) THEN Goto("probe", stage)
             ELSE AfterHandshake
    /\ UNCHANGED <<depth, cfg, response, samples, domainRuns>>

HandshakeOverTLS ==
    /\ pc = "probe"
    /\ \E d \in 1..ProtoTimeout, ok \in BOOLEAN :
          /\ clock' = clock + d
          /\ Judges(ok, "probe")
          /\ IF ok THEN AfterHandshake ELSE Fails
    /\ UNCHANGED <<depth, cfg, response, samples, cut, domainRuns>>

-----------------------------------------------------------------------------
(***************************************************************************)
(* End-to-end verification: first by Run itself, then by the stability     *)
(* probes.  len(samples) tells them apart.                                 *)
(***************************************************************************)
Verified ==
    IF Len(samples') < Probes
      THEN Goto("proxy", "stability") /\ UNCHANGED response
      ELSE Completes /\ response' = MedianDuration(samples')

\* withTempXray has nothing to start.
CannotTunnel ==
    /\ pc = "proxy" /\ Outbound(cfg) = NoOutbound
    /\ flawless' = FALSE
    /\ Fails
    /\ UNCHANGED <<depth, cfg, clock, response, samples, cut, cheap, domainRuns>>

\* TestXrayProxy in a temporary xray.  The first pass records its latency,
\* failed or not.
ProxyFails ==
    /\ pc = "proxy" /\ Outbound(cfg) # NoOutbound
    /\ \E d \in 1..XrayTimeout, own \in BOOLEAN :
          /\ own \/ ~InTime(d)
          /\ Elapses(d)
          /\ flawless' = (flawless /\ ~own)
          /\ response' \in IF samples = <<>> THEN 0..d ELSE {response}
    /\ Fails
    /\ UNCHANGED <<depth, cfg, samples, cheap, domainRuns>>

ProxyAnswers ==
    /\ pc = "proxy" /\ Outbound(cfg).protocol \in XrayOutbounds
    /\ \E d \in 1..XrayTimeout : \E latency \in 1..d :
          /\ InTime(d) /\ Elapses(d)
          /\ samples' = Append(samples, latency)
          /\ IF ChecksDomains
               THEN /\ Goto("domain", IF samples = <<>> THEN "domain" ELSE stage)
                    /\ response' = IF samples = <<>> THEN latency ELSE response
               ELSE Verified
    /\ UNCHANGED <<depth, cfg, flawless, cheap, domainRuns>>

\* Mutant: more than the quorum is asked for.
StrictQuorum(n) == n > DomainQuorum

\* CheckDomains: enough domains answer with a body.
Passed(n) == n >= DomainQuorum

CheckDomains ==
    /\ pc = "domain"
    /\ \E d \in 1..XrayTimeout, answering \in SUBSET Domain :
          /\ Elapses(d)
          /\ flawless' = (flawless /\ Cardinality(answering) >= DomainQuorum)
          /\ IF Passed(Cardinality(answering)) /\ InTime(d)
               THEN /\ domainRuns' = domainRuns + 1
                    /\ UNCHANGED samples
                    /\ Verified
               ELSE Fails /\ UNCHANGED <<response, samples, domainRuns>>
    /\ UNCHANGED <<depth, cfg, cheap>>

Next ==
    \/ TestTCP \/ TestTLS \/ CheckFields \/ Handshake \/ HandshakeOverTLS
    \/ CannotTunnel \/ ProxyFails \/ ProxyAnswers \/ CheckDomains

Spec == Init /\ [][Next]_vars

-----------------------------------------------------------------------------
Ended == pc = "done"

\* A config is good only if every verification its depth and its number of
\* probes ask for was made and passed; the deprecated depth means full.
SuccessIsEarned ==
    Ended /\ status = "success" /\ depth # "quick" =>
       /\ Len(samples) = Probes
       /\ depth \in {"full", "comprehensive"} /\ Domain # {} =>
             domainRuns = Probes

\* A config that never failed a stage, a domain check being failed when less
\* than the quorum answers, is not rejected, as long as the deadline did not
\* interfere.
GoodIsAccepted ==
    Ended /\ flawless /\ ~cut => status = "success"

\* The stage of a result is "completed" exactly for a success; a failure
\* names the stage it happened in.
StageNamesFailure ==
    Ended => /\ stage = "completed" <=> status = "success"
             /\ stage \in {"stability", "domain"} => samples # <<>>
             /\ stage \in {"tcp", "tls", "protocol", "proxy"} => samples = <<>>

\* The latency of a good config is a median of its passes: not more than half
\* of them were faster, not more than half were slower.
LatencyIsMedian ==
    Ended /\ status = "success" /\ depth # "quick" =>
       /\ 2 * Cardinality({i \in DOMAIN samples : samples[i] < response})
             <= Len(samples)
       /\ 2 * Cardinality({i \in DOMAIN samples : samples[i] > response})
             <= Len(samples)

\* No xray is started at depth quick, nor for a config whose server did not
\* take every connection its protocol asks for; a tunnel over TLS or REALITY
\* is built only after the TLS stage.
TunnelAfterCheapStages ==
    pc \in {"proxy", "domain"} =>
       /\ depth # "quick" /\ Complete(cfg)
       /\ {"tcp", "handshake"} \subseteq cheap
       /\ Outbound(cfg).security # "none" => "tls" \in cheap
       /\ Outbound(cfg).security = "reality" => "probe" \in cheap

\* What a link must have for the test of its protocol, its parser has asked
\* for: a run is rejected for its fields only for the method of an SS link.
FieldsStopOnlySS ==
    pc = "fields" /\ ~Complete(cfg) => cfg.protocol = "ss"

\* A config whose protocol xray cannot carry costs no time beyond the cheap
\* stages: "fail fast with the real reason".
UntestableFailsFast ==
    Outbound(cfg).protocol \notin XrayOutbounds =>
       clock <= TCPTimeout + TLSTimeout + 2 * ProtoTimeout

\* Budget leaves every stage its own timeout, for every depth and number of
\* probes: the deadline never ends a stage that has time left, unless the
\* config is a REALITY link, whose handshake makes a second connection before
\* a tunnel that takes time.
OnlyRealityIsCut == cut => cfg.protocol = "reality"

\* "Budget returns a generous upper bound for one config's whole run": the
\* deadline never ends a stage that has time left.
BudgetSuffices == ~cut
=============================================================================
