---------------------------- MODULE DaemonConfig ----------------------------
(***************************************************************************)
(* LoadConfigFromEnv: what the daemon works with, whatever its environment *)
(* says.  The operator edits one variable after the other while the daemon *)
(* is stopped; it reads them once, when it starts.                         *)
(*                                                                         *)
(* A variable is <<>> when it is not set, or not a number where a number   *)
(* is expected, and <<v>> when it says v.  A list of domains is the        *)
(* sequence of its entries between commas, a blank one being "empty".      *)
(***************************************************************************)
EXTENDS Integers, Sequences, FiniteSets

CONSTANTS
    Settings,     \* per numeric setting, the numbers it may be set to
    DepthValues,  \* what DAEMON_DEPTH may say
    DomainValues, \* what DAEMON_DOMAINS may say
    DefaultDomains,
    PoolSize,     \* ports of the test pool (XrayTest), 100 in the code
    MaxSet        \* bound: how many variables are set at a time

ValidDepth == {"quick", "standard", "full", "comprehensive"}

Numeric == {"CycleSleepSec", "Parallel", "TimeoutSec", "RetestIntervalSec",
            "MaxLatencyMs", "PortBase", "DomainTimeoutSec", "DomainQuorum",
            "DomainMinBytes", "StabilityProbes", "MaxXrayTests"}

ConfigAssumption ==
    /\ Settings \in [Numeric -> SUBSET Int]
    /\ DefaultDomains \in Seq(STRING) /\ DefaultDomains # <<>>
    /\ \A i \in DOMAIN DefaultDomains : DefaultDomains[i] # "empty"
    /\ PoolSize \in 20..100

VARIABLES
    env,      \* the environment of the next start
    config    \* what the daemon uses, <<>> while it is stopped

settingsVars == <<env, config>>

-----------------------------------------------------------------------------
DefaultConfig ==
    [CycleSleepSec |-> 300, Parallel |-> 10, TimeoutSec |-> 10,
     RetestIntervalSec |-> 1800, MaxLatencyMs |-> 0, PortBase |-> 10820,
     DomainTimeoutSec |-> 5, DomainQuorum |-> 2, DomainMinBytes |-> 4096,
     StabilityProbes |-> 2, MaxXrayTests |-> 1200,
     Depth |-> "standard", Domains |-> DefaultDomains]

\* A number the environment gives, or the default.
FromEnv(e) ==
    [s \in DOMAIN DefaultConfig |->
        IF e[s] = <<>> THEN DefaultConfig[s] ELSE e[s][1]]

AtLeast(n, low) == IF n < low THEN low ELSE n

Between(n, low, high) ==
    IF n < low THEN low ELSE IF n > high THEN high ELSE n

\* Mutant: the base is only kept below the end of the range of ports.
AnyPort(n) == IF n < 1024 \/ n > 65535 THEN 10820 ELSE n

\* The pool needs PoolSize ports from its base on.
UsableBase(n) == IF n < 1024 \/ n > 64000 THEN 10820 ELSE n

\* DAEMON_DEPTH="" is let through; the pipeline takes it for standard.
validate(c) ==
    [c EXCEPT
       !.Parallel         = Between(@, 1, 20),
       !.TimeoutSec       = AtLeast(@, 1),
       !.CycleSleepSec    = AtLeast(@, 10),
       !.MaxLatencyMs     = AtLeast(@, 0),
       !.PortBase         = UsableBase(@),
       !.Depth            = IF @ \in ValidDepth \cup {"empty"} THEN @ ELSE "standard",
       !.DomainTimeoutSec = AtLeast(@, 1),
       !.DomainQuorum     = AtLeast(@, 1),
       !.DomainMinBytes   = AtLeast(@, 1),
       !.Domains          = IF @ = <<"empty">> THEN DefaultDomains ELSE @,
       !.StabilityProbes  = Between(@, 1, 10),
       !.MaxXrayTests     = Between(@, 0, 100000)]

LoadConfigFromEnv(e) == validate(FromEnv(e))

\* DomainList: the entries that are not blank, or the defaults.
DomainList(c) ==
    LET set == SelectSeq(c.Domains, LAMBDA d : d # "empty")
    IN IF set = <<>> THEN DefaultDomains ELSE set

-----------------------------------------------------------------------------
SettingsInit ==
    /\ env = [s \in DOMAIN DefaultConfig |-> <<>>]
    /\ config = <<>>

Values(s) ==
    CASE s = "Depth"   -> DepthValues
      [] s = "Domains" -> DomainValues
      [] OTHER         -> Settings[s]

Running == config # <<>>

\* The operator edits the environment.
Edit(s) ==
    /\ ~Running
    /\ \E v \in {<<>>} \cup {<<x>> : x \in Values(s)} : env' = [env EXCEPT ![s] = v]
    /\ Cardinality({x \in DOMAIN env : env'[x] # <<>>}) <= MaxSet
    /\ UNCHANGED config

\* The daemon starts.
Load ==
    /\ ~Running
    /\ config' = <<LoadConfigFromEnv(env)>>
    /\ UNCHANGED env

Stop == Running /\ config' = <<>> /\ UNCHANGED env

SettingsNext == (\E s \in DOMAIN DefaultConfig : Edit(s)) \/ Load \/ Stop

SettingsSpec == SettingsInit /\ [][SettingsNext]_settingsVars

-----------------------------------------------------------------------------
\* Whatever the environment says, the settings fit what the other parts do
\* with them: the pool's ports are unprivileged ports that exist, a test never
\* waits for a port for want of a larger pool, every stage has some time, a
\* good config can be told from a bad one (at least one probe, a domain and a
\* quorum to ask for), and the cap and the ceiling are numbers that mean
\* something.
SettingsFit ==
    Running => LET c == config[1] IN
       /\ c.PortBase >= 1024 /\ c.PortBase + PoolSize - 1 <= 65535
       /\ c.Parallel \in 1..PoolSize
       /\ c.TimeoutSec >= 1 /\ c.DomainTimeoutSec >= 1 /\ c.CycleSleepSec >= 1
       /\ c.StabilityProbes >= 1 /\ c.DomainQuorum >= 1
       /\ DomainList(c) # <<>>
       /\ c.Depth \in ValidDepth \cup {"empty"}
       /\ c.MaxXrayTests >= 0 /\ c.MaxLatencyMs >= 0
=============================================================================
