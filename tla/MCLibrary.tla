----------------------------- MODULE MCLibrary -----------------------------
(***************************************************************************)
(* The components of the library share no state, and their modules no      *)
(* name: every behaviour is one of one of them, while the others stay as   *)
(* they begin.                                                             *)
(***************************************************************************)
EXTENDS ResultCache, XrayPool, WorkerPool, ResilientRunner, Subscription, DaemonConfig

CONSTANTS k1, k2, k3, c1, c2, c3, p1, p2, p3, t1, t2, t3, l1, l2

VARIABLE part

ASSUME /\ PoolAssumption /\ WorkerPoolAssumption /\ RunnerAssumption
       /\ SubsAssumption /\ ConfigAssumption

-----------------------------------------------------------------------------
(***************************************************************************)
(* Two lookups of three hosts in a cache for two.  DNSCache is made of     *)
(* LruEntries too, so it is an instance with entries of its own.           *)
(***************************************************************************)
VARIABLES dEntries, dLru, dKeyOf, dFresh, dMade, dPc, dHost, dUsed
dnsVars == <<dEntries, dLru, dKeyOf, dFresh, dMade, dPc, dHost, dUsed>>

Dns == INSTANCE DNSCache WITH
    Key <- {k1, k2, k3}, MaxSize <- 2, MaxEntries <- 4,
    entries <- dEntries, lru <- dLru, keyOf <- dKeyOf, fresh <- dFresh,
    made <- dMade, pc <- dPc, host <- dHost, used <- dUsed

\* The least recently used entry goes (DNSCache).
EvictsLeastUsed == Dns!EvictsLeastUsed
\* A DNSCache is an LruEntries.
DnsIsLru == Dns!LruSpec

-----------------------------------------------------------------------------
(***************************************************************************)
(* Batches of kinds that matter to Decide; no, some and too many retries   *)
(* for a duration of eight bits.                                           *)
(***************************************************************************)
BatchConfigs ==
    {[addr |-> "a", protocol |-> "vless"], [addr |-> "unset", protocol |-> "trojan"],
     [addr |-> "b", protocol |-> "reality"]}

Wishes ==
    {[depth |-> d, style |-> "unset", workers |-> 0, timeout |-> 0, retries |-> r,
      cache |-> <<>>] : d \in {"unset", "quick"}, r \in {-1, 0, 3, 6, 9}}

(***************************************************************************)
(* Settings inside, at and beyond every limit.                             *)
(***************************************************************************)
Numbers ==
    [CycleSleepSec |-> {9, 10}, Parallel |-> {-5, 0, 20, 21}, TimeoutSec |-> {0, 1},
     RetestIntervalSec |-> {0}, MaxLatencyMs |-> {-1, 800},
     PortBase |-> {80, 1024, 64000, 64001, 65500, 70000},
     DomainTimeoutSec |-> {0, 1}, DomainQuorum |-> {0, 5},
     DomainMinBytes |-> {0, 1}, StabilityProbes |-> {-1, 1, 11},
     MaxXrayTests |-> {-1, 0, 100001}]

SomeDomains == {<<"empty">>, <<"empty", "empty">>, <<"https://a", "empty">>}
TwoDomains  == <<"https://a", "https://b">>

-----------------------------------------------------------------------------
LibraryInit ==
    /\ part \in {"result", "dns", "pool", "workers", "runner", "subscription",
                 "settings"}
    /\ Init /\ Dns!Init /\ PoolInit /\ WorkersInit /\ RunInit
    /\ SubsInit /\ SettingsInit

LibraryNext ==
    /\ UNCHANGED part
    /\ \/ /\ part = "result" /\ Next
          /\ UNCHANGED <<dnsVars, poolVars, workersVars,
                         runVars, subsVars, settingsVars>>
       \/ /\ part = "dns" /\ Dns!Next
          /\ UNCHANGED <<vars, poolVars, workersVars,
                         runVars, subsVars, settingsVars>>
       \/ /\ part = "pool" /\ PoolNext
          /\ UNCHANGED <<vars, dnsVars, workersVars,
                         runVars, subsVars, settingsVars>>
       \/ /\ part = "workers" /\ WorkersNext
          /\ UNCHANGED <<vars, dnsVars, poolVars,
                         runVars, subsVars, settingsVars>>
       \/ /\ part = "runner" /\ RunNext
          /\ UNCHANGED <<vars, dnsVars, poolVars,
                         workersVars, subsVars, settingsVars>>
       \/ /\ part = "subscription" /\ SubsNext
          /\ UNCHANGED <<vars, dnsVars, poolVars,
                         workersVars, runVars, settingsVars>>
       \/ /\ part = "settings" /\ SettingsNext
          /\ UNCHANGED <<vars, dnsVars, poolVars,
                         workersVars, runVars, subsVars>>

LibrarySpec ==
    LibraryInit /\ [][LibraryNext]_<<part, vars, dnsVars, poolVars, workersVars,
                                     runVars, subsVars, settingsVars>>
=============================================================================
