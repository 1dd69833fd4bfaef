--------------------------- MODULE PipelineProofs ---------------------------
(***************************************************************************)
(* Proofs about Pipeline, for all timeouts, numbers of probes and domains. *)
(***************************************************************************)
EXTENDS Pipeline, RecursionProofs, FiniteSetTheorems

-----------------------------------------------------------------------------
(***************************************************************************)
(* What MedianDuration returns for every sequence.  The k-th smallest      *)
(* sample is the least one that k samples do not exceed: every set of      *)
(* naturals has a least element (Least of RecursionProofs).                *)
(***************************************************************************)
AtMost(s, v) == {i \in DOMAIN s : s[i] <= v}
Below(s, v)  == {i \in DOMAIN s : s[i] < v}
Above(s, v)  == {i \in DOMAIN s : s[i] > v}

LEMMA Indices ==
    ASSUME NEW n \in Nat
    PROVE  IsFiniteSet(1..n) /\ Cardinality(1..n) = n
<1>1. 1 \in Int /\ n \in Int
  OBVIOUS
<1>2. /\ IsFiniteSet(1..n)
      /\ Cardinality(1..n) = IF 1 > n THEN 0 ELSE n - 1 + 1
  BY <1>1, FS_Interval, Zenon
<1> QED BY <1>2

LEMMA Counts ==
    ASSUME NEW s \in Seq(Nat), NEW I \in SUBSET DOMAIN s
    PROVE  /\ IsFiniteSet(I) /\ Cardinality(I) \in Nat
           /\ Cardinality(I) <= Len(s)
           /\ \A J \in SUBSET I : Cardinality(J) <= Cardinality(I)
           /\ \A J \in SUBSET I : J # I => Cardinality(J) < Cardinality(I)
<1>1. DOMAIN s = 1..Len(s) /\ Len(s) \in Nat
  OBVIOUS
<1>2. IsFiniteSet(1..Len(s)) /\ Cardinality(1..Len(s)) = Len(s)
  BY <1>1, Indices
<1>3. IsFiniteSet(I) /\ Cardinality(I) <= Len(s)
  BY <1>1, <1>2, FS_Subset
<1>4. Cardinality(I) \in Nat
  BY <1>3, FS_CardinalityType
<1>5. ASSUME NEW J \in SUBSET I
      PROVE  /\ Cardinality(J) <= Cardinality(I)
             /\ J # I => Cardinality(J) < Cardinality(I)
  <2>1. IsFiniteSet(J) /\ Cardinality(J) <= Cardinality(I)
        /\ (Cardinality(J) = Cardinality(I) => J = I)
    BY <1>3, FS_Subset
  <2>2. Cardinality(J) \in Nat
    BY <2>1, FS_CardinalityType
  <2> QED BY <1>4, <2>1, <2>2
<1> QED BY <1>3, <1>4, <1>5

\* Some sample is the largest of those at the indices of I: the one that the
\* fewest of them reach.
LEMMA Largest ==
    ASSUME NEW s \in Seq(Nat), NEW I \in SUBSET DOMAIN s, I # {}
    PROVE  \E i \in I : \A j \in I : s[j] <= s[i]
<1> DEFINE Reach(i) == {j \in I : s[j] >= s[i]}
           Sizes    == {Cardinality(Reach(i)) : i \in I}
<1>1. \A i \in I : s[i] \in Nat
  OBVIOUS
<1>2. \A i \in I : Reach(i) \in SUBSET I /\ Reach(i) \in SUBSET DOMAIN s
  OBVIOUS
<1>3. \A i \in I : Cardinality(Reach(i)) \in Nat
  BY <1>2, Counts
<1>4. PICK c \in Sizes : \A m \in Sizes : c <= m
  <2>1. Sizes \in SUBSET Nat /\ Sizes # {}
    BY <1>3
  <2> HIDE DEF Sizes
  <2> QED BY <2>1, Least
<1>5. PICK i \in I : c = Cardinality(Reach(i))
  OBVIOUS
<1>6. ASSUME NEW j \in I, ~(s[j] <= s[i]) PROVE FALSE
  <2>1. s[j] \in Nat /\ s[i] \in Nat /\ s[j] > s[i]
    BY <1>1, <1>6
  <2>2. Reach(j) \subseteq Reach(i) /\ i \in Reach(i) /\ i \notin Reach(j)
    BY <1>1, <2>1
  <2>3. Cardinality(Reach(j)) < Cardinality(Reach(i))
    <3>1. Reach(j) \in SUBSET Reach(i) /\ Reach(j) # Reach(i)
      BY <2>2
    <3> HIDE DEF Reach
    <3> QED BY <1>2, <3>1, Counts
  <2>4. Cardinality(Reach(i)) <= Cardinality(Reach(j))
    BY <1>4, <1>5
  <2> QED BY <1>3, <2>3, <2>4
<1> QED BY <1>6

LEMMA NthExists ==
    ASSUME NEW s \in Seq(Nat), NEW k \in 1..Len(s)
    PROVE  \E v \in {s[i] : i \in DOMAIN s} :
              /\ Cardinality(Below(s, v)) < k
              /\ Cardinality(AtMost(s, v)) >= k
<1> DEFINE V == {s[i] : i \in DOMAIN s}
           G == {v \in V : Cardinality(AtMost(s, v)) >= k}
<1>1. DOMAIN s = 1..Len(s) /\ Len(s) \in Nat /\ V \in SUBSET Nat
  OBVIOUS
<1>2. \A v \in V : /\ AtMost(s, v) \in SUBSET DOMAIN s
                   /\ Below(s, v) \in SUBSET DOMAIN s
  BY DEF AtMost, Below
<1>3. \A v \in V : /\ Cardinality(AtMost(s, v)) \in Nat
                   /\ Cardinality(Below(s, v)) \in Nat
  <2> HIDE DEF V
  <2> QED BY <1>2, Counts
<1>4. G # {}
  <2>1. PICK i \in DOMAIN s : \A j \in DOMAIN s : s[j] <= s[i]
    <3>1. DOMAIN s # {}
      BY <1>1
    <3> QED BY <3>1, Largest
  <2>2. AtMost(s, s[i]) = 1..Len(s)
    BY <1>1, <2>1 DEF AtMost
  <2>3. Cardinality(1..Len(s)) = Len(s)
    BY <1>1, Indices
  <2> QED BY <2>2, <2>3
<1>5. PICK v \in G : \A w \in G : v <= w
  <2>1. G \in SUBSET Nat
    BY <1>1
  <2> HIDE DEF G
  <2> QED BY <1>4, <2>1, Least
<1>6. ASSUME Cardinality(Below(s, v)) >= k PROVE FALSE
  <2>1. Below(s, v) # {}
    <3>1. Below(s, v) = {} => Cardinality(Below(s, v)) = 0
      BY FS_EmptySet
    <3> QED BY <1>6, <3>1
  <2>2. PICK i \in Below(s, v) : \A j \in Below(s, v) : s[j] <= s[i]
    BY <1>2, <2>1, Largest
  <2>3. i \in DOMAIN s /\ s[i] < v
    BY <2>2 DEF Below
  <2>4. Below(s, v) \subseteq AtMost(s, s[i])
    BY <2>2 DEF Below, AtMost
  <2>5. AtMost(s, s[i]) \in SUBSET DOMAIN s /\ s[i] \in V
    BY <2>3 DEF AtMost
  <2>6. Cardinality(Below(s, v)) <= Cardinality(AtMost(s, s[i]))
    BY <2>4, <2>5, Counts
  <2>7. Cardinality(AtMost(s, s[i])) >= k
    <3>1. /\ Cardinality(AtMost(s, s[i])) \in Nat
          /\ Cardinality(Below(s, v)) \in Nat /\ k \in Nat
      BY <1>1, <1>3, <2>5
    <3> QED BY <3>1, <1>6, <2>6
  <2> QED BY <1>1, <1>5, <2>3, <2>5, <2>7
<1> QED BY <1>3, <1>5, <1>6

\* Fewer than k samples are below the k-th smallest, and at least k are not
\* above it.
LEMMA NthRank ==
    ASSUME NEW s \in Seq(Nat), NEW k \in 1..Len(s)
    PROVE  /\ Nth(s, k) \in Nat
           /\ Cardinality(Below(s, Nth(s, k))) < k
           /\ Cardinality(AtMost(s, Nth(s, k))) >= k
<1>1. /\ Nth(s, k) \in {s[i] : i \in DOMAIN s}
      /\ Cardinality(Below(s, Nth(s, k))) < k
      /\ Cardinality(AtMost(s, Nth(s, k))) >= k
  BY NthExists DEF Nth, Below, AtMost
<1>2. \A i \in DOMAIN s : s[i] \in Nat
  OBVIOUS
<1> QED BY <1>1, <1>2

LEMMA Split ==
    ASSUME NEW s \in Seq(Nat), NEW v \in Nat
    PROVE  Cardinality(Above(s, v)) = Len(s) - Cardinality(AtMost(s, v))
<1>1. DOMAIN s = 1..Len(s) /\ Len(s) \in Nat /\ \A i \in DOMAIN s : s[i] \in Nat
  OBVIOUS
<1>2. IsFiniteSet(1..Len(s)) /\ Cardinality(1..Len(s)) = Len(s)
  BY <1>1, Indices
<1>3. /\ Above(s, v) = (1..Len(s)) \ AtMost(s, v)
      /\ (1..Len(s)) \cap AtMost(s, v) = AtMost(s, v)
  BY <1>1 DEF Above, AtMost
<1> QED BY <1>2, <1>3, FS_Difference

LEMMA Median ==
    ASSUME NEW s \in Seq(Nat), s # <<>>
    PROVE  /\ 2 * Cardinality(Below(s, MedianDuration(s))) <= Len(s)
           /\ 2 * Cardinality(Above(s, MedianDuration(s))) <= Len(s)
<1> DEFINE n == Len(s)
           q == n \div 2
           m == MedianDuration(s)
<1>1. n \in Nat \ {0} /\ q \in Nat /\ (n = 2 * q \/ n = 2 * q + 1)
  OBVIOUS
<1>2. \A v \in Nat : /\ Below(s, v) \in SUBSET DOMAIN s
                     /\ AtMost(s, v) \in SUBSET DOMAIN s
                     /\ Above(s, v) \in SUBSET DOMAIN s
  BY DEF Below, AtMost, Above
<1>3. \A v \in Nat : /\ Cardinality(Below(s, v)) \in Nat
                     /\ Cardinality(AtMost(s, v)) \in Nat
                     /\ Cardinality(Above(s, v)) \in Nat
  BY <1>2, Counts
<1>4. CASE n = 2 * q + 1
  <2>1. m = Nth(s, q + 1) /\ q + 1 \in 1..n
    BY <1>1, <1>4 DEF MedianDuration
  <2>2. /\ m \in Nat /\ Cardinality(Below(s, m)) < q + 1
        /\ Cardinality(AtMost(s, m)) >= q + 1
    BY <2>1, NthRank
  <2>3. Cardinality(Above(s, m)) = n - Cardinality(AtMost(s, m))
    BY <2>2, Split
  <2> HIDE DEF m, n, q
  <2>4. /\ 2 * Cardinality(Below(s, m)) <= n
        /\ 2 * Cardinality(Above(s, m)) <= n
    <3>1. /\ Cardinality(Below(s, m)) \in Nat
          /\ Cardinality(AtMost(s, m)) \in Nat
      BY <1>3, <2>2
    <3> QED BY <1>1, <1>4, <2>2, <2>3, <3>1
  <2> QED BY <2>4 DEF m, n
<1>5. CASE n = 2 * q
  <2> DEFINE a == Nth(s, q)
             b == Nth(s, q + 1)
  <2>1. m = (a + b) \div 2 /\ q \in 1..n /\ q + 1 \in 1..n
    BY <1>1, <1>5 DEF MedianDuration
  <2>2. /\ a \in Nat /\ Cardinality(Below(s, a)) < q
        /\ Cardinality(AtMost(s, a)) >= q
    BY <2>1, NthRank
  <2>3. /\ b \in Nat /\ Cardinality(Below(s, b)) < q + 1
        /\ Cardinality(AtMost(s, b)) >= q + 1
    BY <2>1, NthRank
  <2> HIDE DEF m, n, q, a, b
  <2>4. \A i \in DOMAIN s : s[i] \in Nat
    OBVIOUS
  <2>5. ASSUME b < a PROVE FALSE
    <3>1. AtMost(s, b) \subseteq Below(s, a)
      BY <2>2, <2>3, <2>4, <2>5 DEF AtMost, Below
    <3>2. Cardinality(AtMost(s, b)) <= Cardinality(Below(s, a))
      BY <1>2, <2>2, <2>3, <3>1, Counts
    <3> QED BY <1>1, <1>3, <2>2, <2>3, <3>2
  <2>6. m \in Nat /\ a <= m /\ m <= b
    BY <2>1, <2>2, <2>3, <2>5
  <2>7. Below(s, m) \subseteq Below(s, b) /\ Above(s, m) \subseteq Above(s, a)
    BY <2>2, <2>3, <2>4, <2>6 DEF Below, Above
  <2>8. /\ Cardinality(Below(s, m)) <= Cardinality(Below(s, b))
        /\ Cardinality(Above(s, m)) <= Cardinality(Above(s, a))
    BY <1>2, <2>2, <2>3, <2>7, Counts
  <2>9. Cardinality(Above(s, a)) = n - Cardinality(AtMost(s, a))
    BY <2>2, Split DEF n
  <2>10. /\ 2 * Cardinality(Below(s, m)) <= n
         /\ 2 * Cardinality(Above(s, m)) <= n
    <3>1. /\ Cardinality(Below(s, m)) \in Nat
          /\ Cardinality(Above(s, m)) \in Nat
          /\ Cardinality(Below(s, b)) \in Nat
          /\ Cardinality(Above(s, a)) \in Nat
          /\ Cardinality(AtMost(s, a)) \in Nat
      BY <1>3, <2>2, <2>3, <2>6
    <3> QED BY <1>1, <1>5, <2>2, <2>3, <2>8, <2>9, <3>1
  <2> QED BY <2>10 DEF m, n
<1> QED BY <1>1, <1>4, <1>5

-----------------------------------------------------------------------------
(***************************************************************************)
(* The invariant of a run.                                                 *)
(***************************************************************************)
USE PipelineAssumption

\* What the proofs need of the types.
Typed ==
    /\ cfg \in ParseSingle
    /\ clock \in Nat /\ samples \in Seq(Nat) /\ domainRuns \in Nat
    /\ pc \in {"tcp", "tls", "fields", "handshake", "probe", "proxy", "domain",
               "done"}

\* The verifications made so far, told by where the run is.
Counted ==
    /\ pc \in {"tcp", "tls", "fields", "handshake", "probe"} =>
          samples = <<>> /\ domainRuns = 0
    /\ pc = "proxy" => /\ Len(samples) < Probes
                       /\ ChecksDomains => domainRuns = Len(samples)
    /\ pc = "domain" => /\ ChecksDomains /\ Len(samples) <= Probes
                        /\ Len(samples) = domainRuns + 1
    /\ pc \in {"proxy", "domain"} => depth # "quick"
    /\ pc # "done" => status = "success" /\ stage # "completed"

\* Which cheap stages lie behind.
Climbed ==
    /\ pc \in {"tls", "fields", "handshake", "probe", "proxy", "domain"} =>
          "tcp" \in cheap
    /\ pc \in {"fields", "handshake", "probe", "proxy", "domain"}
          /\ NeedsTLS(cfg) => "tls" \in cheap
    /\ pc \in {"handshake", "probe", "proxy", "domain"} => Complete(cfg)
    /\ pc \in {"probe", "proxy", "domain"} => "handshake" \in cheap
    /\ pc = "probe" => HandshakeTLS(cfg)
    /\ pc \in {"proxy", "domain"} /\ HandshakeTLS(cfg) => "probe" \in cheap
    /\ pc = "domain" => Outbound(cfg) # NoOutbound

\* The stage a result names and the verifications behind it.
Named ==
    /\ pc \in {"tcp"} => stage = "tcp"
    /\ pc \in {"tls", "fields"} => stage = "tls"
    /\ pc \in {"handshake", "probe"} => stage = "protocol"
    /\ pc = "proxy" => stage = IF samples = <<>> THEN "proxy" ELSE "stability"
    /\ pc = "domain" => stage \in {"domain", "stability"} /\ samples # <<>>

IInv == Typed /\ Counted /\ Climbed /\ Named /\ SuccessIsEarned
              /\ StageNamesFailure

LEMMA ProbesPositive == Probes \in Nat \ {0}
BY DEF Probes, Larger

LEMMA StagePositive ==
    /\ Stage \in Nat \ {0} /\ XrayTimeout <= Stage /\ TCPTimeout <= Stage
    /\ TLSTimeout <= Stage /\ ProtoTimeout <= Stage
BY DEF Stage, Larger

LEMMA BudgetIsNat == Budget \in Nat
<1>1. \A n \in Nat : n * Stage \in Nat
  BY StagePositive
<1> QED BY <1>1, ProbesPositive DEF Budget

LEMMA Timeouts ==
    /\ TCPTimeout \in Nat \ {0} /\ TLSTimeout \in Nat \ {0}
    /\ ProtoTimeout \in Nat \ {0} /\ XrayTimeout \in Nat \ {0}
OBVIOUS

LEMMA ClockNat ==
    ASSUME clock \in Nat, NEW d \in Nat, Elapses(d)
    PROVE  clock' \in Nat
BY BudgetIsNat DEF Elapses, Larger

\* After a verification either another one is due or the run has completed.
LEMMA VerifiedCases ==
    ASSUME Verified
    PROVE  /\ status' = status
           /\ \/ Len(samples') < Probes /\ pc' = "proxy" /\ stage' = "stability"
              \/ /\ ~(Len(samples') < Probes)
                 /\ pc' = "done" /\ stage' = "completed"
BY DEF Verified, Goto, Completes

\* The depth of a run and its config, and so all that depends on them, do not
\* change.
LEMMA DepthStays ==
    ASSUME [Next]_vars
    PROVE  /\ depth' = depth /\ cfg' = cfg
           /\ (ChecksDomains' <=> ChecksDomains) /\ Budget' = Budget
<1>1. depth' = depth /\ cfg' = cfg
  BY DEF Next, vars, TestTCP, TestTLS, CheckFields, Handshake,
     HandshakeOverTLS, CannotTunnel, ProxyFails, ProxyAnswers, CheckDomains
<1>2. ChecksDomains' <=> ChecksDomains
  BY <1>1 DEF ChecksDomains
<1> QED BY <1>1, <1>2 DEF Budget

LEMMA InitInv == Init => IInv
BY ProbesPositive DEF Init, Config, IInv, Typed, Counted, Climbed, Named,
   SuccessIsEarned, StageNamesFailure, Ended

LEMMA StepInv == IInv /\ [Next]_vars => IInv'
<1> SUFFICES ASSUME IInv, [Next]_vars PROVE IInv'
  OBVIOUS
<1> USE ProbesPositive, BudgetIsNat
<1> USE DEF IInv, Goto, Fails, Completes, Judges
<1>0. depth' = depth /\ (ChecksDomains' <=> ChecksDomains) /\ cfg' = cfg
  BY DepthStays
<1>1. Typed'
  <2>1. clock' \in Nat
    <3>1. CASE TestTLS \/ HandshakeOverTLS
      BY <3>1, Timeouts DEF TestTLS, HandshakeOverTLS, Typed
    <3>2. CASE TestTCP \/ Handshake
      BY <3>2, Timeouts, ClockNat DEF TestTCP, Handshake, Typed
    <3>3. CASE ProxyFails \/ ProxyAnswers \/ CheckDomains
      BY <3>3, Timeouts, ClockNat DEF ProxyFails, ProxyAnswers, CheckDomains,
         Typed
    <3>4. CASE CheckFields \/ CannotTunnel \/ UNCHANGED vars
      BY <3>4 DEF CheckFields, CannotTunnel, vars, Typed
    <3> QED BY <3>1, <3>2, <3>3, <3>4 DEF Next
  <2>c. cfg' \in ParseSingle
    BY <1>0 DEF Typed
  <2>2. CASE TestTCP \/ TestTLS \/ CheckFields
    BY <2>c, <2>1, <2>2 DEF TestTCP, TestTLS, CheckFields, Typed
  <2>3. CASE Handshake \/ HandshakeOverTLS
    BY <2>c, <2>1, <2>3 DEF Handshake, HandshakeOverTLS, AfterHandshake, Typed
  <2>4. CASE CannotTunnel \/ ProxyFails
    BY <2>c, <2>1, <2>4 DEF CannotTunnel, ProxyFails, Typed
  <2>5. CASE ProxyAnswers
    <3>1. samples' \in Seq(Nat)
      BY <2>5, Timeouts DEF ProxyAnswers, Typed
    <3>2. pc' \in {"domain", "proxy", "done"} /\ domainRuns' = domainRuns
      BY <2>5 DEF ProxyAnswers, Verified
    <3> QED BY <2>c, <2>1, <3>1, <3>2 DEF Typed
  <2>6. CASE CheckDomains
    <3>1. /\ pc' \in {"proxy", "done"} /\ samples' = samples
          /\ domainRuns' \in {domainRuns, domainRuns + 1}
      BY <2>6 DEF CheckDomains, Verified
    <3> QED BY <2>c, <2>1, <3>1 DEF Typed
  <2>7. CASE UNCHANGED vars
    BY <2>7 DEF vars, Typed
  <2> QED BY <2>2, <2>3, <2>4, <2>5, <2>6, <2>7 DEF Next
<1>2. CASE TestTCP
  BY <1>0, <1>1, <1>2 DEF TestTCP, Counted, Climbed, Named, SuccessIsEarned,
     StageNamesFailure, Ended
<1>3. CASE TestTLS
  BY <1>0, <1>1, <1>3 DEF TestTLS, Counted, Climbed, Named, SuccessIsEarned,
     StageNamesFailure, Ended
<1>4. CASE CheckFields
  BY <1>0, <1>1, <1>4 DEF CheckFields, Counted, Climbed, Named, SuccessIsEarned,
     StageNamesFailure, Ended
<1>5. CASE Handshake
  BY <1>0, <1>1, <1>5 DEF Handshake, AfterHandshake, Counted, Climbed, Named,
     SuccessIsEarned, StageNamesFailure, Ended
<1>6. CASE HandshakeOverTLS
  BY <1>0, <1>1, <1>6 DEF HandshakeOverTLS, AfterHandshake, Counted, Climbed, Named,
     SuccessIsEarned, StageNamesFailure, Ended
<1>7. CASE CannotTunnel \/ ProxyFails
  BY <1>0, <1>1, <1>7 DEF CannotTunnel, ProxyFails, Counted, Climbed, Named,
     SuccessIsEarned, StageNamesFailure, Ended
<1>8. CASE ProxyAnswers
  <2>1. Len(samples') = Len(samples) + 1 /\ samples' # <<>>
    BY <1>8 DEF ProxyAnswers, Typed
  <2>o. Outbound(cfg) # NoOutbound
    BY <1>8 DEF ProxyAnswers, NoOutbound, Proxy, XrayOutbounds
  <2>2. CASE ChecksDomains
    <3>1. /\ pc = "proxy" /\ pc' = "domain" /\ status' = status
          /\ stage' = IF samples = <<>> THEN "domain" ELSE stage
          /\ UNCHANGED <<cheap, domainRuns>>
      BY <1>8, <2>2 DEF ProxyAnswers
    <3>2. Counted' /\ Climbed'
      BY <1>0, <1>1, <2>1, <2>2, <2>o, <3>1 DEF Typed, Counted, Climbed
    <3>3. Named'
      BY <1>0, <1>1, <2>1, <3>1 DEF Counted, Named
    <3>4. SuccessIsEarned' /\ StageNamesFailure'
      BY <3>1 DEF SuccessIsEarned, StageNamesFailure, Ended
    <3> QED BY <1>1, <3>2, <3>3, <3>4
  <2>3. CASE ~ChecksDomains
    <3>1. Verified /\ UNCHANGED <<cfg, cheap, domainRuns>> /\ pc = "proxy"
      BY <1>8, <2>3 DEF ProxyAnswers
    <3> QED
      BY <1>0, <1>1, <2>1, <2>3, <2>o, <3>1, VerifiedCases DEF Typed, Counted, Climbed,
         Named, SuccessIsEarned, StageNamesFailure, Ended, ChecksDomains
  <2> QED BY <2>2, <2>3
<1>9. CASE CheckDomains
  <2>1. pc = "domain" /\ UNCHANGED <<cfg, cheap>> /\ samples' = samples
    BY <1>9 DEF CheckDomains
  <2>2. CASE Fails /\ UNCHANGED domainRuns
    BY <1>0, <1>1, <2>1, <2>2 DEF Counted, Climbed, Named, SuccessIsEarned,
       StageNamesFailure, Ended
  <2>3. CASE Verified /\ domainRuns' = domainRuns + 1
    BY <1>0, <1>1, <2>1, <2>3, VerifiedCases DEF Typed, Counted, Climbed, Named,
       SuccessIsEarned, StageNamesFailure, Ended, ChecksDomains
  <2> QED BY <1>9, <2>2, <2>3 DEF CheckDomains
<1>10. CASE UNCHANGED vars
  BY <1>0, <1>10 DEF vars, Typed, Counted, Climbed, Named, SuccessIsEarned,
     StageNamesFailure, Ended
<1> QED
  BY <1>2, <1>3, <1>4, <1>5, <1>6, <1>7, <1>8, <1>9, <1>10 DEF Next

LEMMA Invariant == Spec => []IInv
BY InitInv, StepInv, PTL DEF Spec

\* Whatever the depth, the number of probes and the domains: a result is a
\* success only after every end-to-end verification that was asked for.
THEOREM SuccessIsEarnedHolds == Spec => []SuccessIsEarned
BY Invariant, PTL DEF IInv

\* "completed" is the stage of the successes and of nothing else.
THEOREM StageNamesFailureHolds == Spec => []StageNamesFailure
BY Invariant, PTL DEF IInv

\* What the parsers guarantee about TLS and about the fields.
LEMMA ParsedLinks ==
    ASSUME NEW c \in ParseSingle
    PROVE  \/ c.protocol = "ss"
           \/ c.protocol \in {"vmess", "vless", "wireguard", "socks5"} /\ Complete(c)
           \/ /\ c.protocol \in {"trojan", "reality", "tuic", "hysteria2"}
              /\ c.tls = TRUE /\ Complete(c)
<1> USE DEF Links, Complete, Required
<1>1. CASE c \in ParseSS
  BY <1>1 DEF ParseSS
<1>2. CASE c \in ParseVMess
  BY <1>2 DEF ParseVMess
<1>3. CASE c \in ParseVLess
  BY <1>3 DEF ParseVLess
<1>4. CASE c \in ParseTrojan
  BY <1>4 DEF ParseTrojan
<1>5. CASE c \in ParseReality
  BY <1>5 DEF ParseReality
<1>6. CASE c \in ParseWireGuard
  BY <1>6 DEF ParseWireGuard
<1>7. CASE c \in ParseTUIC
  BY <1>7 DEF ParseTUIC
<1>8. CASE c \in ParseHysteria2
  BY <1>8 DEF ParseHysteria2
<1>9. CASE c \in ParseSocks5
  BY <1>9 DEF ParseSocks5
<1> QED
  BY <1>1, <1>2, <1>3, <1>4, <1>5, <1>6, <1>7, <1>8, <1>9 DEF ParseSingle

\* The outbound of a parsed config is secured only if its TLS stage is run.
LEMMA OutboundSecurity ==
    ASSUME NEW c \in ParseSingle
    PROVE  /\ Outbound(c).security # "none" => NeedsTLS(c)
           /\ Outbound(c).security = "reality" => HandshakeTLS(c)
<1> USE DEF Outbound, Proxy, NeedsTLS, HandshakeTLS
<1>1. CASE c.protocol = "vmess"
  BY <1>1 DEF VMessOutbound, IfEnabled
<1>2. CASE c.protocol = "vless"
  BY <1>2 DEF VLessOutbound, IfEnabled
<1>3. CASE c.protocol = "trojan"
  BY <1>3, ParsedLinks DEF TrojanOutbound
<1>4. CASE c.protocol = "reality"
  BY <1>4 DEF RealityOutbound
<1>5. CASE c.protocol \in {"ss", "wireguard", "socks5", "tuic", "hysteria2"}
  BY <1>5 DEF SSOutbound, WireGuardOutbound, Socks5Outbound, NoOutbound
<1> QED BY <1>1, <1>2, <1>3, <1>4, <1>5, ParsedLinks

\* xray is only spawned for configs that passed the cheap stages.
THEOREM TunnelAfterCheapStagesHolds == Spec => []TunnelAfterCheapStages
<1>1. ASSUME IInv PROVE TunnelAfterCheapStages
  <2>1. cfg \in ParseSingle
    BY <1>1 DEF IInv, Typed
  <2>2. Outbound(cfg).security # "none" => NeedsTLS(cfg)
    BY <2>1, OutboundSecurity
  <2>3. Outbound(cfg).security = "reality" => HandshakeTLS(cfg)
    BY <2>1, OutboundSecurity
  <2> QED BY <1>1, <2>2, <2>3 DEF IInv, Counted, Climbed, TunnelAfterCheapStages
<1> QED BY <1>1, Invariant, PTL

\* A run only stops for missing fields when it tests an SS link.
THEOREM FieldsStopOnlySSHolds == Spec => []FieldsStopOnlySS
<1>1. ASSUME NEW c \in ParseSingle, ~Complete(c) PROVE c.protocol = "ss"
  BY <1>1, ParsedLinks
<1>2. IInv => FieldsStopOnlySS
  BY <1>1 DEF IInv, Typed, FieldsStopOnlySS
<1> QED BY <1>2, Invariant, PTL

-----------------------------------------------------------------------------
(***************************************************************************)
(* The deadline.  A stage is at most Stage long, so n stages end by        *)
(* n * Stage; Budget is the product for the longest run, unless the        *)
(* config is a REALITY link: TUIC and Hysteria2 make a second connection   *)
(* too, and then no tunnel.                                                *)
(***************************************************************************)
\* Stages per verification.
Unit == IF ChecksDomains THEN 2 ELSE 1

\* The stages that may lie behind.
Spent ==
    CASE pc = "tcp"       -> 0
      [] pc = "tls"       -> 1
      [] pc \in {"fields", "handshake"} -> 2
      [] pc = "proxy"     -> 3 + Unit * Len(samples)
      [] pc = "domain"    -> 2 + Unit * Len(samples)
      [] OTHER            -> 3 + Unit * Probes

OnTime ==
    /\ ~cut
    /\ pc \notin {"probe", "done"} /\ ~(pc = "proxy" /\ Outbound(cfg) = NoOutbound)
          => clock <= Spent * Stage

LEMMA BudgetIsStages ==
    /\ Unit \in {1, 2} /\ 3 + Unit * Probes \in Nat
    /\ Budget = (3 + Unit * Probes) * Stage
<1>1. CASE ChecksDomains
  <2>1. 3 + Probes + Probes = 3 + 2 * Probes
    BY ProbesPositive
  <2> QED BY <1>1, <2>1, ProbesPositive DEF Budget, Unit
<1>2. CASE ~ChecksDomains
  <2>1. 3 + Probes + 0 = 3 + 1 * Probes
    BY ProbesPositive
  <2> QED BY <1>2, <2>1, ProbesPositive DEF Budget, Unit
<1> QED BY <1>1, <1>2

LEMMA NextStage ==
    ASSUME NEW n \in Nat, NEW d \in Nat, clock \in Nat,
           clock <= n * Stage, d <= Stage
    PROVE  clock + d <= (n + 1) * Stage
<1>1. /\ n * Stage \in Nat /\ Stage \in Nat
      /\ (n + 1) * Stage = n * Stage + Stage
  BY StagePositive
<1> QED BY <1>1

LEMMA FewerStages ==
    ASSUME NEW m \in Nat, NEW n \in Nat, m <= n
    PROVE  m * Stage <= n * Stage
BY StagePositive

\* A stage that is not longer than Stage ends before the deadline as long as
\* it is among the stages that Budget counts.
LEMMA WithinBudget ==
    ASSUME NEW n \in Nat, NEW d \in Nat, clock \in Nat,
           clock <= n * Stage, d <= Stage, n + 1 <= 3 + Unit * Probes
    PROVE  /\ InTime(d) /\ clock + d <= (n + 1) * Stage
           /\ Elapses(d) /\ ~cut => clock' = clock + d /\ ~cut'
<1>1. clock + d <= (n + 1) * Stage
  BY NextStage
<1>2. (n + 1) * Stage <= Budget
  BY FewerStages, BudgetIsStages
<1>3. InTime(d)
  <2>1. (n + 1) * Stage \in Nat
    BY StagePositive
  <2> QED BY <1>1, <1>2, <2>1, BudgetIsNat DEF InTime
<1>4. ~(clock + d > Budget)
  BY <1>3, BudgetIsNat DEF InTime
<1>5. ASSUME Elapses(d), ~cut PROVE clock' = clock + d /\ ~cut'
  BY <1>3, <1>4, <1>5 DEF Elapses, InTime
<1> QED BY <1>1, <1>3, <1>5

LEMMA NoTunnelAfterTLS ==
    ASSUME HandshakeTLS(cfg), cfg.protocol # "reality"
    PROVE  Outbound(cfg) = NoOutbound
BY DEF HandshakeTLS, Outbound

LEMMA OnTimeStep ==
    ASSUME cfg.protocol # "reality"
    PROVE  IInv /\ OnTime /\ [Next]_vars => OnTime'
<1> SUFFICES ASSUME IInv, OnTime, [Next]_vars PROVE OnTime'
  OBVIOUS
<1> USE DEF Goto, Fails, Completes
<1>t. /\ clock \in Nat /\ samples \in Seq(Nat) /\ domainRuns \in Nat
      /\ Len(samples) \in Nat
  BY DEF IInv, Typed
<1>s. /\ Probes \in Nat \ {0} /\ Stage \in Nat \ {0} /\ Unit \in {1, 2}
      /\ 3 + Unit * Probes \in Nat
      /\ 1 * Stage = Stage /\ 0 * Stage = 0
  BY ProbesPositive, StagePositive, BudgetIsStages
<1>h. cfg.protocol # "reality" /\ ~cut
  BY DEF OnTime
<1>d. depth' = depth /\ cfg' = cfg /\ (ChecksDomains' <=> ChecksDomains)
  BY DepthStays
<1>u. Unit' = Unit
  BY <1>d DEF Unit
<1>1. CASE TestTCP
  <2> PICK d \in 1..TCPTimeout, ok \in BOOLEAN :
         Elapses(d) /\ IF ok /\ InTime(d)
                 THEN Goto(IF NeedsTLS(cfg) THEN "tls" ELSE "fields", "tls")
                 ELSE Fails
    BY <1>1 DEF TestTCP
  <2>1. clock <= 0 * Stage /\ d \in Nat /\ d <= Stage
    BY <1>1, <1>s, Timeouts, StagePositive DEF TestTCP, OnTime, Spent
  <2>5. 0 \in Nat /\ 0 + 1 <= 3 + Unit * Probes
    BY <1>s
  <2>2. clock' <= (0 + 1) * Stage /\ ~cut'
    BY <2>1, <2>5, <1>t, <1>h, WithinBudget
  <2>3. clock' \in Nat /\ cfg' = cfg /\ pc' \in {"tls", "fields", "done"}
    BY <2>1, <1>1, <1>t, ClockNat DEF TestTCP
  <2>4. (0 + 1) * Stage <= 2 * Stage
    BY <1>s
  <2> QED BY <2>2, <2>3, <2>4, <1>s, <1>h DEF OnTime, Spent
<1>2. CASE TestTLS
  <2>1. /\ \E d \in 1..TLSTimeout : clock' = clock + d
        /\ pc' \in {"fields", "done"} /\ cfg' = cfg /\ cut' = cut
        /\ clock <= 1 * Stage
    BY <1>2 DEF TestTLS, OnTime, Spent
  <2>2. clock' <= 2 * Stage
    BY <2>1, <1>t, <1>s, Timeouts, StagePositive
  <2> QED BY <2>1, <2>2, <1>h DEF OnTime, Spent
<1>3. CASE CheckFields
  BY <1>3, <1>h DEF CheckFields, OnTime, Spent
<1>4. CASE Handshake
  <2> PICK d \in 1..ProtoTimeout : /\ Elapses(d) /\ UNCHANGED <<cfg, samples>>
                                   /\ pc' \in {"done", "proxy", "probe"}
    BY <1>4 DEF Handshake, AfterHandshake
  <2>1. clock <= 2 * Stage /\ d \in Nat /\ d <= Stage /\ samples = <<>>
    BY <1>4, <1>s, Timeouts, StagePositive
       DEF Handshake, OnTime, Spent, IInv, Counted
  <2>2. 2 + 1 <= 3 + Unit * Probes
    BY <1>s
  <2>3. clock' <= (2 + 1) * Stage /\ ~cut'
    BY <2>1, <2>2, <1>t, <1>h, WithinBudget
  <2>4. Len(samples') = 0 /\ Unit' * Len(samples') = 0
    BY <2>1, <1>s, <1>u
  <2>5. pc' = "proxy" => Spent' = 2 + 1
    BY <2>4 DEF Spent
  <2> QED BY <2>3, <2>5 DEF OnTime
<1>5. CASE HandshakeOverTLS
  <2>1. pc' \in {"done", "proxy"} /\ cut' = cut /\ cfg' = cfg
    BY <1>5 DEF HandshakeOverTLS, AfterHandshake
  <2>2. Outbound(cfg) = NoOutbound
    BY <1>5, <1>h, NoTunnelAfterTLS DEF HandshakeOverTLS, IInv, Climbed
  <2> QED BY <2>1, <2>2, <1>h DEF OnTime
<1>v. ASSUME pc = "proxy" \/ pc = "domain", Outbound(cfg) # NoOutbound, NEW d \in 1..XrayTimeout
      PROVE  /\ d \in Nat /\ d <= Stage
             /\ InTime(d) /\ clock + d <= (Spent + 1) * Stage
             /\ Elapses(d) => clock' = clock + d /\ ~cut'
  <2>1. Spent \in Nat /\ Spent + 1 <= 3 + Unit * Probes
    <3>1. CASE pc = "proxy"
      <4>1. Spent = 3 + Unit * Len(samples) /\ Len(samples) + 1 <= Probes
        BY <3>1, <1>t, <1>s DEF Spent, IInv, Counted
      <4>2. CASE Unit = 1
        BY <4>1, <4>2, <1>t, <1>s
      <4>3. CASE Unit = 2
        BY <4>1, <4>3, <1>t, <1>s
      <4> QED BY <4>2, <4>3, <1>s
    <3>2. CASE pc = "domain"
      <4>1. /\ Spent = 2 + Unit * Len(samples) /\ Len(samples) <= Probes
            /\ Unit = 2
        BY <3>2 DEF Spent, IInv, Counted, Unit
      <4> QED BY <4>1, <1>t, <1>s
    <3> QED BY <3>1, <3>2, <1>v
  <2>2. clock <= Spent * Stage /\ d \in Nat /\ d <= Stage
    BY <1>v, Timeouts, StagePositive DEF OnTime
  <2> QED BY <2>1, <2>2, <1>t, <1>h, WithinBudget
<1>c. CASE CannotTunnel
  BY <1>c, <1>h DEF CannotTunnel, OnTime
<1>6. CASE ProxyFails
  <2>1. PICK d \in 1..XrayTimeout, own \in BOOLEAN : Elapses(d)
    BY <1>6 DEF ProxyFails
  <2>2. /\ pc = "proxy" /\ pc' = "done" /\ cfg' = cfg
        /\ Outbound(cfg) # NoOutbound
    BY <1>6 DEF ProxyFails
  <2> QED BY <1>v, <1>h, <2>1, <2>2 DEF OnTime
<1>7. CASE ProxyAnswers
  <2>1. PICK d \in 1..XrayTimeout : Elapses(d)
    BY <1>7 DEF ProxyAnswers
  <2>2. /\ pc = "proxy" /\ cfg' = cfg /\ Len(samples') = Len(samples) + 1
        /\ pc' \in {"domain", "proxy", "done"}
        /\ pc' = "domain" <=> ChecksDomains
        /\ Outbound(cfg) # NoOutbound
    BY <1>7, <1>t DEF ProxyAnswers, Verified, NoOutbound, Proxy, XrayOutbounds
  <2>3. pc' # "done" => Spent' = Spent + 1
    <3>1. CASE pc' = "domain"
      <4>1. Unit = 2 /\ Unit' = 2
        BY <3>1, <2>2, <1>u DEF Unit
      <4>2. Spent' = 2 + 2 * Len(samples') /\ Spent = 3 + 2 * Len(samples)
        BY <3>1, <2>2, <4>1 DEF Spent
      <4> QED BY <4>2, <2>2, <1>t
    <3>2. CASE pc' = "proxy"
      <4>1. Unit = 1 /\ Unit' = 1
        BY <3>2, <2>2, <1>u DEF Unit
      <4>2. Spent' = 3 + 1 * Len(samples') /\ Spent = 3 + 1 * Len(samples)
        BY <3>2, <2>2, <4>1 DEF Spent
      <4> QED BY <4>2, <2>2, <1>t
    <3> QED BY <3>1, <3>2, <2>2
  <2> QED BY <1>v, <1>h, <2>1, <2>2, <2>3 DEF OnTime
<1>8. CASE CheckDomains
  <2>1. PICK d \in 1..XrayTimeout : Elapses(d)
    BY <1>8 DEF CheckDomains
  <2>2. /\ pc = "domain" /\ cfg' = cfg /\ samples' = samples
        /\ pc' \in {"proxy", "done"} /\ Outbound(cfg) # NoOutbound
    BY <1>8 DEF CheckDomains, Verified, IInv, Climbed
  <2>3. pc' # "done" => Spent' = Spent + 1
    BY <2>2, <1>t, <1>u DEF Spent, Unit, IInv, Counted
  <2> QED BY <1>v, <1>h, <2>1, <2>2, <2>3 DEF OnTime
<1>9. CASE UNCHANGED vars
  BY <1>9, <1>u DEF vars, OnTime, Spent
<1> QED
  BY <1>1, <1>2, <1>3, <1>4, <1>5, <1>c, <1>6, <1>7, <1>8, <1>9 DEF Next

\* Budget is enough, whatever the timeouts, the probes, the domains and the
\* depth, for every config but a REALITY link.
THEOREM OnlyRealityIsCutHolds == Spec => []OnlyRealityIsCut
<1> DEFINE Inv == cfg.protocol = "reality" \/ OnTime
<1>1. Init => Inv
  BY StagePositive DEF Init, OnTime, Spent
<1>2. IInv /\ Inv /\ [Next]_vars => Inv'
  <2> SUFFICES ASSUME IInv, Inv, [Next]_vars PROVE Inv'
    OBVIOUS
  <2>1. cfg' = cfg
    BY DepthStays
  <2>2. CASE cfg.protocol = "reality"
    BY <2>1, <2>2
  <2>3. CASE cfg.protocol # "reality"
    <3>1. OnTime'
      BY <2>3, OnTimeStep
    <3> QED BY <3>1
  <2> QED BY <2>2, <2>3
<1>3. Inv => OnlyRealityIsCut
  BY DEF OnTime, OnlyRealityIsCut
<1> HIDE DEF Inv
<1> QED BY <1>1, <1>2, <1>3, Invariant, PTL DEF Spec

-----------------------------------------------------------------------------
(***************************************************************************)
(* The time of a config that xray cannot carry.                            *)
(***************************************************************************)
Fast ==
    /\ pc = "tcp" => clock = 0
    /\ pc = "tls" => clock <= TCPTimeout
    /\ pc \in {"fields", "handshake"} => clock <= TCPTimeout + TLSTimeout
    /\ pc = "probe" => clock <= TCPTimeout + TLSTimeout + ProtoTimeout
    /\ clock <= TCPTimeout + TLSTimeout + 2 * ProtoTimeout

LEMMA ElapsesAtMost ==
    ASSUME clock \in Nat, NEW d \in Nat, Elapses(d)
    PROVE  clock' \in Nat /\ clock' <= clock + d
BY BudgetIsNat DEF Elapses, Larger

LEMMA KnownOutbound ==
    ASSUME NEW c \in ParseSingle, Outbound(c).protocol \notin XrayOutbounds
    PROVE  Outbound(c) = NoOutbound
<1> USE DEF Outbound, Proxy, XrayOutbounds
<1>1. CASE c.protocol \in {"ss", "vmess", "vless", "trojan"}
  BY <1>1 DEF SSOutbound, VMessOutbound, VLessOutbound, TrojanOutbound
<1>2. CASE c.protocol \in {"reality", "wireguard", "socks5"}
  BY <1>2 DEF RealityOutbound, WireGuardOutbound, Socks5Outbound
<1>3. CASE c.protocol \in {"tuic", "hysteria2"}
  BY <1>3
<1> QED BY <1>1, <1>2, <1>3, ParsedLinks

LEMMA FastStep ==
    ASSUME Outbound(cfg) = NoOutbound
    PROVE  IInv /\ Fast /\ [Next]_vars => Fast'
<1> SUFFICES ASSUME IInv, Fast, [Next]_vars PROVE Fast'
  OBVIOUS
<1> USE DEF Goto, Fails, Completes
<1>t. clock \in Nat
  BY DEF IInv, Typed
<1>1. CASE TestTCP
  <2>1. PICK d \in 1..TCPTimeout : Elapses(d)
    BY <1>1 DEF TestTCP
  <2>2. pc = "tcp" /\ pc' \in {"tls", "fields", "done"}
    BY <1>1 DEF TestTCP
  <2>3. clock' \in Nat /\ clock' <= clock + d
    BY <1>t, <2>1, ElapsesAtMost, Timeouts
  <2> QED BY <1>t, <2>2, <2>3, Timeouts DEF Fast
<1>2. CASE TestTLS
  <2>1. PICK d \in 1..TLSTimeout : clock' = clock + d
    BY <1>2 DEF TestTLS
  <2>2. pc = "tls" /\ pc' \in {"fields", "done"}
    BY <1>2 DEF TestTLS
  <2> QED BY <1>t, <2>1, <2>2, Timeouts DEF Fast
<1>3. CASE CheckFields
  <2>1. pc = "fields" /\ pc' \in {"handshake", "done"} /\ clock' = clock
    BY <1>3 DEF CheckFields
  <2> QED BY <1>t, <2>1, Timeouts DEF Fast
<1>4. CASE Handshake
  <2>1. PICK d \in 1..ProtoTimeout : Elapses(d)
    BY <1>4 DEF Handshake
  <2>2. pc = "handshake" /\ pc' \in {"probe", "proxy", "done"}
    BY <1>4 DEF Handshake, AfterHandshake
  <2>3. clock' \in Nat /\ clock' <= clock + d
    BY <1>t, <2>1, ElapsesAtMost, Timeouts
  <2> QED BY <1>t, <2>2, <2>3, Timeouts DEF Fast
<1>5. CASE HandshakeOverTLS
  <2>1. PICK d \in 1..ProtoTimeout : clock' = clock + d
    BY <1>5 DEF HandshakeOverTLS
  <2>2. pc = "probe" /\ pc' \in {"proxy", "done"}
    BY <1>5 DEF HandshakeOverTLS, AfterHandshake
  <2> QED BY <1>t, <2>1, <2>2, Timeouts DEF Fast
<1>6. CASE CannotTunnel
  BY <1>6, <1>t, Timeouts DEF CannotTunnel, Fast
<1>7. CASE ProxyFails \/ ProxyAnswers
  BY <1>7 DEF ProxyFails, ProxyAnswers, NoOutbound, Proxy, XrayOutbounds
<1>8. CASE CheckDomains
  BY <1>8 DEF CheckDomains, IInv, Climbed
<1>9. CASE UNCHANGED vars
  BY <1>9 DEF vars, Fast
<1> QED
  BY <1>1, <1>2, <1>3, <1>4, <1>5, <1>6, <1>7, <1>8, <1>9 DEF Next

\* Whatever the timeouts: a TUIC or Hysteria2 link takes the time of its cheap
\* stages and none for a tunnel.
THEOREM UntestableFailsFastHolds == Spec => []UntestableFailsFast
<1> DEFINE Inv == Outbound(cfg) = NoOutbound => Fast
<1>1. Init => Inv
  BY Timeouts DEF Init, Fast
<1>2. IInv /\ Inv /\ [Next]_vars => Inv'
  <2> SUFFICES ASSUME IInv, Inv, [Next]_vars PROVE Inv'
    OBVIOUS
  <2>1. cfg' = cfg
    BY DepthStays
  <2>2. CASE Outbound(cfg) = NoOutbound
    <3>1. Fast'
      BY <2>2, FastStep
    <3> QED BY <3>1
  <2>3. CASE Outbound(cfg) # NoOutbound
    BY <2>1, <2>3
  <2> QED BY <2>2, <2>3
<1>3. IInv /\ Inv => UntestableFailsFast
  BY KnownOutbound DEF IInv, Typed, Fast, UntestableFailsFast
<1> HIDE DEF Inv
<1> QED BY <1>1, <1>2, <1>3, Invariant, PTL DEF Spec

\* The latency of a success is the median of all its passes.
MedianInv ==
    Ended /\ status = "success" /\ depth # "quick" =>
       response = MedianDuration(samples)

LEMMA MedianStep == IInv /\ MedianInv /\ [Next]_vars => MedianInv'
<1> SUFFICES ASSUME IInv, MedianInv, [Next]_vars PROVE MedianInv'
  OBVIOUS
<1> USE DEF IInv, Goto, Fails, Completes, MedianInv, Ended
<1>0. depth' = depth
  BY DepthStays
<1>1. CASE TestTCP \/ TestTLS \/ CheckFields
  BY <1>1 DEF TestTCP, TestTLS, CheckFields
<1>2. CASE Handshake \/ HandshakeOverTLS
  BY <1>0, <1>2 DEF Handshake, HandshakeOverTLS, AfterHandshake
<1>3. CASE CannotTunnel \/ ProxyFails
  BY <1>3 DEF CannotTunnel, ProxyFails
<1>4. ASSUME Verified PROVE MedianInv'
  BY <1>4 DEF Verified
<1>5. CASE ProxyAnswers
  <2>1. Verified \/ pc' = "domain"
    BY <1>5 DEF ProxyAnswers
  <2> QED BY <1>4, <2>1
<1>6. CASE CheckDomains
  <2>1. Verified \/ status' = "failed"
    BY <1>6 DEF CheckDomains
  <2> QED BY <1>4, <2>1
<1>7. CASE UNCHANGED vars
  BY <1>7 DEF vars
<1> QED BY <1>1, <1>2, <1>3, <1>5, <1>6, <1>7 DEF Next

\* The latency that is reported for a good config is a median of the passes,
\* for every number of them and all latencies.
THEOREM LatencyIsMedianHolds == Spec => []LatencyIsMedian
<1>1. Init => MedianInv
  BY DEF Init, MedianInv, Ended
<1>2. IInv /\ MedianInv => LatencyIsMedian
  <2> SUFFICES ASSUME IInv, MedianInv, Ended, status = "success",
                      depth # "quick"
               PROVE  /\ 2 * Cardinality(Below(samples, response)) <= Len(samples)
                      /\ 2 * Cardinality(Above(samples, response)) <= Len(samples)
    BY DEF LatencyIsMedian, Below, Above
  <2>1. samples \in Seq(Nat) /\ Len(samples) = Probes
    BY DEF IInv, Typed, SuccessIsEarned
  <2>2. samples # <<>>
    BY <2>1, ProbesPositive
  <2> QED BY <2>1, <2>2, Median DEF MedianInv
<1> QED BY <1>1, <1>2, MedianStep, Invariant, PTL DEF Spec

-----------------------------------------------------------------------------
\* A failure was a stage's own, or the deadline's.
BlameInv ==
    /\ status \in {"success", "failed"}
    /\ status = "failed" => ~flawless \/ cut

LEMMA BlameStep == IInv /\ BlameInv /\ [Next]_vars => BlameInv'
<1> SUFFICES ASSUME IInv, BlameInv, [Next]_vars PROVE BlameInv'
  OBVIOUS
<1> USE DEF Goto, Fails, Completes, Judges, BlameInv
<1>0. pc # "done" => status = "success"
  BY DEF IInv, Counted
<1>1. ASSUME NEW d \in Nat, Elapses(d), ~InTime(d) PROVE cut'
  <2>1. clock \in Nat /\ Budget \in Nat
    BY BudgetIsNat DEF IInv, Typed
  <2>2. clock + d > Budget
    BY <1>1, <2>1 DEF InTime
  <2> QED BY <1>1, <2>2, Zenon DEF Elapses
<1>2. CASE TestTCP \/ Handshake
  <2>1. \/ status' = status
        \/ status' = "failed" /\ ~flawless'
        \/ status' = "failed" /\ \E d \in Nat : Elapses(d) /\ ~InTime(d)
    BY <1>2, Timeouts DEF TestTCP, Handshake, AfterHandshake
  <2>2. status = "success"
    BY <1>0, <1>2 DEF TestTCP, Handshake
  <2> QED BY <1>1, <2>1, <2>2
<1>3. CASE TestTLS \/ HandshakeOverTLS \/ CheckFields \/ CannotTunnel
  <2>1. status' = status \/ (status' = "failed" /\ ~flawless')
    BY <1>3 DEF TestTLS, HandshakeOverTLS, CheckFields, CannotTunnel,
       AfterHandshake
  <2>2. status = "success"
    BY <1>0, <1>3 DEF TestTLS, HandshakeOverTLS, CheckFields, CannotTunnel
  <2> QED BY <2>1, <2>2
<1>4. CASE ProxyFails
  <2>1. /\ status' = "failed"
        /\ ~flawless' \/ \E d \in Nat : Elapses(d) /\ ~InTime(d)
    <3>1. PICK d \in 1..XrayTimeout, own \in BOOLEAN :
             /\ own \/ ~InTime(d)
             /\ Elapses(d)
             /\ flawless' = (flawless /\ ~own)
      BY <1>4 DEF ProxyFails
    <3>2. d \in Nat /\ status' = "failed"
      BY <1>4, Timeouts DEF ProxyFails
    <3> QED BY <3>1, <3>2
  <2> QED BY <1>1, <2>1
<1>5. CASE ProxyAnswers
  <2>1. status' = status /\ status = "success"
    BY <1>0, <1>5, VerifiedCases DEF ProxyAnswers
  <2> QED BY <2>1
<1>6. CASE CheckDomains
  <2>1. status = "success"
    BY <1>0, <1>6 DEF CheckDomains
  <2>2. PICK d \in 1..XrayTimeout, answering \in SUBSET Domain :
          /\ Elapses(d)
          /\ flawless' = (flawless /\ Cardinality(answering) >= DomainQuorum)
          /\ IF Passed(Cardinality(answering)) /\ InTime(d)
               THEN Verified ELSE Fails
    BY <1>6 DEF CheckDomains
  <2>3. d \in Nat
    BY Timeouts
  <2>4. CASE Passed(Cardinality(answering)) /\ InTime(d)
    BY <2>1, <2>2, <2>4, VerifiedCases
  <2>5. CASE ~InTime(d)
    BY <1>1, <2>2, <2>3, <2>5
  <2>6. CASE ~Passed(Cardinality(answering))
    BY <2>2, <2>6 DEF Passed
  <2> QED BY <2>4, <2>5, <2>6
<1>7. CASE UNCHANGED vars
  BY <1>7 DEF vars
<1> QED BY <1>2, <1>3, <1>4, <1>5, <1>6, <1>7 DEF Next

\* A config that fails no stage by itself is accepted, unless the deadline
\* ended one, for all timeouts, probes, domains and quorums.
THEOREM GoodIsAcceptedHolds == Spec => []GoodIsAccepted
<1>1. Init => BlameInv
  BY DEF Init, BlameInv
<1>2. BlameInv => GoodIsAccepted
  BY DEF BlameInv, GoodIsAccepted
<1> QED BY <1>1, <1>2, BlameStep, Invariant, PTL DEF Spec
=============================================================================
