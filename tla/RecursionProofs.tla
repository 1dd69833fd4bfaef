-------------------------- MODULE RecursionProofs --------------------------
(***************************************************************************)
(* What recursive functions compute, for inputs of any size.  Induction is *)
(* stated for sets of numbers and of sequences, and recursion for a step   *)
(* that is a function, so that each can be instantiated.                   *)
(***************************************************************************)
EXTENDS Integers, Sifting, SequenceTheorems, NaturalsInduction,
        WellFoundedInduction, TLAPS

-----------------------------------------------------------------------------
(***************************************************************************)
(* Induction and recursion on the naturals.                                *)
(***************************************************************************)
\* A set of naturals that is not empty has a least element.
LEMMA Least ==
    ASSUME NEW S \in SUBSET Nat, S # {}
    PROVE  \E n \in S : \A m \in S : n <= m
<1> DEFINE R == OpToRel(<, Nat)
<1>1. \A a, b \in Nat : <<a, b>> \in R <=> a < b
  BY DEF OpToRel
<1>2. IsWellFoundedOn(R, Nat)
  BY NatLessThanWellFounded, Zenon
<1> HIDE DEF R
<1>3. PICK n \in S : \A m \in S : <<m, n>> \notin R
  BY <1>2, WFMin
<1>4. ASSUME NEW m \in S PROVE n <= m
  <2>1. n \in Nat /\ m \in Nat
    OBVIOUS
  <2>2. ~(m < n)
    BY <1>1, <1>3, <2>1, Zenon
  <2> QED BY <2>1, <2>2
<1> QED BY <1>4

\* A set of naturals with 0 and the successor of each of its members is Nat.
LEMMA Induction ==
    ASSUME NEW S \in SUBSET Nat, 0 \in S, \A n \in S : n + 1 \in S
    PROVE  S = Nat
<1>1. ASSUME Nat \ S # {} PROVE FALSE
  <2>1. PICK n \in Nat \ S : \A m \in Nat \ S : n <= m
    <3>1. Nat \ S \in SUBSET Nat
      OBVIOUS
    <3> QED BY <1>1, <3>1, Least
  <2>2. n # 0 /\ n - 1 \in Nat /\ ~(n <= n - 1)
    OBVIOUS
  <2>3. n - 1 \in S
    BY <2>1, <2>2
  <2>4. (n - 1) + 1 \in S
    BY <2>3
  <2> QED BY <2>1, <2>4
<1> QED BY <1>1

\* f has a first value and is made from each value to the next by h.
Recurs(f, X, x0, h) ==
    /\ f \in [Nat -> X] /\ f[0] = x0
    /\ \A n \in Nat : f[n + 1] = h[n][f[n]]

\* There is such a function.
LEMMA Recursion ==
    ASSUME NEW X, NEW x0 \in X, NEW h \in [Nat -> [X -> X]]
    PROVE  \E f : Recurs(f, X, x0, h)
<1> DEFINE Is(g, n) == /\ g \in [0..n -> X] /\ g[0] = x0
                       /\ \A i \in 0..(n - 1) : g[i + 1] = h[i][g[i]]
           Has == {n \in Nat : \E g : Is(g, n)}
           Agree == {i \in Nat : \A n, m \in Nat : \A g, k :
                       Is(g, n) /\ Is(k, m) /\ i <= n /\ i <= m => g[i] = k[i]}
<1>1. Has = Nat
  <2>1. 0 \in Has
    <3> DEFINE g == [i \in 0..0 |-> x0]
    <3>1. Is(g, 0)
      OBVIOUS
    <3> HIDE DEF g, Is
    <3> QED BY <3>1
  <2>2. ASSUME NEW n \in Has PROVE n + 1 \in Has
    <3>1. PICK g : Is(g, n)
      OBVIOUS
    <3> DEFINE k == [i \in 0..(n + 1) |-> IF i = n + 1 THEN h[n][g[n]] ELSE g[i]]
    <3>2. k \in [0..(n + 1) -> X] /\ k[0] = x0
      BY <3>1
    <3>3. ASSUME NEW i \in 0..n PROVE k[i + 1] = h[i][k[i]]
      <4>1. CASE i = n
        <5>1. /\ n + 1 \in 0..(n + 1) /\ n \in 0..(n + 1) /\ n # n + 1
          OBVIOUS
        <5>2. k[n + 1] = h[n][g[n]] /\ k[n] = g[n]
          BY <5>1
        <5> HIDE DEF k
        <5> QED BY <4>1, <5>2
      <4>2. CASE i # n
        <5>1. i \in 0..(n - 1) /\ i + 1 \in 0..(n + 1) /\ i + 1 # n + 1
              /\ i \in 0..(n + 1) /\ i # n + 1
          BY <4>2
        <5>2. g[i + 1] = h[i][g[i]]
          BY <3>1, <5>1
        <5> QED BY <5>1, <5>2
      <4> QED BY <4>1, <4>2
    <3>4. (n + 1) - 1 = n
      OBVIOUS
    <3> HIDE DEF k
    <3>5. Is(k, n + 1)
      BY <3>2, <3>3, <3>4
    <3> QED BY <3>5
  <2> HIDE DEF Has
  <2>3. Has \in SUBSET Nat
    BY DEF Has
  <2> QED BY <2>1, <2>2, <2>3, Induction
<1>2. Agree = Nat
  <2>1. 0 \in Agree
    OBVIOUS
  <2>2. ASSUME NEW i \in Agree PROVE i + 1 \in Agree
    <3>0. i \in Nat /\ i + 1 \in Nat
      OBVIOUS
    <3> HIDE DEF Is
    <3>1. SUFFICES ASSUME NEW n \in Nat, NEW m \in Nat, NEW g, NEW k,
                          Is(g, n), Is(k, m), i + 1 <= n, i + 1 <= m
                   PROVE  g[i + 1] = k[i + 1]
      BY <3>0
    <3>2. i <= n /\ i <= m /\ i \in 0..(n - 1) /\ i \in 0..(m - 1)
      BY <3>0, <3>1
    <3>3. g[i] = k[i]
      BY <3>1, <3>2
    <3> USE DEF Is
    <3>4. g[i + 1] = h[i][g[i]] /\ k[i + 1] = h[i][k[i]]
      BY <3>1, <3>2
    <3> QED BY <3>3, <3>4
  <2> HIDE DEF Agree
  <2>3. Agree \in SUBSET Nat
    BY DEF Agree
  <2> QED BY <2>1, <2>2, <2>3, Induction
<1> DEFINE G(n) == CHOOSE g : Is(g, n)
           f == [n \in Nat |-> G(n)[n]]
<1>3. ASSUME NEW n \in Nat PROVE Is(G(n), n)
  BY <1>1
<1>4. f \in [Nat -> X] /\ f[0] = x0
  <2>1. ASSUME NEW n \in Nat PROVE G(n)[n] \in X
    <3> HIDE DEF G
    <3>1. n \in 0..n /\ G(n) \in [0..n -> X]
      BY <1>3
    <3> QED BY <3>1
  <2>2. G(0)[0] = x0
    <3> HIDE DEF G
    <3> QED BY <1>3
  <2> HIDE DEF G
  <2> QED BY <2>1, <2>2
<1>5. ASSUME NEW n \in Nat PROVE f[n + 1] = h[n][f[n]]
  <2>1. Is(G(n), n) /\ Is(G(n + 1), n + 1)
    <3> HIDE DEF G, Is
    <3>1. n + 1 \in Nat
      OBVIOUS
    <3> QED BY <1>3, <3>1
  <2>2. G(n + 1)[n] = G(n)[n]
    <3> HIDE DEF G, Is
    <3>1. n <= n /\ n <= n + 1 /\ n + 1 \in Nat
      OBVIOUS
    <3>2. n \in Agree
      <4> HIDE DEF Agree
      <4> QED BY <1>2
    <3> QED BY <2>1, <3>1, <3>2
  <2>3. G(n + 1)[n + 1] = h[n][G(n + 1)[n]]
    <3>1. n \in 0..((n + 1) - 1)
      OBVIOUS
    <3> HIDE DEF G
    <3> QED BY <2>1, <3>1
  <2> HIDE DEF G, Is
  <2> QED BY <2>2, <2>3
<1> HIDE DEF f
<1> QED BY <1>4, <1>5 DEF Recurs

-----------------------------------------------------------------------------
(***************************************************************************)
(* Induction on sequences, and what Sift keeps.                            *)
(***************************************************************************)
\* A set of sequences with the empty one, and each of its members extended by
\* any element, has all of them.
LEMMA SeqInduction ==
    ASSUME NEW X, NEW P \in SUBSET Seq(X), <<>> \in P,
           \A s \in P : \A x \in X : Append(s, x) \in P
    PROVE  P = Seq(X)
<1> DEFINE N == {n \in Nat : \A s \in Seq(X) : Len(s) = n => s \in P}
<1>1. 0 \in N
  <2>1. ASSUME NEW s \in Seq(X), Len(s) = 0 PROVE s = <<>>
    BY <2>1, EmptySeq
  <2> QED BY <2>1
<1>2. ASSUME NEW n \in N PROVE n + 1 \in N
  <2>1. SUFFICES ASSUME NEW s \in Seq(X), Len(s) = n + 1 PROVE s \in P
    OBVIOUS
  <2>2. PICK t \in Seq(X), x \in X : s = Append(t, x)
    <3>1. s # <<>>
      <4>1. n \in Nat
        OBVIOUS
      <4> QED BY <2>1, <4>1, EmptySeq
    <3> QED BY <3>1, SequenceEmptyOrAppend
  <2>3. Len(t) = n
    <3>1. n \in Nat /\ Len(t) \in Nat
      BY LenProperties
    <3>2. Len(s) = Len(t) + 1
      BY <2>2, AppendProperties
    <3> QED BY <2>1, <3>1, <3>2
  <2>4. t \in P
    BY <2>3
  <2> QED BY <2>2, <2>4
<1> HIDE DEF N
<1>3. N = Nat
  <2>1. N \in SUBSET Nat
    BY DEF N
  <2> QED BY <1>1, <1>2, <2>1, Induction
<1>4. ASSUME NEW s \in Seq(X) PROVE s \in P
  <2>1. Len(s) \in N
    BY <1>3
  <2> QED BY <2>1 DEF N
<1> QED BY <1>4

\* k is what is kept of each prefix of s.
Keeps(k, X, s, S) ==
    /\ k \in [0..Len(s) -> Seq(X)] /\ k[0] = <<>>
    /\ \A n \in 1..Len(s) :
          k[n] = IF s[n] \in S THEN Append(k[n - 1], s[n]) ELSE k[n - 1]

\* The function Sift is defined by exists.
LEMMA Kept ==
    ASSUME NEW X, NEW s \in Seq(X), NEW S
    PROVE  \E k : Keeps(k, X, s, S) /\ Sift(s, S) = k[Len(s)]
<1> DEFINE h == [n \in Nat |-> [v \in Seq(X) |->
                   IF n + 1 \in 1..Len(s) /\ s[n + 1] \in S
                     THEN Append(v, s[n + 1]) ELSE v]]
           Body(g) == [n \in 0..Len(s) |->
                         IF n = 0 THEN <<>>
                         ELSE IF s[n] \in S THEN Append(g[n - 1], s[n])
                         ELSE g[n - 1]]
           kept == CHOOSE g : g = Body(g)
<1>1. Sift(s, S) = kept[Len(s)]
  BY DEF Sift
<1>2. h \in [Nat -> [Seq(X) -> Seq(X)]]
  <2>1. ASSUME NEW n \in Nat, NEW v \in Seq(X)
        PROVE  (IF n + 1 \in 1..Len(s) /\ s[n + 1] \in S
                  THEN Append(v, s[n + 1]) ELSE v) \in Seq(X)
    OBVIOUS
  <2> QED BY <2>1
<1>3. PICK f : Recurs(f, Seq(X), <<>>, h)
  <2> HIDE DEF h
  <2>1. <<>> \in Seq(X)
    OBVIOUS
  <2> QED BY <1>2, <2>1, Recursion
<1> DEFINE k == [n \in 0..Len(s) |-> f[n]]
<1>4. ASSUME NEW n \in 1..Len(s)
      PROVE  f[n] = IF s[n] \in S THEN Append(f[n - 1], s[n]) ELSE f[n - 1]
  <2>1. n - 1 \in Nat /\ (n - 1) + 1 = n
    OBVIOUS
  <2>2. f[n] = h[n - 1][f[n - 1]] /\ f[n - 1] \in Seq(X)
    <3> HIDE DEF h
    <3> QED BY <1>3, <2>1 DEF Recurs
  <2>3. h[n - 1][f[n - 1]] = IF s[n] \in S THEN Append(f[n - 1], s[n]) ELSE f[n - 1]
    BY <2>1, <2>2
  <2> QED BY <2>2, <2>3
<1>5. k = Body(k)
  <2>1. ASSUME NEW n \in 0..Len(s)
        PROVE  f[n] = IF n = 0 THEN <<>>
                      ELSE IF s[n] \in S THEN Append(k[n - 1], s[n]) ELSE k[n - 1]
    <3>1. CASE n = 0
      <4> HIDE DEF h
      <4> QED BY <1>3, <3>1 DEF Recurs
    <3>2. CASE n # 0
      <4>1. n \in 1..Len(s) /\ n - 1 \in 0..Len(s)
        BY <3>2
      <4>2. k[n - 1] = f[n - 1]
        BY <4>1
      <4> QED BY <1>4, <3>2, <4>1, <4>2
    <3> QED BY <3>1, <3>2
  <2> QED BY <2>1
<1>6. kept = Body(kept)
  <2> HIDE DEF k, Body
  <2> QED BY <1>5
<1>7. \A n \in 0..Len(s) :
         kept[n] = IF n = 0 THEN <<>>
                   ELSE IF s[n] \in S THEN Append(kept[n - 1], s[n])
                   ELSE kept[n - 1]
  <2> HIDE DEF kept
  <2> QED BY <1>6
<1> HIDE DEF kept, h, Body, k
<1> DEFINE Same == {n \in Nat : n <= Len(s) => kept[n] = f[n]}
<1>8. Same = Nat
  <2>1. 0 \in Same
    <3>1. 0 \in 0..Len(s)
      OBVIOUS
    <3>2. kept[0] = <<>> /\ f[0] = <<>>
      BY <1>3, <1>7, <3>1 DEF Recurs
    <3> QED BY <3>2
  <2>2. ASSUME NEW n \in Same PROVE n + 1 \in Same
    <3>1. SUFFICES ASSUME n + 1 <= Len(s) PROVE kept[n + 1] = f[n + 1]
      OBVIOUS
    <3>2. /\ n + 1 \in 1..Len(s) /\ n + 1 \in 0..Len(s) /\ n + 1 # 0
          /\ (n + 1) - 1 = n /\ n <= Len(s)
      BY <3>1
    <3>3. kept[n] = f[n]
      BY <3>2
    <3>4. f[n + 1] = IF s[n + 1] \in S THEN Append(f[n], s[n + 1]) ELSE f[n]
      BY <1>4, <3>2
    <3>5. kept[n + 1] = IF s[n + 1] \in S THEN Append(kept[n], s[n + 1]) ELSE kept[n]
      BY <1>7, <3>2
    <3> QED BY <3>3, <3>4, <3>5
  <2> HIDE DEF Same
  <2>3. Same \in SUBSET Nat
    BY DEF Same
  <2> QED BY <2>1, <2>2, <2>3, Induction
<1>9. kept[Len(s)] = f[Len(s)] /\ Len(s) \in 0..Len(s)
  <2>1. Len(s) \in Same /\ Len(s) <= Len(s)
    <3> HIDE DEF Same
    <3> QED BY <1>8
  <2> QED BY <2>1
<1>10. k \in [0..Len(s) -> Seq(X)] /\ \A n \in 0..Len(s) : k[n] = f[n]
  BY <1>3 DEF k, Recurs
<1>11. k[0] = <<>> /\ Sift(s, S) = k[Len(s)]
  <2>1. 0 \in 0..Len(s)
    OBVIOUS
  <2> QED BY <1>1, <1>3, <1>9, <1>10, <2>1 DEF Recurs
<1>12. ASSUME NEW n \in 1..Len(s)
       PROVE  k[n] = IF s[n] \in S THEN Append(k[n - 1], s[n]) ELSE k[n - 1]
  <2>1. n \in 0..Len(s) /\ n - 1 \in 0..Len(s)
    OBVIOUS
  <2> QED BY <1>4, <1>10, <2>1
<1> QED BY <1>10, <1>11, <1>12 DEF Keeps

\* Nothing is kept of nothing.
LEMMA SiftEmpty ==
    ASSUME NEW S
    PROVE  Sift(<<>>, S) = <<>>
<1>1. <<>> \in Seq({}) /\ Len(<<>>) = 0
  BY EmptySeq
<1>2. PICK k : Keeps(k, {}, <<>>, S) /\ Sift(<<>>, S) = k[Len(<<>>)]
  BY <1>1, Kept
<1> QED BY <1>1, <1>2 DEF Keeps

\* A sequence is sifted element by element.
LEMMA SiftAppend ==
    ASSUME NEW X, NEW s \in Seq(X), NEW x \in X, NEW S
    PROVE  Sift(Append(s, x), S) =
              IF x \in S THEN Append(Sift(s, S), x) ELSE Sift(s, S)
<1> DEFINE t == Append(s, x)
<1>1. /\ t \in Seq(X) /\ Len(t) = Len(s) + 1 /\ Len(s) \in Nat
      /\ \A i \in 1..Len(s) : t[i] = s[i]
      /\ t[Len(s) + 1] = x
  BY AppendProperties, LenProperties
<1> HIDE DEF t
<1>2. PICK k : Keeps(k, X, s, S) /\ Sift(s, S) = k[Len(s)]
  BY Kept
<1>3. PICK m : Keeps(m, X, t, S) /\ Sift(t, S) = m[Len(t)]
  BY <1>1, Kept
<1> DEFINE Same == {n \in Nat : n <= Len(s) => k[n] = m[n]}
<1>4. Same = Nat
  <2>1. 0 \in Same
    BY <1>2, <1>3 DEF Keeps
  <2>2. ASSUME NEW n \in Same PROVE n + 1 \in Same
    <3>1. SUFFICES ASSUME n + 1 <= Len(s) PROVE k[n + 1] = m[n + 1]
      OBVIOUS
    <3>2. /\ n + 1 \in 1..Len(s) /\ n + 1 \in 1..Len(t)
          /\ (n + 1) - 1 = n /\ n <= Len(s)
      BY <1>1, <3>1
    <3>3. k[n] = m[n]
      BY <3>2
    <3>4. k[n + 1] = IF s[n + 1] \in S THEN Append(k[n], s[n + 1]) ELSE k[n]
      BY <1>2, <3>2 DEF Keeps
    <3>5. m[n + 1] = IF t[n + 1] \in S THEN Append(m[n], t[n + 1]) ELSE m[n]
      BY <1>3, <3>2 DEF Keeps
    <3> QED BY <1>1, <3>2, <3>3, <3>4, <3>5
  <2> HIDE DEF Same
  <2>3. Same \in SUBSET Nat
    BY DEF Same
  <2> QED BY <2>1, <2>2, <2>3, Induction
<1>5. k[Len(s)] = m[Len(s)]
  <2>1. Len(s) \in Same /\ Len(s) <= Len(s)
    <3> HIDE DEF Same
    <3> QED BY <1>1, <1>4
  <2> QED BY <2>1
<1>6. /\ Len(t) \in 1..Len(t) /\ Len(t) - 1 = Len(s)
  BY <1>1
<1>7. m[Len(t)] = IF t[Len(t)] \in S THEN Append(m[Len(s)], t[Len(t)]) ELSE m[Len(s)]
  BY <1>3, <1>6 DEF Keeps
<1>8. Sift(t, S) = IF x \in S THEN Append(Sift(s, S), x) ELSE Sift(s, S)
  BY <1>1, <1>2, <1>3, <1>5, <1>7
<1> QED BY <1>8 DEF t

\* What is kept are elements of the sequence and of the set.
LEMMA SiftType ==
    ASSUME NEW X, NEW s \in Seq(X), NEW S
    PROVE  Sift(s, S) \in Seq(X \cap S)
<1> DEFINE Y == X \cap S
           P == {q \in Seq(X) : Sift(q, S) \in Seq(Y)}
<1>1. <<>> \in P
  BY SiftEmpty, EmptySeq
<1>2. ASSUME NEW q \in P, NEW x \in X PROVE Append(q, x) \in P
  <2>1. q \in Seq(X) /\ Sift(q, S) \in Seq(Y)
    OBVIOUS
  <2>2. Append(q, x) \in Seq(X)
    BY <2>1, AppendProperties
  <2>3. x \in S => Append(Sift(q, S), x) \in Seq(Y)
    BY <2>1, AppendProperties
  <2>4. Sift(Append(q, x), S) = IF x \in S THEN Append(Sift(q, S), x) ELSE Sift(q, S)
    BY <2>1, SiftAppend
  <2> QED BY <2>1, <2>2, <2>3, <2>4
<1> HIDE DEF P
<1>3. P = Seq(X)
  <2>1. P \in SUBSET Seq(X)
    BY DEF P
  <2> QED BY <1>1, <1>2, <2>1, SeqInduction
<1> QED BY <1>3 DEF P

\* An appended element is one more.
LEMMA RangeAppend ==
    ASSUME NEW X, NEW s \in Seq(X), NEW x \in X
    PROVE  Range(Append(s, x)) = Range(s) \cup {x}
<1> DEFINE t == Append(s, x)
<1>1. /\ DOMAIN s = 1..Len(s) /\ Len(s) \in Nat
      /\ DOMAIN t = 1..(Len(s) + 1)
      /\ \A i \in 1..Len(s) : t[i] = s[i]
      /\ t[Len(s) + 1] = x
  BY AppendProperties, LenProperties
<1> HIDE DEF t
<1>2. Range(t) = {t[i] : i \in 1..Len(s)} \cup {t[Len(s) + 1]}
  BY <1>1 DEF Range
<1>3. {t[i] : i \in 1..Len(s)} = Range(s)
  BY <1>1 DEF Range
<1>4. Range(t) = Range(s) \cup {x}
  BY <1>1, <1>2, <1>3
<1> QED BY <1>4 DEF t

\* Nothing else is lost.
LEMMA SiftRange ==
    ASSUME NEW X, NEW s \in Seq(X), NEW S
    PROVE  Range(Sift(s, S)) = Range(s) \cap S
<1> DEFINE P == {q \in Seq(X) : Range(Sift(q, S)) = Range(q) \cap S}
<1>1. <<>> \in P
  <2>1. Range(<<>>) = {}
    BY DEF Range
  <2> QED BY <2>1, SiftEmpty
<1>2. ASSUME NEW q \in P, NEW x \in X PROVE Append(q, x) \in P
  <2>1. q \in Seq(X) /\ Range(Sift(q, S)) = Range(q) \cap S
    OBVIOUS
  <2>2. Append(q, x) \in Seq(X) /\ Range(Append(q, x)) = Range(q) \cup {x}
    BY <2>1, AppendProperties, RangeAppend
  <2>3. Sift(Append(q, x), S) = IF x \in S THEN Append(Sift(q, S), x) ELSE Sift(q, S)
    BY <2>1, SiftAppend
  <2>4. ASSUME x \in S
        PROVE  Range(Append(Sift(q, S), x)) = Range(Sift(q, S)) \cup {x}
    <3>1. x \in X \cap S /\ Sift(q, S) \in Seq(X \cap S)
      BY <2>1, <2>4, SiftType
    <3> QED BY <3>1, RangeAppend
  <2> QED BY <2>1, <2>2, <2>3, <2>4
<1> HIDE DEF P
<1>3. P = Seq(X)
  <2>1. P \in SUBSET Seq(X)
    BY DEF P
  <2> QED BY <1>1, <1>2, <2>1, SeqInduction
<1> QED BY <1>3 DEF P

\* Only what the set says about the elements matters.
LEMMA SiftAgrees ==
    ASSUME NEW X, NEW s \in Seq(X), NEW S, NEW T, X \cap S = X \cap T
    PROVE  Sift(s, S) = Sift(s, T)
<1> DEFINE P == {q \in Seq(X) : Sift(q, S) = Sift(q, T)}
<1>1. <<>> \in P
  BY SiftEmpty
<1>2. ASSUME NEW q \in P, NEW x \in X PROVE Append(q, x) \in P
  <2>1. q \in Seq(X) /\ Sift(q, S) = Sift(q, T) /\ (x \in S <=> x \in T)
    OBVIOUS
  <2>2. Append(q, x) \in Seq(X)
    BY <2>1, AppendProperties
  <2>3. /\ Sift(Append(q, x), S) = IF x \in S THEN Append(Sift(q, S), x) ELSE Sift(q, S)
        /\ Sift(Append(q, x), T) = IF x \in T THEN Append(Sift(q, T), x) ELSE Sift(q, T)
    BY <2>1, SiftAppend
  <2> QED BY <2>1, <2>2, <2>3
<1> HIDE DEF P
<1>3. P = Seq(X)
  <2>1. P \in SUBSET Seq(X)
    BY DEF P
  <2> QED BY <1>1, <1>2, <2>1, SeqInduction
<1> QED BY <1>3 DEF P

\* A sequence of members is kept as it is.
LEMMA SiftAll ==
    ASSUME NEW X, NEW s \in Seq(X), NEW S, X \subseteq S
    PROVE  Sift(s, S) = s
<1> DEFINE P == {q \in Seq(X) : Sift(q, S) = q}
<1>1. <<>> \in P
  BY SiftEmpty, EmptySeq
<1>2. ASSUME NEW q \in P, NEW x \in X PROVE Append(q, x) \in P
  <2>1. q \in Seq(X) /\ Sift(q, S) = q /\ x \in S
    OBVIOUS
  <2>2. Append(q, x) \in Seq(X)
    BY <2>1, AppendProperties
  <2>3. Sift(Append(q, x), S) = IF x \in S THEN Append(Sift(q, S), x) ELSE Sift(q, S)
    BY <2>1, SiftAppend
  <2> QED BY <2>1, <2>2, <2>3
<1> HIDE DEF P
<1>3. P = Seq(X)
  <2>1. P \in SUBSET Seq(X)
    BY DEF P
  <2> QED BY <1>1, <1>2, <2>1, SeqInduction
<1> QED BY <1>3 DEF P
=============================================================================
