---------------------------- MODULE LoopTheorems ----------------------------
(***************************************************************************)
(* What the loops of Loops.tla preserve.  Everything about the reducer's   *)
(* stabilisation rests on WhilePreserves: a loop never leaves a set that   *)
(* its body never leaves.                                                  *)
(***************************************************************************)
EXTENDS Loops, TLAPS, WellFoundedInduction

\* Every nonempty set of natural numbers has a least element.
LEMMA LeastNatural ==
  ASSUME NEW T \in SUBSET Nat, T # {}
  PROVE  \E n \in T : \A m \in T : n <= m
<1>1. PICK n \in T : \A m \in T : ~(<<m, n>> \in OpToRel(<, Nat))
  BY Zenon, NatLessThanWellFounded, WFMin
<1>2. \A m \in T : ~(m < n)
  BY Zenon, <1>1 DEF OpToRel
<1> QED BY <1>2

\* Induction over the natural numbers, for sets.
LEMMA NaturalClosure ==
  ASSUME NEW A \in SUBSET Nat, 0 \in A, \A n \in A : n + 1 \in A
  PROVE  A = Nat
<1> SUFFICES ASSUME A # Nat PROVE FALSE
  OBVIOUS
<1>1. PICK n \in Nat \ A : \A m \in Nat \ A : n <= m
  BY Zenon, LeastNatural
<1>2. n # 0 /\ n - 1 \in Nat /\ n - 1 \in A
  BY <1>1
<1>3. (n - 1) + 1 \in A
  BY <1>2
<1> QED BY <1>1, <1>3

\* The recursion that While stands for, as an equation on a candidate g.
Unfolds(S, f, g, D) ==
  g = [k \in D |->
        [s \in S |->
           IF k = 0 THEN s
           ELSE LET t == f[s]
                IN  IF t = s THEN s ELSE g[k-1][t]]]

\* Two partial unfoldings agree where both are defined.
LEMMA UnfoldingsAgree ==
  ASSUME NEW S, NEW f, NEW m \in Nat, NEW n \in Nat, NEW g, NEW h,
         Unfolds(S, f, g, 0..m), Unfolds(S, f, h, 0..n)
  PROVE  \A k \in 0..m : k \in 0..n => g[k] = h[k]
<1> DEFINE A == {k \in Nat : k \in 0..m /\ k \in 0..n => g[k] = h[k]}
<1>1. 0 \in A
  BY DEF Unfolds
<1>2. ASSUME NEW k \in A PROVE k + 1 \in A
  <2> SUFFICES ASSUME k + 1 \in 0..m, k + 1 \in 0..n
               PROVE  g[k+1] = h[k+1]
    OBVIOUS
  <2>1. g[k] = h[k]
    OBVIOUS
  <2>2. k + 1 # 0 /\ (k + 1) - 1 = k /\ k \in 0..m /\ k \in 0..n
    OBVIOUS
  <2>3. g[k+1] = [s \in S |->
                    IF k + 1 = 0 THEN s
                    ELSE LET t == f[s]
                         IN  IF t = s THEN s ELSE g[(k+1)-1][t]]
    BY Zenon DEF Unfolds
  <2>4. h[k+1] = [s \in S |->
                    IF k + 1 = 0 THEN s
                    ELSE LET t == f[s]
                         IN  IF t = s THEN s ELSE h[(k+1)-1][t]]
    BY Zenon DEF Unfolds
  <2> QED BY <2>1, <2>2, <2>3, <2>4
<1>3. A = Nat
  BY Zenon, <1>1, <1>2, NaturalClosure
<1> QED BY <1>3

\* There is an unfolding up to every depth.
LEMMA UnfoldingExists ==
  ASSUME NEW S, NEW f, NEW n \in Nat
  PROVE  \E g : Unfolds(S, f, g, 0..n)
<1> DEFINE A == {k \in Nat : \E g : Unfolds(S, f, g, 0..k)}
<1>1. 0 \in A
  <2> DEFINE g == [k \in 0..0 |-> [s \in S |-> s]]
  <2>1. Unfolds(S, f, g, 0..0)
    BY DEF Unfolds
  <2> QED BY <2>1
<1>2. ASSUME NEW k \in A PROVE k + 1 \in A
  <2>1. PICK g : Unfolds(S, f, g, 0..k)
    OBVIOUS
  <2> DEFINE h == [i \in 0..(k+1) |->
                     IF i \in 0..k THEN g[i]
                     ELSE [s \in S |-> LET t == f[s]
                                       IN  IF t = s THEN s ELSE g[k][t]]]
  <2>2. \A i \in 0..k : g[i] = [s \in S |->
                           IF i = 0 THEN s
                           ELSE LET t == f[s]
                                IN  IF t = s THEN s ELSE g[i-1][t]]
    BY Zenon, <2>1 DEF Unfolds
  <2>3. \A i \in 0..k : h[i] = g[i]
    OBVIOUS
  <2>4. h[k+1] = [s \in S |-> LET t == f[s]
                              IN  IF t = s THEN s ELSE g[k][t]]
    OBVIOUS
  <2>5. ASSUME NEW i \in 0..(k+1)
        PROVE  h[i] = [s \in S |->
                         IF i = 0 THEN s
                         ELSE LET t == f[s]
                              IN  IF t = s THEN s ELSE h[i-1][t]]
    <3> HIDE DEF h
    <3>1. CASE i = 0
      BY <3>1, <2>2, <2>3
    <3>2. CASE i \in 1..k
      <4>1. i - 1 \in 0..k /\ i \in 0..k /\ i # 0
        BY <3>2
      <4> QED BY <4>1, <2>2, <2>3
    <3>3. CASE i = k + 1
      <4>1. i # 0 /\ i - 1 = k /\ k \in 0..k
        BY <3>3
      <4> QED BY <3>3, <4>1, <2>3, <2>4
    <3> QED BY <3>1, <3>2, <3>3
  <2>6. h = [i \in 0..(k+1) |-> h[i]]
    OBVIOUS
  <2>7. Unfolds(S, f, h, 0..(k+1))
    <3> HIDE DEF h
    <3> QED BY Zenon, <2>5, <2>6 DEF Unfolds
  <2> QED BY <2>7
<1>3. A = Nat
  BY Zenon, <1>1, <1>2, NaturalClosure
<1> QED BY <1>3

\* While satisfies the recursion it is defined by: the recursive function of
\* Loops.tla exists.
LEMMA WhileUnfolds ==
  ASSUME NEW S, NEW f
  PROVE  Unfolds(S, f, While(S, f), Nat)
<1> DEFINE part(k) == CHOOSE g : Unfolds(S, f, g, 0..k)
           g == [k \in Nat |-> part(k)[k]]
<1>1. \A k \in Nat : Unfolds(S, f, part(k), 0..k)
  <2> TAKE k \in Nat
  <2>1. \E h : Unfolds(S, f, h, 0..k)
    BY UnfoldingExists
  <2> QED BY <2>1, Zenon
<1> HIDE DEF part
<1>2. ASSUME NEW k \in Nat
      PROVE  g[k] = [s \in S |->
                       IF k = 0 THEN s
                       ELSE LET t == f[s]
                            IN  IF t = s THEN s ELSE g[k-1][t]]
  <2>1. g[k] = part(k)[k] /\ k \in 0..k
    OBVIOUS
  <2>2. part(k)[k] = [s \in S |->
                        IF k = 0 THEN s
                        ELSE LET t == f[s]
                             IN  IF t = s THEN s ELSE part(k)[k-1][t]]
    BY <1>1, <2>1, Zenon DEF Unfolds
  <2>3. CASE k = 0
    BY <2>1, <2>2, <2>3
  <2>4. CASE k # 0
    <3>1. k - 1 \in Nat /\ k - 1 \in 0..(k-1) /\ k - 1 \in 0..k
      BY <2>4
    <3>2. part(k-1)[k-1] = part(k)[k-1]
      BY <1>1, <3>1, UnfoldingsAgree
    <3>3. g[k-1] = part(k)[k-1]
      BY <3>1, <3>2
    <3> QED BY <2>1, <2>2, <2>4, <3>3
  <2> QED BY <2>3, <2>4
<1>3. Unfolds(S, f, g, Nat)
  <2>1. g = [k \in Nat |-> g[k]]
    OBVIOUS
  <2> HIDE DEF g
  <2> QED BY <1>2, <2>1 DEF Unfolds
<1> DEFINE P(h) == Unfolds(S, f, h, Nat)
<1>4. While(S, f) = CHOOSE h : P(h)
  BY DEF While, Unfolds
<1> HIDE DEF P, g
<1>5. P(CHOOSE h : P(h))
  <2>1. P(g)
    BY <1>3 DEF P
  <2> QED BY <2>1
<1> QED BY <1>4, <1>5 DEF P

\* A loop stays in every set of states that its body stays in.
THEOREM WhilePreserves ==
  ASSUME NEW S, NEW f, NEW T \in SUBSET S, \A t \in T : f[t] \in T,
         NEW k \in Nat, NEW s \in T
  PROVE  While(S, f)[k][s] \in T
<1> DEFINE w == While(S, f)
           A == {i \in Nat : \A t \in T : w[i][t] \in T}
<1> HIDE DEF w
<1>1. \A i \in Nat : w[i] = [t \in S |->
                               IF i = 0 THEN t
                               ELSE LET u == f[t]
                                    IN  IF u = t THEN t ELSE w[i-1][u]]
  <2>1. Unfolds(S, f, w, Nat)
    BY WhileUnfolds DEF w
  <2> QED BY <2>1, Zenon DEF Unfolds
<1>2. 0 \in A
  <2>1. w[0] = [t \in S |->
                  IF 0 = 0 THEN t
                  ELSE LET u == f[t] IN IF u = t THEN t ELSE w[0-1][u]]
    BY <1>1, Zenon
  <2>2. \A t \in S : w[0][t] = t
    BY <2>1
  <2> QED BY <2>2
<1>3. ASSUME NEW i \in A PROVE i + 1 \in A
  <2> SUFFICES ASSUME NEW t \in T PROVE w[i+1][t] \in T
    OBVIOUS
  <2>1. i + 1 \in Nat /\ i + 1 # 0 /\ (i + 1) - 1 = i
    OBVIOUS
  <2>2. w[i+1] = [v \in S |->
                    IF i+1 = 0 THEN v
                    ELSE LET u == f[v] IN IF u = v THEN v ELSE w[(i+1)-1][u]]
    BY <1>1, <2>1, Zenon
  <2>3. w[i+1] = [v \in S |-> IF f[v] = v THEN v ELSE w[i][f[v]]]
    BY <2>1, <2>2
  <2> QED BY <2>3
<1>4. A = Nat
  BY Zenon, <1>2, <1>3, NaturalClosure
<1> QED BY <1>4 DEF w
=============================================================================
