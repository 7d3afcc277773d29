------------------------------- MODULE Induction -------------------------------
(***************************************************************************)
(* Induction over the natural numbers for sets: the library states it for  *)
(* predicates, these are the facts the proofs of this project cite.        *)
(***************************************************************************)
EXTENDS FiniteSetTheorems, TLAPS

\* Every set of natural numbers with an element has a least one.
LEMMA LeastNatural ==
    ASSUME NEW T \in SUBSET Nat, T # {}
    PROVE  \E m \in T : \A n \in T : m <= n
<1> DEFINE R == StrictSubsetOrdering(Nat)
           S == FiniteSubsetsOf(Nat)
           I == {0..n : n \in T}
<1>1. IsWellFoundedOn(R, S)
  BY FS_StrictSubsetOrderingWellFounded
<1>2. I \subseteq S /\ I # {}
  <2> SUFFICES ASSUME NEW n \in T PROVE 0..n \in S
    OBVIOUS
  <2>1. IsFiniteSet(0..n)
    BY FS_Interval
  <2> QED
    BY <2>1 DEF FiniteSubsetsOf
<1> HIDE DEF I
<1>3. \E x \in I : \A y \in I : ~ (<<y, x>> \in R)
  <2> HIDE DEF R, S
  <2> QED
    BY <1>1, <1>2, WFMin
<1>4. PICK m \in T : \A y \in I : ~ (<<y, 0..m>> \in R)
  BY <1>3 DEF I
<1> SUFFICES ASSUME NEW n \in T, n < m PROVE FALSE
  BY <1>4
<1>5. 0..n \in I
  BY DEF I
<1>6. 0..n \subseteq 0..m /\ m \in 0..m /\ m \notin 0..n
  OBVIOUS
<1>7. <<0..n, 0..m>> \in R
  BY <1>6 DEF StrictSubsetOrdering
<1> QED
  BY <1>4, <1>5, <1>7

\* Induction over the natural numbers, for sets.
LEMMA SetInduction ==
    ASSUME NEW S, 0 \in S, \A n \in Nat : n \in S => n + 1 \in S
    PROVE  Nat \subseteq S
<1> SUFFICES ASSUME Nat \ S # {} PROVE FALSE
  OBVIOUS
<1>1. PICK m \in Nat \ S : \A n \in Nat \ S : m <= n
  BY LeastNatural
<1>2. m # 0 /\ m - 1 \in Nat
  BY <1>1
<1>3. m - 1 \in S
  BY <1>1, <1>2
<1> QED
  BY <1>1, <1>2, <1>3

\* What a step does can be repeated any number of times from any start.
LEMMA Repetition ==
    ASSUME NEW D, NEW first \in D, NEW step \in [D -> D]
    PROVE  \E g \in [Nat -> D] : g[0] = first /\ \A n \in Nat : g[n + 1] = step[g[n]]
<1> DEFINE Chains(n) == {f \in [0..n -> D] : /\ f[0] = first
                                             /\ \A k \in 0..n : k < n => f[k + 1] = step[f[k]]}
<1>1. ASSUME NEW n \in Nat PROVE Chains(n) # {}
  <2> DEFINE S == {m \in Nat : Chains(m) # {}}
  <2>1. 0 \in S
    <3>1. [k \in 0..0 |-> first] \in Chains(0)
      OBVIOUS
    <3> QED
      BY <3>1
  <2>2. ASSUME NEW m \in Nat, m \in S PROVE m + 1 \in S
    <3>1. PICK f : f \in Chains(m)
      BY <2>2
    <3> DEFINE g == [k \in 0..(m + 1) |-> IF k <= m THEN f[k] ELSE step[f[m]]]
    <3>2. f \in [0..m -> D] /\ f[0] = first /\ \A k \in 0..m : k < m => f[k + 1] = step[f[k]]
      BY <3>1
    <3>3. g \in [0..(m + 1) -> D]
      <4>1. \A k \in 0..(m + 1) : k <= m => k \in 0..m
        OBVIOUS
      <4>2. m \in 0..m /\ step[f[m]] \in D
        BY <3>2
      <4> QED
        BY <3>2, <4>1, <4>2
    <3>4. g[0] = first
      BY <3>2
    <3>5. ASSUME NEW k \in 0..(m + 1), k < m + 1 PROVE g[k + 1] = step[g[k]]
      <4>1. CASE k = m
        BY <4>1
      <4>2. CASE k < m
        BY <3>2, <4>2
      <4> QED
        BY <3>5, <4>1, <4>2
    <3>6. g \in Chains(m + 1)
      BY <3>3, <3>4, <3>5
    <3> QED
      BY <3>6
  <2> HIDE DEF S
  <2>3. n \in S
    BY <2>1, <2>2, SetInduction
  <2> QED
    BY <2>3 DEF S
\* Two of them agree as far as both go.
<1>2. ASSUME NEW n \in Nat, NEW f \in Chains(n), NEW h \in Chains(n + 1), NEW k \in Nat, k <= n
      PROVE  h[k] = f[k]
  <2> DEFINE S == {m \in Nat : m <= n => h[m] = f[m]}
  <2>1. 0 \in S
    OBVIOUS
  <2>2. ASSUME NEW m \in Nat, m \in S PROVE m + 1 \in S
    <3> SUFFICES ASSUME m + 1 <= n PROVE h[m + 1] = f[m + 1]
      OBVIOUS
    <3>1. m \in 0..n /\ m < n /\ m \in 0..(n + 1) /\ m < n + 1 /\ h[m] = f[m]
      BY <2>2
    <3> QED
      BY <3>1
  <2> HIDE DEF S
  <2>3. k \in S
    BY <2>1, <2>2, SetInduction
  <2> QED
    BY <1>2, <2>3 DEF S
<1> DEFINE c == [n \in Nat |-> CHOOSE f : f \in Chains(n)]
           g == [n \in Nat |-> c[n][n]]
<1>3. ASSUME NEW n \in Nat PROVE c[n] \in Chains(n)
  <2> HIDE DEF Chains
  <2> QED
    BY <1>1
<1> HIDE DEF c
<1>4. ASSUME NEW n \in Nat
      PROVE  /\ c[n] \in [0..n -> D] /\ c[n][0] = first
             /\ \A k \in 0..n : k < n => c[n][k + 1] = step[c[n][k]]
  BY <1>3
<1>5. g[0] = first
  BY <1>4
<1>6. g \in [Nat -> D]
  <2> SUFFICES ASSUME NEW n \in Nat PROVE c[n][n] \in D
    OBVIOUS
  <2>1. n \in 0..n
    OBVIOUS
  <2> QED
    BY <1>4, <2>1
<1>7. ASSUME NEW n \in Nat PROVE g[n + 1] = step[g[n]]
  <2> DEFINE m == n + 1
  <2>1. m \in Nat /\ n \in 0..m /\ n < m
    OBVIOUS
  <2>2. c[m][n] = c[n][n]
    <3>1. c[n] \in Chains(n) /\ c[n + 1] \in Chains(n + 1)
      BY <1>3
    <3> HIDE DEF Chains
    <3> QED
      BY <1>2, <3>1
  <2>3. c[m][n + 1] = step[c[m][n]]
    <3> HIDE DEF m
    <3> QED
      BY <1>4, <2>1
  <2> QED
    BY <2>2, <2>3
<1> QED
  BY <1>5, <1>6, <1>7

=============================================================================
