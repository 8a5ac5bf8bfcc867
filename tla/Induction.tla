------------------------------ MODULE Induction ------------------------------
(***************************************************************************)
(* Induction over an interval of numbers, and definitions by recursion     *)
(* over one.  The library's theorems on these take an operator as their    *)
(* parameter; here sets and functions stand for the operators, and the     *)
(* well-foundedness of inclusion on finite sets for the induction.         *)
(***************************************************************************)
EXTENDS Integers, FiniteSets, FiniteSetTheorems, WellFoundedInduction, TLAPS

\* A set of numbers has a least one: the intervals from 0 are finite, and strict
\* inclusion is well founded on finite sets.
LEMMA Smallest ==
  ASSUME NEW T, T \subseteq Nat, T # {}
  PROVE  \E x \in T : \A y \in T : ~(y < x)
<1> DEFINE R == StrictSubsetOrdering(Nat)
           F == FiniteSubsetsOf(Nat)
           U == {0..x : x \in T}
<1>1. IsWellFoundedOn(R, F)
  BY FS_StrictSubsetOrderingWellFounded
<1>2. ASSUME NEW x \in T PROVE 0..x \in F
  <2>1. IsFiniteSet(0..x)
    BY FS_Interval
  <2> QED
    BY <2>1 DEF FiniteSubsetsOf
<1>3. ASSUME NEW x \in T, NEW y \in T, y < x PROVE <<0..y, 0..x>> \in R
  <2>1. 0..y \subseteq 0..x /\ 0..x \subseteq Nat /\ x \in 0..x /\ x \notin 0..y
    BY <1>3
  <2> QED
    BY <2>1, Zenon DEF StrictSubsetOrdering
<1> HIDE DEF R, F
<1>4. U \subseteq F /\ U # {}
  BY <1>2
<1>5. PICK u \in U : \A w \in U : ~(<<w, u>> \in R)
  <2> HIDE DEF U
  <2> QED
    BY <1>1, <1>4, WFMin
<1> QED
  BY <1>3, <1>5

\* What holds of 0 and of n if of n - 1 holds of all numbers up to N; T is the
\* set of those it holds of.
LEMMA InductTo ==
  ASSUME NEW N \in Nat, NEW T, 0 \in T, \A n \in 1..N : n - 1 \in T => n \in T
  PROVE  \A n \in 0..N : n \in T
<1> SUFFICES ASSUME (0..N) \ T # {} PROVE FALSE
  OBVIOUS
<1> DEFINE B == (0..N) \ T
<1>0. B \subseteq Nat /\ B # {}
  OBVIOUS
<1> HIDE DEF B
<1>1. PICK n \in B : \A m \in B : ~(m < n)
  BY <1>0, Smallest
<1> USE DEF B
<1>2. n \in 1..N /\ n - 1 \in 0..N /\ n - 1 < n
  BY <1>1
<1> QED
  BY <1>1, <1>2

\* r begins with z and goes on as the function f says, which stays in S.
Steps(f, N, S)   == \A n \in 1..N : \A s \in S : f[<<n, s>>] \in S
Run(r, f, N, z) == r[0] = z /\ \A n \in 1..N : r[n] = f[<<n, r[n - 1]>>]

\* A definition by recursion over 0..N has a solution.
LEMMA Recursion ==
  ASSUME NEW S, NEW z \in S, NEW N \in Nat, NEW f, Steps(f, N, S)
  PROVE  \E r \in [0..N -> S] : Run(r, f, N, z)
<1> USE DEF Steps, Run
<1> DEFINE T == {m \in 0..N : \E r \in [0..m -> S] : Run(r, f, m, z)}
<1>1. 0 \in T
  <2>1. Run([n \in 0..0 |-> z], f, 0, z)
    OBVIOUS
  <2> HIDE DEF Run
  <2> QED
    BY <2>1
<1>2. ASSUME NEW m \in 1..N, m - 1 \in T PROVE m \in T
  <2>1. PICK r \in [0..(m - 1) -> S] : Run(r, f, m - 1, z)
    BY <1>2
  <2> DEFINE q == [n \in 0..m |-> IF n = m THEN f[<<m, r[m - 1]>>] ELSE r[n]]
  <2>2. r[m - 1] \in S /\ f[<<m, r[m - 1]>>] \in S
    BY <2>1
  <2>3. q \in [0..m -> S] /\ q[0] = z /\ q[m] = f[<<m, r[m - 1]>>]
    BY <2>1, <2>2
  <2>4. \A n \in 0..(m - 1) : q[n] = r[n]
    OBVIOUS
  <2> HIDE DEF q
  <2>5. ASSUME NEW n \in 1..m PROVE q[n] = f[<<n, q[n - 1]>>]
    <3>1. CASE n = m
      BY <2>3, <2>4, <3>1
    <3>2. CASE n # m
      <4>1. n \in 1..(m - 1) /\ n \in 0..(m - 1) /\ n - 1 \in 0..(m - 1)
        BY <3>2
      <4> QED
        BY <2>1, <2>4, <4>1
    <3> QED
      BY <3>1, <3>2
  <2> QED
    BY <2>3, <2>5
<1> HIDE DEF T
<1>3. N \in T
  BY <1>1, <1>2, InductTo
<1> QED
  BY <1>3 DEF T
=============================================================================
