---------------------------- MODULE LeastElements ----------------------------
(***************************************************************************)
(* Least and greatest elements of sets of naturals.  The inductions in the *)
(* proofs rest on them: a least counterexample is a counterexample.  And   *)
(* so do the recursive definitions, which have a solution to be chosen.    *)
(***************************************************************************)
EXTENDS Integers, WellFoundedInduction, TLAPS

\* A set of naturals that is not empty has a least element.
LEMMA LeastNatural ==
  ASSUME NEW T \in SUBSET Nat, T # {}
  PROVE  \E n \in T : \A y \in T : n <= y
<1>1. PICK n \in T : \A y \in T : ~(<<y, n>> \in OpToRel(<, Nat))
  BY NatLessThanWellFounded, WFMin
<1>2. \A y \in T : ~(y < n)
  BY <1>1 DEF OpToRel
<1>3. n \in T /\ T \subseteq Nat
  OBVIOUS
<1> QED BY <1>2, <1>3

\* And a greatest one, when it has a bound.
LEMMA GreatestNatural ==
  ASSUME NEW m \in Nat, NEW T \in SUBSET (0..m), T # {}
  PROVE  \E n \in T : \A y \in T : y <= n
<1> DEFINE U == {i \in 0..m : m - i \in T}
<1>1. U \in SUBSET Nat /\ U # {}
  <2>1. PICK t \in T : TRUE
    OBVIOUS
  <2>2. t \in 0..m
    BY <2>1
  <2>3. m - t \in 0..m /\ m - (m - t) = t
    BY <2>2
  <2> QED BY <2>1, <2>3
<1>2. PICK n \in U : \A y \in U : n <= y
  <2> HIDE DEF U
  <2> QED BY <1>1, LeastNatural
<1>3. m - n \in T /\ n \in 0..m
  BY <1>2
<1>4. ASSUME NEW y \in T PROVE y <= m - n
  <2>1. y \in 0..m
    OBVIOUS
  <2>2. m - y \in 0..m /\ m - (m - y) = y
    BY <2>1
  <2>3. m - y \in U
    BY <2>2
  <2>4. n <= m - y
    BY <1>2, <2>3
  <2> QED BY <1>3, <2>1, <2>4
<1> QED BY <1>3, <1>4

\* What holds of 0, and of each number if it holds of the one before, holds of all.
LEMMA Stepwise ==
  ASSUME NEW N \in Nat, NEW holds \in [0..N -> BOOLEAN],
         holds[0], \A n \in 1..N : holds[n - 1] => holds[n]
  PROVE  \A n \in 0..N : holds[n]
<1> DEFINE T == {n \in 0..N : ~holds[n]}
<1> SUFFICES ASSUME T # {} PROVE FALSE
  OBVIOUS
<1>1. PICK n \in T : \A y \in T : n <= y
  <2>1. T \in SUBSET Nat
    OBVIOUS
  <2> HIDE DEF T
  <2> QED BY <2>1, LeastNatural
<1>2. n \in 1..N
  <2>1. n \in 0..N /\ ~holds[n]
    BY <1>1
  <2> QED BY <2>1
<1>3. n - 1 \in 0..N /\ ~(n <= n - 1)
  BY <1>2
<1>4. holds[n - 1]
  BY <1>1, <1>3
<1> QED BY <1>1, <1>2, <1>4

\* The values of a recursion with a base and a step of its own for each number.
Steps(N, S) == [1..N -> [S -> S]]
Iterates(f, N, S, base, step) ==
  f \in [0..N -> S] /\ f[0] = base /\ \A i \in 1..N : f[i] = step[i][f[i - 1]]

LEMMA Recursion ==
  ASSUME NEW N \in Nat, NEW S, NEW base \in S, NEW step \in Steps(N, S)
  PROVE  \E f : Iterates(f, N, S, base, step)
<1> DEFINE Solves(f, n) == f \in [0..n -> S] /\ f[0] = base /\ \A i \in 1..n : f[i] = step[i][f[i - 1]]
           holds == [n \in 0..N |-> \E f : Solves(f, n)]
<1>1. holds \in [0..N -> BOOLEAN] /\ 0 \in 0..N
  <2> HIDE DEF Solves
  <2> QED OBVIOUS
<1>2. holds[0]
  <2>1. Solves([i \in 0..0 |-> base], 0)
    OBVIOUS
  <2> HIDE DEF Solves
  <2> QED BY <2>1, <1>1
<1>3. ASSUME NEW n \in 1..N, holds[n - 1] PROVE holds[n]
  <2>1. n - 1 \in 0..N /\ n \in 0..N
    OBVIOUS
  <2>2. PICK f : Solves(f, n - 1)
    <3> HIDE DEF Solves
    <3> QED BY <1>3, <2>1
  <2> DEFINE g == [i \in 0..n |-> IF i = n THEN step[n][f[n - 1]] ELSE f[i]]
  <2>3. /\ f \in [0..(n - 1) -> S] /\ f[0] = base
        /\ \A i \in 1..(n - 1) : f[i] = step[i][f[i - 1]]
    BY <2>2
  <2>4. f[n - 1] \in S /\ step[n] \in [S -> S]
    <3>1. n - 1 \in 0..(n - 1)
      OBVIOUS
    <3> QED BY <2>3, <3>1 DEF Steps
  <2>5. g \in [0..n -> S] /\ g[0] = base
    BY <2>3, <2>4
  <2>6. ASSUME NEW i \in 1..n PROVE g[i] = step[i][g[i - 1]]
    <3>1. g[i - 1] = f[i - 1]
      OBVIOUS
    <3>2. CASE i = n
      BY <3>1, <3>2
    <3>3. CASE i # n
      <4>1. i \in 1..(n - 1) /\ g[i] = f[i]
        BY <3>3
      <4> QED BY <3>1, <4>1, <2>3
    <3> QED BY <3>2, <3>3
  <2>7. Solves(g, n)
    BY <2>5, <2>6
  <2> HIDE DEF Solves
  <2> QED BY <2>1, <2>7
<1>4. holds[N]
  <2>1. N \in 0..N
    OBVIOUS
  <2> HIDE DEF holds
  <2> QED BY <1>1, <1>2, <1>3, <2>1, Stepwise
<1>5. N \in 0..N
  OBVIOUS
<1>6. \E f : Solves(f, N)
  <2> HIDE DEF Solves
  <2> QED BY <1>4, <1>5
<1> QED BY <1>6 DEF Iterates

\* A function that follows the recursion as long as it stays in the set is that function.
LEMMA Determined ==
  ASSUME NEW N \in Nat, NEW S, NEW base, NEW step, NEW f, Iterates(f, N, S, base, step),
         NEW g, g[0] = base, \A i \in 1..N : g[i - 1] \in S => g[i] = step[i][g[i - 1]]
  PROVE  \A n \in 0..N : g[n] = f[n]
<1>1. f \in [0..N -> S] /\ f[0] = base /\ \A i \in 1..N : f[i] = step[i][f[i - 1]]
  BY DEF Iterates
<1> DEFINE same == [n \in 0..N |-> g[n] = f[n]]
<1>2. same \in [0..N -> BOOLEAN] /\ same[0]
  <2>1. 0 \in 0..N /\ \A n \in 0..N : (g[n] = f[n]) \in BOOLEAN
    OBVIOUS
  <2> QED BY <1>1, <2>1
<1>3. ASSUME NEW n \in 1..N, same[n - 1] PROVE same[n]
  <2>1. n \in 0..N /\ n - 1 \in 0..N
    OBVIOUS
  <2>2. g[n - 1] = f[n - 1] /\ f[n - 1] \in S
    BY <1>1, <1>3, <2>1
  <2> QED BY <1>1, <2>1, <2>2
<1>4. \A n \in 0..N : same[n]
  <2> HIDE DEF same
  <2> QED BY <1>2, <1>3, Stepwise
<1> QED BY <1>4
=============================================================================
