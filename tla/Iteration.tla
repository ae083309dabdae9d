------------------------------- MODULE Iteration -------------------------------
(***************************************************************************)
(* Induction and recursion over the natural numbers in a form that a       *)
(* first-order prover can apply: the property is a set, and the step of a  *)
(* loop is a function.  The loops of the models are recursive functions of *)
(* the number of rounds, so this is what says that they are defined and    *)
(* what they keep.                                                         *)
(***************************************************************************)
EXTENDS Integers, TLAPS, WellFoundedInduction

\* The order of the natural numbers, as a set of pairs.
Less == {ss \in Nat \X Nat : ss[1] < ss[2]}

\* There is no endless descent.
LEMMA LessWellFounded == IsWellFoundedOn(Less, Nat)
  BY NatLessThanWellFounded, Zenon DEF OpToRel, Less

\* Every set of natural numbers that is not empty has a least element.
LEMMA LeastElement ==
  ASSUME NEW T, T \subseteq Nat, T # {}
  PROVE  \E n \in T : \A m \in T : n <= m
<1>1. PICK n \in T : \A m \in T : ~(<<m, n>> \in Less)
  BY LessWellFounded, WFMin
<1>2. ASSUME NEW m \in T PROVE n <= m
  <2>1. m \in Nat /\ n \in Nat
    OBVIOUS
  <2>2. ~(<<m, n>> \in Less)
    BY <1>1
  <2> QED BY <2>1, <2>2 DEF Less
<1> QED BY <1>2

\* Induction: a set with 0, and with the successor of each of its elements, has them all.
LEMMA SetInduction ==
  ASSUME NEW T, 0 \in T, \A n \in Nat : n \in T => n + 1 \in T
  PROVE  Nat \subseteq T
<1> SUFFICES ASSUME Nat \ T # {} PROVE FALSE
  OBVIOUS
<1>1. PICK n \in Nat \ T : \A m \in Nat \ T : n <= m
  BY LeastElement
<1>2. n # 0
  OBVIOUS
<1>3. n - 1 \in Nat /\ n - 1 \in T
  BY <1>1, <1>2
<1> QED BY <1>1, <1>3

\* The steps of a loop over states in S, and its states g when it starts from c.
Steps(S) == [Nat -> [S -> S]]
IsLoop(S, f, c, g) == g \in [Nat -> S] /\ g[0] = c /\ \A n \in Nat : g[n + 1] = f[n][g[n]]

\* Recursion: the states of a loop exist.
LEMMA LoopExists ==
  ASSUME NEW S, NEW f \in Steps(S), NEW c \in S
  PROVE  \E g : IsLoop(S, f, c, g)
<1> USE DEF Steps
<1> DEFINE Run(n) ==
      {h \in [0 .. n -> S] : h[0] = c /\ \A k \in 0 .. n - 1 : h[k + 1] = f[k][h[k]]}
           T == {n \in Nat : Run(n) # {}}
<1>1. 0 \in T
  <2>1. [k \in 0 .. 0 |-> c] \in Run(0)
    OBVIOUS
  <2> QED BY <2>1
<1>2. ASSUME NEW n \in Nat, n \in T PROVE n + 1 \in T
  <2>1. PICK h \in Run(n) : TRUE
    BY <1>2
  <2> DEFINE e == [k \in 0 .. n + 1 |-> IF k = n + 1 THEN f[n][h[n]] ELSE h[k]]
  <2>2. e \in [0 .. n + 1 -> S]
    <3>1. h[n] \in S
      BY <2>1
    <3>2. f[n][h[n]] \in S
      BY <3>1
    <3>3. \A k \in 0 .. n : h[k] \in S
      BY <2>1
    <3> QED BY <3>2, <3>3
  <2>3. e[0] = c
    BY <2>1
  <2>4. ASSUME NEW k \in 0 .. (n + 1) - 1 PROVE e[k + 1] = f[k][e[k]]
    <3>1. CASE k = n
      BY <3>1
    <3>2. CASE k # n
      <4>1. k \in 0 .. n - 1
        BY <3>2
      <4>2. h[k + 1] = f[k][h[k]]
        BY <4>1, <2>1
      <4> QED BY <4>1, <4>2
    <3> QED BY <3>1, <3>2
  <2>5. e \in Run(n + 1)
    <3> HIDE DEF e
    <3> QED BY <2>2, <2>3, <2>4
  <2>6. Run(n + 1) # {}
    <3> HIDE DEF Run, e
    <3> QED BY <2>5
  <2> QED BY <2>6
<1>3. Nat \subseteq T
  <2> HIDE DEF T
  <2> QED BY <1>1, <1>2, SetInduction
<1>4. ASSUME NEW m \in Nat, NEW g \in Run(m), NEW h \in Run(m + 1)
      PROVE  \A k \in Nat : k <= m => g[k] = h[k]
  <2> DEFINE A == {k \in Nat : k <= m => g[k] = h[k]}
  <2>1. 0 \in A
    OBVIOUS
  <2>2. ASSUME NEW k \in Nat, k \in A PROVE k + 1 \in A
    <3> SUFFICES ASSUME k + 1 <= m PROVE g[k + 1] = h[k + 1]
      OBVIOUS
    <3>1. k \in 0 .. m - 1 /\ k \in 0 .. (m + 1) - 1
      OBVIOUS
    <3> QED BY <2>2, <3>1
  <2>3. Nat \subseteq A
    <3> HIDE DEF A
    <3> QED BY <2>1, <2>2, SetInduction
  <2> QED BY <2>3
<1> DEFINE r == [n \in Nat |-> CHOOSE h \in Run(n) : TRUE]
           g == [n \in Nat |-> r[n][n]]
<1>5. ASSUME NEW n \in Nat PROVE r[n] \in Run(n)
  <2>1. n \in T
    BY <1>3
  <2> QED BY <2>1
<1> HIDE DEF r
<1>6. ASSUME NEW n \in Nat PROVE g[n] \in S
  BY <1>5
<1>7. g[0] = c
  BY <1>5
<1>8. ASSUME NEW n \in Nat PROVE g[n + 1] = f[n][g[n]]
  <2>1. r[n] \in Run(n) /\ r[n + 1] \in Run(n + 1)
    BY <1>5
  <2>2. r[n][n] = r[n + 1][n]
    <3> HIDE DEF Run
    <3>1. \A k \in Nat : k <= n => r[n][k] = r[n + 1][k]
      BY <2>1, <1>4
    <3> QED BY <3>1
  <2>3. r[n + 1][n + 1] = f[n][r[n + 1][n]]
    <3>1. n \in 0 .. (n + 1) - 1
      OBVIOUS
    <3> QED BY <2>1, <3>1
  <2> QED BY <2>2, <2>3
<1>9. g \in [Nat -> S]
  BY <1>6
<1> HIDE DEF g
<1> QED BY <1>7, <1>8, <1>9 DEF IsLoop

=============================================================================
