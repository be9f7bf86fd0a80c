------------------------------- MODULE Induction -------------------------------
(***************************************************************************)
(* Induction over the naturals, and functions defined by recursion on      *)
(* them, in a form without operator parameters: a property of numbers is   *)
(* the set of those that have it, and a step of a recursion is a function. *)
(***************************************************************************)
EXTENDS Integers, WellFoundedInduction, TLAPS

\* A set of naturals with an element has a least one.
LEMMA LeastNatural ==
  ASSUME NEW T \in SUBSET Nat, T # {}
  PROVE  \E n \in T : \A m \in T : n <= m
<1> DEFINE R == OpToRel(<, Nat)
<1>1. IsWellFoundedOn(R, Nat)
  BY NatLessThanWellFounded
<1> HIDE DEF R
<1>2. PICK n \in T : \A m \in T : ~(<< m, n >> \in R)
  BY <1>1, WFMin
<1>3. \A m \in Nat : m < n => << m, n >> \in R
  BY DEF R, OpToRel
<1>4. ASSUME NEW m \in T
      PROVE  n <= m
  <2>1. m \in Nat /\ n \in Nat
    OBVIOUS
  <2>2. ~(m < n)
    BY <1>2, <1>3, <2>1
  <2> QED
    BY <2>1, <2>2
<1> QED
  BY <1>4

\* A set with zero, and with every successor of its elements, holds every
\* natural.
LEMMA SetInduction ==
  ASSUME NEW P, 0 \in P, \A n \in Nat : n \in P => n + 1 \in P
  PROVE  \A n \in Nat : n \in P
<1> DEFINE T == Nat \ P
<1> SUFFICES ASSUME T # {}
             PROVE  FALSE
  OBVIOUS
<1>1. PICK n \in T : \A m \in T : n <= m
  BY LeastNatural
<1>2. n \in Nat /\ n # 0 /\ n - 1 \in Nat /\ n - 1 < n
  OBVIOUS
<1>3. n - 1 \in P
  BY <1>1, <1>2
<1>4. (n - 1) + 1 = n
  BY <1>2
<1> QED
  BY <1>2, <1>3, <1>4

\* What is true of every number if it is true of all below it.
LEMMA StrongInduction ==
  ASSUME NEW P,
         \A n \in Nat : (\A m \in Nat : m < n => m \in P) => n \in P
  PROVE  \A n \in Nat : n \in P
<1> DEFINE T == Nat \ P
<1> SUFFICES ASSUME T # {}
             PROVE  FALSE
  OBVIOUS
<1>1. PICK n \in T : \A m \in T : n <= m
  BY LeastNatural
<1>2. \A m \in Nat : m < n => m \in P
  <2> SUFFICES ASSUME NEW m \in Nat, m < n, m \notin P
               PROVE  FALSE
    OBVIOUS
  <2>1. n <= m /\ n \in Nat
    BY <1>1
  <2> QED
    BY <2>1
<1> QED
  BY <1>2

\* The beginning of a recursion, up to n.
Begins(g, start, step, n) ==
  /\ g[0] = start
  /\ \A i \in 0 .. n - 1 : g[i + 1] = step[i][g[i]]

\* The steps of recursions with values in S, and the function that begins
\* with a value and goes on by a step.
Steps(S) == [Nat -> [S -> S]]
Recurs(f, start, step) ==
  f[0] = start /\ \A i \in Nat : f[i + 1] = step[i][f[i]]

\* For every first value and every step there is such a function.
LEMMA RecursionExists ==
  ASSUME NEW S, NEW start \in S, NEW step \in Steps(S)
  PROVE  \E f \in [Nat -> S] : Recurs(f, start, step)
<1>0. step \in [Nat -> [S -> S]]
  BY DEF Steps
<1> DEFINE P == { n \in Nat : \E g \in [Nat -> S] : Begins(g, start, step, n) }
<1>1. 0 \in P
  <2> DEFINE g == [i \in Nat |-> start]
  <2>1. g \in [Nat -> S] /\ Begins(g, start, step, 0)
    BY DEF Begins
  <2> QED
    BY <2>1
<1>2. ASSUME NEW n \in Nat, n \in P
      PROVE  n + 1 \in P
  <2>1. PICK g \in [Nat -> S] : Begins(g, start, step, n)
    BY <1>2
  <2> DEFINE h == [g EXCEPT ![n + 1] = step[n][g[n]]]
  <2>2. step[n][g[n]] \in S
    BY <1>0
  <2>3. h \in [Nat -> S]
    BY <2>2
  <2>4. h[n + 1] = step[n][g[n]] /\ \A i \in 0 .. n : h[i] = g[i]
    OBVIOUS
  <2>5. h[0] = start
    BY <2>1, <2>4 DEF Begins
  <2>6. ASSUME NEW i \in 0 .. n
        PROVE  h[i + 1] = step[i][h[i]]
    <3>1. CASE i = n
      BY <2>4, <3>1
    <3>2. CASE i # n
      <4>1. i \in 0 .. n - 1 /\ i + 1 \in 0 .. n
        BY <3>2
      <4> QED
        BY <2>1, <2>4, <4>1 DEF Begins
    <3> QED
      BY <3>1, <3>2
  <2> HIDE DEF h
  <2>7. Begins(h, start, step, n + 1)
    BY <2>5, <2>6 DEF Begins
  <2> QED
    BY <2>3, <2>7
<1> HIDE DEF P
<1>3. \A n \in Nat : n \in P
  BY <1>1, <1>2, SetInduction
<1> DEFINE pick == [n \in Nat |-> CHOOSE g \in [Nat -> S] : Begins(g, start, step, n)]
<1>4. \A n \in Nat : pick[n] \in [Nat -> S] /\ Begins(pick[n], start, step, n)
  BY <1>3 DEF P
<1> HIDE DEF pick
\* They agree where they have begun.
<1>5. ASSUME NEW n \in Nat, NEW m \in Nat, n <= m
      PROVE  \A i \in 0 .. n : pick[n][i] = pick[m][i]
  <2> DEFINE Q == { i \in Nat : i <= n => pick[n][i] = pick[m][i] }
  <2>1. 0 \in Q
    BY <1>4 DEF Begins
  <2>2. ASSUME NEW i \in Nat, i \in Q
        PROVE  i + 1 \in Q
    <3> SUFFICES ASSUME i + 1 <= n
                 PROVE  pick[n][i + 1] = pick[m][i + 1]
      OBVIOUS
    <3>1. i \in 0 .. n - 1 /\ i \in 0 .. m - 1 /\ i <= n
      BY <1>5
    <3>2. pick[n][i + 1] = step[i][pick[n][i]] /\ pick[m][i + 1] = step[i][pick[m][i]]
      BY <1>4, <3>1 DEF Begins
    <3> QED
      BY <2>2, <3>1, <3>2
  <2> HIDE DEF Q
  <2>3. \A i \in Nat : i \in Q
    BY <2>1, <2>2, SetInduction
  <2> QED
    BY <2>3 DEF Q
<1> DEFINE f == [n \in Nat |-> pick[n][n]]
<1>6. f \in [Nat -> S]
  BY <1>4
<1>7. f[0] = start
  BY <1>4 DEF Begins
<1>8. ASSUME NEW i \in Nat
      PROVE  f[i + 1] = step[i][f[i]]
  <2>1. i + 1 \in Nat /\ i <= i + 1 /\ i \in 0 .. i /\ i \in 0 .. (i + 1) - 1
    OBVIOUS
  <2>2. pick[i + 1][i + 1] = step[i][pick[i + 1][i]]
    BY <1>4, <2>1 DEF Begins
  <2>3. pick[i][i] = pick[i + 1][i]
    BY <1>5, <2>1
  <2> QED
    BY <2>1, <2>2, <2>3
<1> QED
  BY <1>6, <1>7, <1>8 DEF Recurs
=============================================================================
