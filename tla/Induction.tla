------------------------------ MODULE Induction ------------------------------
(***************************************************************************)
(* Induction over data, by sets.  What holds of 0 and is passed on from n  *)
(* to n + 1 is a set of numbers here, and so is what fails; the step of a  *)
(* recursive definition is a function.  No lemma has an operator for a     *)
(* parameter, so each can be used by itself.                               *)
(***************************************************************************)
EXTENDS Integers, WellFoundedInduction, TLAPS

\* A set of natural numbers that is not empty has a least one.
LEMMA LeastNumber ==
    ASSUME NEW T \in SUBSET Nat, T # {}
    PROVE  \E n \in T : \A m \in T : n <= m
<1>1. ASSUME NEW R, R = OpToRel(<, Nat)
      PROVE  \E n \in T : \A m \in T : <<m, n>> \notin R
  <2>1. IsWellFoundedOn(R, Nat)
    BY <1>1, NatLessThanWellFounded
  <2>2. QED
    BY <2>1, WFMin, Zenon
<1>2. \E n \in T : \A m \in T : <<m, n>> \notin OpToRel(<, Nat)
  BY <1>1
<1>3. PICK n \in T : \A m \in T : <<m, n>> \notin OpToRel(<, Nat)
  BY <1>2
<1>4. \A m \in T : ~(m < n)
  BY <1>3 DEF OpToRel
<1>5. QED
  BY <1>4

\* What holds of 0, and of n + 1 whenever it holds of n, holds up to any bound.
LEMMA UpTo ==
    ASSUME NEW N \in Nat, NEW S, 0 \in S,
           \A n \in 0..N : n < N /\ n \in S => n + 1 \in S
    PROVE  0..N \subseteq S
<1> DEFINE Missing == {n \in 0..N : n \notin S}
<1>1. SUFFICES ASSUME Missing # {} PROVE FALSE
  OBVIOUS
<1>2. PICK n \in Missing : \A m \in Missing : n <= m
  BY <1>1, LeastNumber, Missing \in SUBSET Nat
<1>3. n # 0 /\ n - 1 \in 0..N /\ n - 1 < N
  OBVIOUS
<1>4. n - 1 \in S
  BY <1>2, <1>3
<1>5. QED
  BY <1>3, <1>4

\* What holds of n as soon as it holds of all that is below n holds up to any bound.
LEMMA UpToByAllBelow ==
    ASSUME NEW N \in Nat, NEW S,
           \A n \in 0..N : (\A m \in 0..N : m < n => m \in S) => n \in S
    PROVE  0..N \subseteq S
<1> DEFINE Missing == {n \in 0..N : n \notin S}
<1>1. SUFFICES ASSUME Missing # {} PROVE FALSE
  OBVIOUS
<1>2. PICK n \in Missing : \A m \in Missing : n <= m
  BY <1>1, LeastNumber, Missing \in SUBSET Nat
<1>3. QED
  BY <1>2

\* A recursive definition on 0..N: the value at n is given, or is made of n and of the
\* value at one smaller number.
IsRecursion(N, V, Given, base, below, step) ==
    /\ N \in Nat /\ Given \in SUBSET (0..N)
    /\ base \in [0..N -> V] /\ below \in [0..N -> 0..N] /\ step \in [0..N -> [V -> V]]
    /\ \A n \in (0..N) \ Given : below[n] < n

HasSolution(N, V, Given, base, below, step) ==
    \E f \in [0..N -> V] : \A n \in 0..N :
        f[n] = IF n \in Given THEN base[n] ELSE step[n][f[below[n]]]

\* There is a function that such a definition is about.
LEMMA RecursionExists ==
    ASSUME NEW N, NEW V, NEW Given, NEW base, NEW below, NEW step,
           IsRecursion(N, V, Given, base, below, step)
    PROVE  HasSolution(N, V, Given, base, below, step)
<1> SUFFICES ASSUME N \in Nat, Given \in SUBSET (0..N), base \in [0..N -> V],
                    below \in [0..N -> 0..N], step \in [0..N -> [V -> V]],
                    \A n \in (0..N) \ Given : below[n] < n
             PROVE  \E f \in [0..N -> V] : \A n \in 0..N :
                       f[n] = IF n \in Given THEN base[n] ELSE step[n][f[below[n]]]
  BY DEF IsRecursion, HasSolution
<1> DEFINE Value(n, f)    == IF n \in Given THEN base[n] ELSE step[n][f[below[n]]]
           Solves(f, k)   == f \in [0..k -> V] /\ \A n \in 0..k : f[n] = Value(n, f)
           Solved         == {k \in 0..N : \E f : Solves(f, k)}
<1>1. 0 \in Solved
  <2>1. 0 \in Given
    OBVIOUS
  <2> DEFINE first == [n \in 0..0 |-> base[0]]
  <2>2. Solves(first, 0)
    BY <2>1
  <2>3. QED
    <3> HIDE DEF first, Solves
    <3> QED BY <2>2
<1>2. ASSUME NEW k \in 0..N, k < N, k \in Solved
      PROVE  k + 1 \in Solved
  <2>1. PICK f : Solves(f, k)
    BY <1>2
  <2>2. f \in [0..k -> V] /\ k + 1 \in 0..N
    BY <1>2, <2>1
  <2>3. ASSUME NEW n \in 0..(k + 1), n \notin Given
        PROVE  n \in 0..N /\ below[n] \in 0..k
    <3>1. n \in (0..N) \ Given
      BY <1>2, <2>3
    <3>2. below[n] \in 0..N /\ below[n] < n
      BY <3>1
    <3>3. QED
      BY <3>1, <3>2
  <2> DEFINE new == Value(k + 1, f)
             g   == [n \in 0..(k + 1) |-> IF n = k + 1 THEN new ELSE f[n]]
  <2>4. new \in V
    <3>1. CASE k + 1 \in Given
      BY <2>2, <3>1
    <3>2. CASE k + 1 \notin Given
      <4>1. f[below[k + 1]] \in V
        BY <2>2, <2>3, <3>2
      <4>2. QED
        BY <2>2, <3>2, <4>1
    <3>3. QED
      BY <3>1, <3>2
  <2>5. g \in [0..(k + 1) -> V]
    <3> HIDE DEF new
    <3> QED BY <2>2, <2>4
  <2>6. ASSUME NEW n \in 0..(k + 1)
        PROVE  g[n] = Value(n, g)
    <3>1. n \notin Given => g[below[n]] = f[below[n]]
      <4>1. \A m \in 0..k : g[m] = f[m]
        <5> HIDE DEF new
        <5> QED BY <2>2
      <4>2. QED
        <5> HIDE DEF g
        <5> QED BY <2>3, <4>1
    <3>2. Value(n, g) = Value(n, f)
      <4> HIDE DEF g
      <4>1. CASE n \in Given
        BY <4>1
      <4>2. CASE n \notin Given
        BY <3>1, <4>2
      <4>3. QED
        BY <4>1, <4>2
    <3>3. g[n] = Value(n, f)
      <4> HIDE DEF Value
      <4>1. n # k + 1 => n \in 0..k
        OBVIOUS
      <4>2. QED
        BY <2>1, <4>1
    <3>4. QED
      BY <3>2, <3>3
  <2>7. Solves(g, k + 1)
    <3> HIDE DEF g, Value
    <3> QED BY <2>5, <2>6
  <2>8. QED
    <3> HIDE DEF g, Solves
    <3> QED BY <2>2, <2>7
<1>3. 0..N \subseteq Solved
  <2> HIDE DEF Solved
  <2> QED BY <1>1, <1>2, UpTo
<1>4. PICK f : Solves(f, N)
  <2> HIDE DEF Solves
  <2> QED BY <1>3
<1>5. QED
  BY <1>4
==============================================================================
