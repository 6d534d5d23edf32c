----------------------------- MODULE Induction -----------------------------
(***************************************************************************)
(* Induction over the natural numbers, and the functions that recursion    *)
(* over them defines, stated with sets and functions where the library's   *)
(* theorems have operators.                                                *)
(***************************************************************************)
EXTENDS Integers, WellFoundedInduction, TLAPS

-----------------------------------------------------------------------------
(* Induction *)

LessOnNat == OpToRel(<, Nat)

\* A set of natural numbers that has a member has a least one.
LEMMA LeastElement ==
  ASSUME NEW T, T \subseteq Nat, T # {}
  PROVE  \E x \in T : \A y \in T : x <= y
<1>1. IsWellFoundedOn(LessOnNat, Nat)
  BY NatLessThanWellFounded DEF LessOnNat
<1>2. \A x, y \in Nat : <<x, y>> \in LessOnNat <=> x < y
  BY DEF LessOnNat, OpToRel
<1>3. PICK x \in T : \A y \in T : <<y, x>> \notin LessOnNat
  BY <1>1, WFMin
<1>4. ASSUME NEW y \in T PROVE x <= y
  <2>1. x \in Nat /\ y \in Nat OBVIOUS
  <2>2. ~(y < x) BY <1>2, <1>3, <2>1
  <2> QED BY <2>1, <2>2
<1> QED BY <1>4

\* Induction from m on.
LEMMA InductionFrom ==
  ASSUME NEW T, NEW m \in Nat, m \in T,
         \A n \in Nat : n >= m /\ n \in T => n + 1 \in T
  PROVE  \A n \in Nat : n >= m => n \in T
<1> DEFINE U == {n \in Nat : n >= m /\ n \notin T}
<1> SUFFICES ASSUME U # {} PROVE FALSE OBVIOUS
<1>1. PICK x \in U : \A y \in U : x <= y
  <2>1. U \subseteq Nat OBVIOUS
  <2> HIDE DEF U
  <2> QED BY <2>1, LeastElement
<1>2. x - 1 \in Nat /\ x - 1 >= m BY <1>1
<1>3. x - 1 \in T BY <1>1, <1>2
<1> QED BY <1>1, <1>2, <1>3

\* Induction from 0 on.
LEMMA InductionFromZero ==
  ASSUME NEW T, 0 \in T, \A n \in Nat : n \in T => n + 1 \in T
  PROVE  \A n \in Nat : n \in T
<1>1. 0 \in Nat /\ \A n \in Nat : n >= 0 OBVIOUS
<1>2. \A n \in Nat : n >= 0 => n \in T BY <1>1, InductionFrom
<1> QED BY <1>1, <1>2

-----------------------------------------------------------------------------
(* Recursion *)

\* The values up to n of the function that recursion defines.
IsPrefixOf(g, n, S, f0, step) ==
  /\ g \in [0..n -> S]
  /\ g[0] = f0
  /\ \A i \in 0 .. n - 1 : g[i + 1] = step[i][g[i]]

IsRecursion(S, f0, step) == f0 \in S /\ step \in [Nat -> [S -> S]]

Solves(f, S, f0, step) ==
  /\ f \in [Nat -> S]
  /\ f[0] = f0
  /\ \A n \in Nat : f[n + 1] = step[n][f[n]]

\* A first value and a function from each value to the next define a function.
LEMMA RecursiveFunction ==
  ASSUME NEW S, NEW f0, NEW step, IsRecursion(S, f0, step)
  PROVE  \E f : Solves(f, S, f0, step)
<1> USE DEF IsRecursion
<1> DEFINE Is(g, n) == IsPrefixOf(g, n, S, f0, step)
           T == {n \in Nat : \E g : Is(g, n)}
<1>1. \A n \in Nat : n \in T
  <2>1. 0 \in T
    <3> DEFINE g == [i \in 0..0 |-> f0]
    <3>1. Is(g, 0) BY DEF IsPrefixOf
    <3> QED BY <3>1
  <2>2. ASSUME NEW n \in Nat, n \in T PROVE n + 1 \in T
    <3>1. PICK g : Is(g, n) BY <2>2
    <3> DEFINE h == [i \in 0 .. n + 1 |-> IF i = n + 1 THEN step[n][g[n]] ELSE g[i]]
    <3>2. g \in [0..n -> S] /\ g[n] \in S BY <3>1 DEF IsPrefixOf
    <3>3. h \in [0 .. n + 1 -> S] BY <3>2
    <3>4. h[0] = f0 BY <3>1 DEF IsPrefixOf
    <3>5. ASSUME NEW i \in 0 .. (n + 1) - 1 PROVE h[i + 1] = step[i][h[i]]
      <4>1. CASE i = n BY <4>1
      <4>2. CASE i # n
        <5>1. i \in 0 .. n - 1 BY <4>2
        <5>2. g[i + 1] = step[i][g[i]] BY <3>1, <5>1 DEF IsPrefixOf
        <5>3. h[i + 1] = g[i + 1] /\ h[i] = g[i] BY <5>1
        <5> QED BY <5>2, <5>3
      <4> QED BY <4>1, <4>2
    <3>6. Is(h, n + 1) BY <3>3, <3>4, <3>5 DEF IsPrefixOf
    <3> QED BY <3>6
  <2> HIDE DEF T
  <2> QED BY <2>1, <2>2, InductionFromZero
<1>2. ASSUME NEW n \in Nat, NEW m \in Nat, NEW g, NEW h, Is(g, n), Is(h, m)
      PROVE  \A i \in Nat : i <= n /\ i <= m => g[i] = h[i]
  <2> DEFINE U == {i \in Nat : i <= n /\ i <= m => g[i] = h[i]}
  <2>1. 0 \in U BY <1>2 DEF IsPrefixOf
  <2>2. ASSUME NEW i \in Nat, i \in U PROVE i + 1 \in U
    <3> SUFFICES ASSUME i + 1 <= n, i + 1 <= m PROVE g[i + 1] = h[i + 1] OBVIOUS
    <3>1. g[i] = h[i] BY <2>2
    <3>2. i \in 0 .. n - 1 /\ i \in 0 .. m - 1 OBVIOUS
    <3> QED BY <1>2, <3>1, <3>2 DEF IsPrefixOf
  <2>3. \A i \in Nat : i \in U
    <3> HIDE DEF U
    <3> QED BY <2>1, <2>2, InductionFromZero
  <2> QED BY <2>3
<1> DEFINE G(n) == CHOOSE g : Is(g, n)
           f == [n \in Nat |-> G(n)[n]]
<1>3. \A n \in Nat : Is(G(n), n)
  <2> TAKE n \in Nat
  <2>1. \E g : Is(g, n) BY <1>1
  <2> HIDE DEF Is
  <2> QED BY <2>1
<1> HIDE DEF G
<1>4. \A n \in Nat : f[n] \in S
  BY <1>3 DEF IsPrefixOf
<1>5. f[0] = f0 BY <1>3 DEF IsPrefixOf
<1>6. ASSUME NEW n \in Nat PROVE f[n + 1] = step[n][f[n]]
  <2>1. n + 1 \in Nat /\ n \in 0 .. (n + 1) - 1 OBVIOUS
  <2>2. Is(G(n + 1), n + 1) /\ Is(G(n), n) BY <1>3, <2>1
  <2>3. G(n + 1)[n + 1] = step[n][G(n + 1)[n]] BY <2>1, <2>2 DEF IsPrefixOf
  <2>4. G(n + 1)[n] = G(n)[n]
    <3>1. n <= n + 1 /\ n <= n OBVIOUS
    <3> HIDE DEF Is
    <3> QED BY <1>2, <2>1, <2>2, <3>1
  <2> QED BY <2>1, <2>3, <2>4
<1> QED BY <1>4, <1>5, <1>6 DEF Solves
=============================================================================
