----------------------------- MODULE LoopTheorems -----------------------------
(***************************************************************************)
(* What the proofs about the loops of the C code rest on.  A loop is       *)
(* modelled by a recursive function from the number of rounds to the       *)
(* loop's state; here it is shown that such a function exists, and that a  *)
(* set that holds 0 and with every number its successor holds them all.    *)
(* Both are stated with sets and functions, not with operators, so that    *)
(* the provers can instantiate them.                                       *)
(***************************************************************************)
EXTENDS Integers, WellFoundedInduction, TLAPS

(* A set of natural numbers that is not empty has a least element.         *)
LEMMA NatMin ==
  ASSUME NEW T, T \subseteq Nat, T # {}
  PROVE  \E x \in T : \A y \in T : x <= y
<1> DEFINE R == OpToRel(<, Nat)
<1>1. IsWellFoundedOn(R, Nat)
  BY NatLessThanWellFounded
<1>2. \A x, y \in Nat : x < y => <<x, y>> \in R
  BY DEF OpToRel
<1> HIDE DEF R
<1>3. PICK x \in T : \A y \in T : ~ (<<y, x>> \in R)
  BY <1>1, WFMin
<1>4. \A y \in T : ~ (y < x)
  BY <1>2, <1>3
<1>5. \A y \in T : x <= y
  BY <1>4
<1>. QED BY <1>5

(* Induction over the natural numbers, for a set.                          *)
LEMMA NatSetInduction ==
  ASSUME NEW S, 0 \in S, \A n \in Nat : n \in S => n + 1 \in S
  PROVE  Nat \subseteq S
<1> DEFINE T == Nat \ S
<1>1. SUFFICES ASSUME T # {} PROVE FALSE
  OBVIOUS
<1>2. PICK x \in T : \A y \in T : x <= y
  BY <1>1, NatMin
<1>3. x # 0 /\ x - 1 \in Nat
  BY <1>2
<1>4. x - 1 \in S
  BY <1>2, <1>3
<1>. QED BY <1>2, <1>3, <1>4

(* The first n rounds of a loop that begins in a and whose body is F.      *)
Rounds(A, a, F, n) ==
  {g \in [0..n -> A] : g[0] = a /\ \A i \in 0..(n - 1) : g[i + 1] = F[g[i]]}

(* The rounds a loop has made do not depend on how many follow.            *)
LEMMA RoundsAgree ==
  ASSUME NEW A, NEW a \in A, NEW F \in [A -> A], NEW n \in Nat, NEW m \in Nat,
         NEW g \in Rounds(A, a, F, n), NEW h \in Rounds(A, a, F, m)
  PROVE  \A i \in Nat : i <= n /\ i <= m => g[i] = h[i]
<1> DEFINE S == {i \in Nat : i <= n /\ i <= m => g[i] = h[i]}
<1>1. 0 \in S
  BY DEF Rounds
<1>2. ASSUME NEW i \in Nat, i \in S PROVE i + 1 \in S
  <2> SUFFICES ASSUME i + 1 <= n, i + 1 <= m PROVE g[i + 1] = h[i + 1]
    OBVIOUS
  <2>1. i \in 0..(n - 1) /\ i \in 0..(m - 1)
    OBVIOUS
  <2>2. g[i] = h[i]
    BY <1>2
  <2>. QED BY <2>1, <2>2 DEF Rounds
<1>3. Nat \subseteq S
  <2> HIDE DEF S
  <2>. QED BY <1>1, <1>2, NatSetInduction
<1>. QED BY <1>3

(* Any number of rounds can be made.                                       *)
LEMMA RoundsExist ==
  ASSUME NEW A, NEW a \in A, NEW F \in [A -> A], NEW n \in Nat
  PROVE  Rounds(A, a, F, n) # {}
<1> DEFINE S == {i \in Nat : Rounds(A, a, F, i) # {}}
<1>1. 0 \in S
  <2>1. [i \in 0..0 |-> a] \in Rounds(A, a, F, 0)
    BY DEF Rounds
  <2>. QED BY <2>1
<1>2. ASSUME NEW i \in Nat, i \in S PROVE i + 1 \in S
  <2>1. PICK g : g \in Rounds(A, a, F, i)
    BY <1>2
  <2>2. g \in [0..i -> A] /\ g[0] = a /\ \A j \in 0..(i - 1) : g[j + 1] = F[g[j]]
    BY <2>1 DEF Rounds
  <2> DEFINE h == [j \in 0..(i + 1) |-> IF j = i + 1 THEN F[g[i]] ELSE g[j]]
  <2>3. h \in [0..(i + 1) -> A]
    BY <2>2
  <2>4. h[0] = a
    BY <2>2
  <2>5. ASSUME NEW j \in 0..i PROVE h[j + 1] = F[h[j]]
    <3>1. CASE j = i
      BY <3>1, <2>2
    <3>2. CASE j # i
      <4>1. j \in 0..(i - 1) /\ j + 1 # i + 1 /\ j # i + 1 /\ j + 1 \in 0..(i + 1) /\ j \in 0..(i + 1)
        BY <3>2
      <4>2. h[j + 1] = g[j + 1] /\ h[j] = g[j]
        BY <4>1
      <4> HIDE DEF h
      <4>. QED BY <4>1, <4>2, <2>2
    <3>. QED BY <3>1, <3>2
  <2>6. (i + 1) - 1 = i
    OBVIOUS
  <2>7. h \in Rounds(A, a, F, i + 1)
    <3> HIDE DEF h
    <3>. QED BY <2>3, <2>4, <2>5, <2>6 DEF Rounds
  <2>. QED BY <2>7
<1>3. Nat \subseteq S
  <2> HIDE DEF S
  <2>. QED BY <1>1, <1>2, NatSetInduction
<1>. QED BY <1>3

(* A loop that begins in a and whose body is F: its state after n rounds   *)
(* is a function of n.                                                     *)
LEMMA LoopExists ==
  ASSUME NEW A, NEW a \in A, NEW F \in [A -> A]
  PROVE  \E f \in [Nat -> A] : f[0] = a /\ \A n \in Nat : f[n + 1] = F[f[n]]
<1> DEFINE run(n) == CHOOSE g : g \in Rounds(A, a, F, n)
           f == [n \in Nat |-> run(n)[n]]
<1>1. \A n \in Nat : run(n) \in Rounds(A, a, F, n)
  BY RoundsExist
<1> HIDE DEF run
<1>2. f \in [Nat -> A]
  BY <1>1 DEF Rounds
<1>3. f[0] = a
  BY <1>1 DEF Rounds
<1>4. ASSUME NEW n \in Nat PROVE f[n + 1] = F[f[n]]
  <2>1. n + 1 \in Nat /\ n \in 0..((n + 1) - 1) /\ n <= n + 1
    OBVIOUS
  <2>2. run(n + 1)[n + 1] = F[run(n + 1)[n]]
    BY <1>1, <2>1 DEF Rounds
  <2>3. run(n + 1)[n] = run(n)[n]
    BY <1>1, <2>1, RoundsAgree
  <2>. QED BY <2>1, <2>2, <2>3
<1> HIDE DEF f
<1>. QED BY <1>2, <1>3, <1>4
=============================================================================
