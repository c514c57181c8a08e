----------------------------- MODULE Induction -----------------------------
(***************************************************************************)
(* Induction over the natural numbers in the form the provers can use: a   *)
(* set of numbers instead of a predicate.  The loops of the code are       *)
(* recursive functions over 0..n; that such a function exists, and what    *)
(* its steps preserve, follows from the lemmas here.                       *)
(***************************************************************************)
EXTENDS Integers, WellFoundedInduction, TLAPS

LEMMA LeastNumber ==
  ASSUME NEW T \in SUBSET Nat, T # {}
  PROVE  \E x \in T : \A y \in T : x <= y
<1> DEFINE R == OpToRel(<, Nat)
<1>1. IsWellFoundedOn(R, Nat)
  BY NatLessThanWellFounded
<1> HIDE DEF R
<1>2. PICK x \in T : \A y \in T : ~ (<<y, x>> \in R)
  BY <1>1, WFMin
<1>3. \A y \in T : y < x => <<y, x>> \in R
  BY DEF R, OpToRel
<1>4. x \in Nat /\ \A y \in T : y \in Nat /\ ~(y < x)
  BY <1>2, <1>3
<1>5. \A y \in T : x <= y
  BY <1>4
<1> QED
  BY <1>2, <1>5

LEMMA InductiveSet ==
  ASSUME NEW S, 0 \in S, \A n \in Nat : n \in S => n + 1 \in S
  PROVE  Nat \subseteq S
<1> DEFINE T == {n \in Nat : n \notin S}
<1>1. SUFFICES ASSUME T # {} PROVE FALSE
  OBVIOUS
<1>2. PICK x \in T : \A y \in T : x <= y
  BY <1>1, LeastNumber
<1>3. x - 1 \in Nat /\ x - 1 \in S
  BY <1>2
<1> QED
  BY <1>2, <1>3

(* The same up to a bound. *)
LEMMA UpTo ==
  ASSUME NEW n \in Nat, NEW S, 0 \in S,
         \A i \in 0..(n - 1) : i \in S => i + 1 \in S
  PROVE  0..n \subseteq S
<1> DEFINE T == {i \in Nat : i <= n => i \in S}
<1>1. 0 \in T
  OBVIOUS
<1>2. ASSUME NEW i \in Nat, i \in T
      PROVE  i + 1 \in T
  BY <1>2
<1> HIDE DEF T
<1>3. Nat \subseteq T
  BY <1>1, <1>2, InductiveSet
<1> QED
  BY <1>3 DEF T

(* What every turn of a loop keeps, the last turn has. *)
LEMMA LoopKeeps ==
  ASSUME NEW n \in Nat, NEW h, NEW V, h[0] \in V,
         \A i \in 1..n : h[i - 1] \in V => h[i] \in V
  PROVE  \A i \in 0..n : h[i] \in V
<1> DEFINE S == {i \in 0..n : h[i] \in V}
<1>1. 0 \in S
  OBVIOUS
<1>2. ASSUME NEW i \in 0..(n - 1), i \in S
      PROVE  i + 1 \in S
  <2>1. i + 1 \in 1..n /\ h[(i + 1) - 1] \in V
    BY <1>2
  <2>2. h[i + 1] \in V
    BY <2>1
  <2> QED
    BY <2>1, <2>2
<1> HIDE DEF S
<1>3. 0..n \subseteq S
  BY <1>1, <1>2, UpTo
<1> QED
  BY <1>3 DEF S

(* The turns of a loop: F[i] is what turn i does, g[i] what n turns from    *)
(* v0 have made of it after turn i.                                        *)
Steps(F, n, V) == F \in [1..n -> [V -> V]]

Runs(g, v0, F, n, V) ==
  /\ g \in [0..n -> V]
  /\ g[0] = v0
  /\ \A i \in 1..n : g[i] = F[i][g[i - 1]]

(* A recursion over 0..n whose steps stay in V has a solution, in V.       *)
LEMMA Recursion ==
  ASSUME NEW V, NEW v0 \in V, NEW n \in Nat, NEW F, Steps(F, n, V)
  PROVE  \E g : Runs(g, v0, F, n, V)
<1>0. F \in [1..n -> [V -> V]]
  BY DEF Steps
<1> DEFINE Solves(g, k) ==
             g[0] = v0 /\ \A i \in 1..k : g[i] = F[i][g[i - 1]]
           S == {k \in Nat : k <= n => \E g \in [0..k -> V] : Solves(g, k)}
<1>1. 0 \in S
  <2> DEFINE g == [i \in 0..0 |-> v0]
  <2>1. g \in [0..0 -> V] /\ Solves(g, 0)
    OBVIOUS
  <2> QED
    BY <2>1
<1>2. ASSUME NEW k \in Nat, k \in S
      PROVE  k + 1 \in S
  <2> SUFFICES ASSUME k + 1 <= n
               PROVE  \E g \in [0..k + 1 -> V] : Solves(g, k + 1)
    OBVIOUS
  <2>1. PICK g \in [0..k -> V] : Solves(g, k)
    BY <1>2
  <2> DEFINE h == [i \in 0..k + 1 |-> IF i = k + 1 THEN F[k + 1][g[k]]
                                      ELSE g[i]]
  <2>2. g[k] \in V /\ F[k + 1][g[k]] \in V
    BY <1>0
  <2>3. h \in [0..k + 1 -> V]
    BY <2>2
  <2>4. ASSUME NEW i \in 1..k + 1
        PROVE  h[i] = F[i][h[i - 1]]
    <3>1. CASE i = k + 1
      BY <3>1
    <3>2. CASE i # k + 1
      <4>1. i \in 1..k /\ h[i] = g[i] /\ h[i - 1] = g[i - 1]
        BY <3>2
      <4> QED
        BY <2>1, <4>1
    <3> QED
      BY <3>1, <3>2
  <2>5. h[0] = v0
    BY <2>1
  <2> QED
    BY <2>3, <2>4, <2>5
<1> HIDE DEF S
<1>3. n \in S
  BY <1>1, <1>2, InductiveSet
<1> QED
  BY <1>3 DEF S, Runs

(* Division with remainder: that it exists takes induction too. *)
LEMMA DivMod ==
  ASSUME NEW q \in Int, NEW r \in Int, NEW n \in Nat, 0 <= r, r < n
  PROVE  (n * q + r) % n = r
OBVIOUS

LEMMA DivNat ==
  ASSUME NEW y \in Nat, NEW n \in Nat, n > 0
  PROVE  \E q, r \in Int : y = n * q + r /\ 0 <= r /\ r < n
<1> DEFINE S == {x \in Nat :
                   \E q, r \in Int : x = n * q + r /\ 0 <= r /\ r < n}
<1>1. 0 \in S
  <2>1. 0 = n * 0 + 0
    OBVIOUS
  <2> QED
    BY <2>1
<1>2. ASSUME NEW x \in Nat, x \in S
      PROVE  x + 1 \in S
  <2>1. PICK q \in Int, r \in Int : x = n * q + r /\ 0 <= r /\ r < n
    BY <1>2
  <2>2. CASE r + 1 < n
    <3>1. x + 1 = n * q + (r + 1)
      BY <2>1
    <3> QED
      BY <2>1, <2>2, <3>1
  <2>3. CASE r + 1 = n
    <3>1. n * (q + 1) = n * q + n
      OBVIOUS
    <3>2. x + 1 = n * (q + 1) + 0 /\ q + 1 \in Int
      BY <2>1, <2>3, <3>1
    <3> QED
      BY <3>2
  <2> QED
    BY <2>1, <2>2, <2>3
<1> HIDE DEF S
<1>3. y \in S
  BY <1>1, <1>2, InductiveSet
<1> QED
  BY <1>3 DEF S

LEMMA DivInt ==
  ASSUME NEW x \in Int, NEW n \in Nat, n > 0
  PROVE  \E q, r \in Int : x = n * q + r /\ 0 <= r /\ r < n
<1>1. CASE x \in Nat
  BY <1>1, DivNat
<1>2. CASE x \notin Nat
  <2>1. PICK y \in Nat : y = x - n * x
    <3>1. (n - 1) * (-x) \in Nat
      BY <1>2
    <3>2. x - n * x = (n - 1) * (-x)
      OBVIOUS
    <3> QED
      BY <3>1, <3>2
  <2>2. PICK q \in Int, r \in Int : y = n * q + r /\ 0 <= r /\ r < n
    BY DivNat
  <2>3. x = n * (q + x) + r
    BY <2>1, <2>2
  <2>4. q + x \in Int
    OBVIOUS
  <2> QED
    BY <2>2, <2>3, <2>4
<1> QED
  BY <1>1, <1>2

LEMMA Remainder ==
  ASSUME NEW x \in Int, NEW n \in Nat, n > 0
  PROVE  \E q, r \in Int :
           x = n * q + r /\ 0 <= r /\ r < n /\ x % n = r
<1>1. PICK q \in Int, r \in Int : x = n * q + r /\ 0 <= r /\ r < n
  BY DivInt
<1>2. x % n = r
  BY <1>1, DivMod
<1> QED
  BY <1>1, <1>2, Zenon

=============================================================================
