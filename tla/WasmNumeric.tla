---------------------------- MODULE WasmNumeric ----------------------------
(***************************************************************************)
(* What the WebAssembly core specification says the integer instructions   *)
(* do, as far as it can be said bit by bit: the promise Numeric is         *)
(* compared with.  A value of width w is a number below 2^w; nothing here  *)
(* knows of slots.                                                         *)
(***************************************************************************)
EXTENDS Integers, FiniteSetsExt

CONSTANTS
  W8, W16, W32, W64,  \* the widths, scaled down
  Group               \* bits of a number in one byte of LEB128, 7

ASSUME WidthsAssumption ==
  /\ {W8, W16, W32, W64} \subseteq Nat
  /\ 0 < W8 /\ W8 < W16 /\ W16 < W32 /\ W64 = 2 * W32
  /\ Group \in 1..W32 - 1

Types == {"i32", "i64"}
Width(t) == IF t = "i32" THEN W32 ELSE W64
Value(t) == 0..2^Width(t) - 1

(* The positions of the ones of a value, and the value they make. *)
Ones == [x \in 0..2^W64 - 1 |-> {i \in 0..W64 - 1 : (x \div 2^i) % 2 = 1}]
FromOnes == [S \in SUBSET (0..W64 - 1) |-> MapThenSumSet(LAMBDA i : 2^i, S)]

(* The number a value stands for under a signed interpretation: its top    *)
(* bit has negative weight.                                                *)
Integer(w, x) == IF w - 1 \in Ones[x] THEN x - 2^w ELSE x

(* The signed LEB128 encodings of a value: its groups of bits, the lowest  *)
(* first, as many as hold the number and at most as many as the width      *)
(* takes; the bits to spare continue the sign.                             *)
Encodings(t, x) ==
  LET m == Integer(Width(t), x)
      most == (Width(t) + Group - 1) \div Group
      fits(k) == -(2^(k * Group - 1)) <= m /\ m < 2^(k * Group - 1)
  IN {[i \in 1..k |-> (m \div 2^((i - 1) * Group)) % 2^Group] :
        k \in {n \in 1..most : fits(n)}}

(* The bits of the result of moving bit i to position P(i). *)
Move(x, w, P(_)) ==
  FromOnes[{P(i) : i \in Ones[x] \cap (0..w - 1)} \cap (0..w - 1)]
Shifted(x, w, k) == Move(x, w, LAMBDA i : i + k)
Rotated(x, w, k) == Move(x, w, LAMBDA i : (i + k) % w)

(* The quotient truncated towards zero is the one with the greatest        *)
(* magnitude whose product with the divisor is not beyond the dividend.    *)
Magnitude(n) == IF n < 0 THEN -n ELSE n
Truncated(m, n) ==
  LET q == Max({k \in 0..Magnitude(m) : k * Magnitude(n) <= Magnitude(m)})
  IN IF (m < 0) = (n < 0) THEN q ELSE -q

Divisions == {"div_s", "div_u", "rem_s", "rem_u"}

(* Why the instruction traps, or "none". *)
SpecTrap(t, op, x, y) ==
  IF op \notin Divisions THEN "none"
  ELSE IF y = 0 THEN "DIVIDE_BY_ZERO"
  ELSE IF op = "div_s" /\ Truncated(Integer(Width(t), x),
                                    Integer(Width(t), y)) = 2^(Width(t) - 1)
  THEN "INTEGER_OVERFLOW"
  ELSE "none"

SpecBinary(t, op, x, y) ==
  LET w == Width(t)
      i == Integer(w, x)
      j == Integer(w, y)
      k == y % w
      fill == IF w - 1 \in Ones[x] THEN w - k..w - 1 ELSE {}
  IN CASE op = "add" -> (x + y) % 2^w
       [] op = "sub" -> (x - y) % 2^w
       [] op = "mul" -> (x * y) % 2^w
       [] op = "div_s" -> Truncated(i, j) % 2^w
       [] op = "div_u" -> Truncated(x, y)
       [] op = "rem_s" -> (i - j * Truncated(i, j)) % 2^w
       [] op = "rem_u" -> x - y * Truncated(x, y)
       [] op = "and" -> FromOnes[Ones[x] \cap Ones[y]]
       [] op = "or" -> FromOnes[Ones[x] \cup Ones[y]]
       [] op = "xor" -> FromOnes[(Ones[x] \cup Ones[y])
                                   \ (Ones[x] \cap Ones[y])]
       [] op = "shl" -> Shifted(x, w, k)
       [] op = "shr_u" -> Shifted(x, w, -k)
       [] op = "shr_s" -> FromOnes[Ones[Shifted(x, w, -k)] \cup fill]
       [] op = "rotl" -> Rotated(x, w, k)
       [] op = "rotr" -> Rotated(x, w, -k)

(* Comparisons by the order of the integers: -1, 0 or 1. *)
Order(i, j) == IF i < j THEN -1 ELSE IF i = j THEN 0 ELSE 1
SpecCompare(t, op, x, y) ==
  LET u == Order(x, y)
      s == Order(Integer(Width(t), x), Integer(Width(t), y))
      holds == CASE op = "eq" -> u = 0   [] op = "ne" -> u # 0
                 [] op = "lt_s" -> s < 0 [] op = "lt_u" -> u < 0
                 [] op = "gt_s" -> s > 0 [] op = "gt_u" -> u > 0
                 [] op = "le_s" -> s < 1 [] op = "le_u" -> u < 1
                 [] op = "ge_s" -> s > -1 [] op = "ge_u" -> u > -1
  IN IF holds THEN 1 ELSE 0

SpecCount(t, op, x) ==
  CASE op = "popcnt" -> Cardinality(Ones[x])
    [] op = "clz" -> IF x = 0 THEN Width(t) ELSE Width(t) - 1 - Max(Ones[x])
    [] op = "ctz" -> IF x = 0 THEN Width(t) ELSE Min(Ones[x])

(* The value of type t with the signed or unsigned meaning of n bits of x. *)
SpecExtend(t, n, signed, x) ==
  LET low == FromOnes[Ones[x] \cap (0..n - 1)]
  IN IF signed THEN Integer(n, low) % 2^Width(t) ELSE low
=============================================================================
