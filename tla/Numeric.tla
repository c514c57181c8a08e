------------------------------ MODULE Numeric ------------------------------
(***************************************************************************)
(* The integer instructions of dwac_tick: 0x41 and 0x42 with the LEB128    *)
(* number that follows, 0x45..0x5a, 0x67..0x8a, 0xa7, 0xac, 0xad,          *)
(* 0xc0..0xc4, and what the loads, stores and f64 conversions do with an   *)
(* integer.  A slot of the operand stack is a union of 64 bits; an i32     *)
(* lives in its lower half and the upper half is whatever the last         *)
(* instruction left there.  The guest executes any valid sequence of       *)
(* instructions, so an i32 arrives with every upper half it can have. Next *)
(* to each slot is the value the specification promises.                   *)
(***************************************************************************)
EXTENDS WasmNumeric, Sequences, Bitwise

CONSTANTS
  Constants,  \* immediate operands, as 64 bit values, lower half for i32
  Contents    \* what memory may hold where the guest loads, 64 bits of it

ASSUME InputsAssumption == Constants \cup Contents \subseteq Value("i64")

VARIABLES
  stack,      \* the operand stack: slots
  operands,   \* what they should hold: [type, value]
  result,     \* [trap, due]: what dwac_tick returned, what it should have
  access      \* [did, due]: what the last instruction gave away: a memory
              \* access, or the number a conversion to f64 starts from
vars == <<stack, operands, result, access>>

(* The members of the union, s32 to u64, and the macros that write it: a   *)
(* C value n of any type is converted to 64 bits by its sign.              *)
SignedBits(n, w) == IF n % 2^w < 2^(w - 1) THEN n % 2^w ELSE (n % 2^w) - 2^w
S32(v) == SignedBits(v, W32)
U32(v) == v % 2^W32
S64(v) == SignedBits(v, W64)

(* SET_I32, SET_U32, SET_I64 and SET_U64 *)
Set(n) == n % 2^W64

(* Overflow of a signed expression is undefined: the processor has wrapped *)
(* the result to w bits, or still has it in a wider register.              *)
Overflowing(n, w) == {n, SignedBits(n, w)}

(* Undefined too: a shift by less than 0 or not less than the width.       *)
(* Processors take the count modulo the width, or shift everything out.    *)
ShiftDefined(b, w) == b \in 0..w - 1
Shl(a, b, w) ==
  Overflowing(a * 2^(b % w), w) \cup IF ShiftDefined(b, w) THEN {} ELSE {0}
Shr(a, b, w) ==
  {a \div 2^(b % w)}
    \cup IF ShiftDefined(b, w) THEN {} ELSE {IF a < 0 THEN -1 ELSE 0}

(* rotl32, rotr32, rotl64, rotr64: with shift 0 the other shift is by the  *)
(* width, of which each outcome is fine after the "|".                     *)
Rotl(a, b, w) ==
  LET s == b % w IN
  {((a * 2^s) % 2^w) | r : r \in IF s = 0 THEN {0, a} ELSE {a \div 2^(w - s)}}
Rotr(a, b, w) ==
  LET s == b % w IN
  {(a \div 2^s) | r : r \in IF s = 0 THEN {0, a}
                            ELSE {(a * 2^(w - s)) % 2^w}}

(* C division truncates. *)
Quotient(a, b) ==
  IF (a < 0) = (b < 0) THEN Magnitude(a) \div Magnitude(b)
  ELSE -(Magnitude(a) \div Magnitude(b))
Remainder(a, b) == a - b * Quotient(a, b)

-----------------------------------------------------------------------------
(* The handlers: a is the slot under the top, b the top that is popped.    *)

(* Mutant of Trap32: b is taken from the whole slot. *)
Trap32Wide(op, a, b) ==
  IF op \notin Divisions THEN "none"
  ELSE IF b = 0 THEN "DIVIDE_BY_ZERO"
  ELSE IF op = "div_s" /\ U32(a) = 2^(W32 - 1) /\ S64(b) = -1
       THEN "INTEGER_OVERFLOW" ELSE "none"
Trap32(op, a, b) ==
  IF op \notin Divisions THEN "none"
  ELSE IF U32(b) = 0 THEN "DIVIDE_BY_ZERO"
  ELSE IF op = "div_s" /\ U32(a) = 2^(W32 - 1) /\ S32(b) = -1
       THEN "INTEGER_OVERFLOW" ELSE "none"

(* The C values that may be stored in the slot of a. *)
Binary32(op, a, b) ==
  CASE op = "add" -> Overflowing(S32(a) + S32(b), W32)
    [] op = "sub" -> Overflowing(S32(a) - S32(b), W32)
    [] op = "mul" -> Overflowing(S32(a) * S32(b), W32)
    [] op = "div_s" -> {Quotient(S32(a), S32(b))}
    [] op = "div_u" -> {U32(a) \div U32(b)}
    [] op = "rem_s" -> IF U32(a) = 2^(W32 - 1) /\ S32(b) = -1 THEN {0}
                       ELSE {Remainder(S32(a), S32(b))}
    [] op = "rem_u" -> {U32(a) % U32(b)}
    [] op = "and" -> {U32(a) & U32(b)}
    [] op = "or" -> {U32(a) | U32(b)}
    [] op = "xor" -> {SignedBits(U32(a) ^^ U32(b), W32)}
    [] op = "shl" -> Shl(S32(a), S32(b), W32)
    [] op = "shr_s" -> Shr(S32(a), S32(b), W32)
    [] op = "shr_u" -> Shr(U32(a), U32(b), W32)
    [] op = "rotl" -> Rotl(U32(a), U32(b), W32)
    [] op = "rotr" -> Rotr(U32(a), U32(b), W32)

Trap64(op, a, b) ==
  IF op \notin Divisions THEN "none"
  ELSE IF b = 0 THEN "DIVIDE_BY_ZERO"
  ELSE IF op = "div_s" /\ a = 2^(W64 - 1) /\ S64(b) = -1
       THEN "INTEGER_OVERFLOW" ELSE "none"

Binary64(op, a, b) ==
  CASE op = "add" -> {S64(a) + S64(b)}
    [] op = "sub" -> {S64(a) - S64(b)}
    [] op = "mul" -> {S64(a) * S64(b)}
    [] op = "div_s" -> {Quotient(S64(a), S64(b))}
    [] op = "div_u" -> {a \div b}
    [] op = "rem_s" -> IF a = 2^(W64 - 1) /\ S64(b) = -1 THEN {0}
                       ELSE {Remainder(S64(a), S64(b))}
    [] op = "rem_u" -> {a % b}
    [] op = "and" -> {a & b}
    [] op = "or" -> {a | b}
    [] op = "xor" -> {a ^^ b}
    [] op = "shl" -> Shl(S64(a), S64(b), W64)
    [] op = "shr_s" -> Shr(S64(a), S64(b), W64)
    [] op = "shr_u" -> Shr(a, b, W64)
    [] op = "rotl" -> Rotl(a, U32(b), W64)
    [] op = "rotr" -> Rotr(a, U32(b), W64)

Comparison(op, s, v, u, n) ==
  LET holds == CASE op = "eq" -> s = v   [] op = "ne" -> s # v
                 [] op = "lt_s" -> s < v [] op = "lt_u" -> u < n
                 [] op = "gt_s" -> s > v [] op = "gt_u" -> u > n
                 [] op = "le_s" -> s <= v [] op = "le_u" -> u <= n
                 [] op = "ge_s" -> s >= v [] op = "ge_u" -> u >= n
  IN IF holds THEN 1 ELSE 0

Compare32(op, a, b) == Comparison(op, S32(a), S32(b), U32(a), U32(b))
Compare64(op, a, b) == Comparison(op, S64(a), S64(b), a, b)

(* __builtin_clz, __builtin_ctz, __builtin_popcount and their long forms,  *)
(* of a value that is not 0.                                               *)
Leading(n, w) == Max({k \in 0..w - 1 : n < 2^(w - k)})
Trailing(n, w) == Max({k \in 0..w - 1 : n % 2^k = 0})
Population(n, w) == MapThenSumSet(LAMBDA i : (n \div 2^i) % 2, 0..w - 1)
Count(op, n, w) ==
  CASE op = "clz" -> Leading(n, w)
    [] op = "ctz" -> Trailing(n, w)
    [] op = "popcnt" -> Population(n, w)
Count32(op, v) == Count(op, U32(v), W32)
Count64(op, v) == Count(op, v, W64)

(* Mutant of ExtendI32: the upper half is taken for an extension already. *)
ExtendI32Kept(signed, v) == IF signed THEN S32(v) ELSE v

(* Conversions between integers, and sign extension. *)
Wrap(v) == v & (2^W32 - 1)
ExtendI32(signed, v) == IF signed THEN S32(v) ELSE U32(v)
ExtendN(n, v) == SignedBits(v, n)

-----------------------------------------------------------------------------
(* Instructions of the guest *)

Top == stack[Len(stack)]
TopOperand == operands[Len(operands)]
Below(q) == SubSeq(q, 1, Len(q) - 1)
Operand(t, x) == [type |-> t, value |-> x]
Running == result = [trap |-> "none", due |-> "none"]
Nothing == [did |-> <<>>, due |-> <<>>]

(* leb_read_signed, which ends with the last byte of the encoding whatever *)
(* the width; the bits shifted beyond 64 are lost.                         *)
LebReadSigned(e) ==
  LET shift == Group * Len(e)
      bits == MapThenSumSet(LAMBDA i : e[i] * 2^(Group * (i - 1)), DOMAIN e)
      negative == shift < W64 /\ e[Len(e)] >= 2^(Group - 1)
  IN (IF negative THEN bits + 2^W64 - 2^shift ELSE bits) % 2^W64

(* i32.const and i64.const put all that has been read into the slot. *)
Const(t, c) ==
  /\ Running /\ Len(stack) < 2
  /\ \E e \in Encodings(t, c % 2^Width(t)) :
       stack' = Append(stack, Set(S64(LebReadSigned(e))))
  /\ operands' = Append(operands, Operand(t, c % 2^Width(t)))
  /\ access' = Nothing
  /\ UNCHANGED result

(* Two operands of one type, which validation guarantees. *)
Pair(t) ==
  /\ Running
  /\ Len(stack) = 2
  /\ operands[1].type = t /\ operands[2].type = t

(* A guest compiled from C keeps shift counts below the width, as the code *)
(* needs: it shifts by the whole operand, undefined in C for the others.   *)
Shifts == {"shl", "shr_s", "shr_u"}
DefinedInC(t, op) == op \in Shifts => operands[2].value < Width(t)

Binary(t, op) ==
  /\ Pair(t) /\ DefinedInC(t, op)
  /\ LET x == operands[1].value
         y == operands[2].value
         trap == IF t = "i32" THEN Trap32(op, stack[1], stack[2])
                 ELSE Trap64(op, stack[1], stack[2])
         due == SpecTrap(t, op, x, y)
     IN /\ result' = [trap |-> trap, due |-> due]
        /\ IF trap # "none" \/ due # "none"
           THEN stack' = Below(stack) /\ operands' = Below(operands)
           ELSE /\ \E n \in IF t = "i32" THEN Binary32(op, stack[1], stack[2])
                             ELSE Binary64(op, stack[1], stack[2]) :
                      stack' = <<Set(n)>>
                /\ operands' = <<Operand(t, SpecBinary(t, op, x, y))>>
  /\ access' = Nothing

Compare(t, op) ==
  /\ Pair(t)
  /\ stack' = <<Set(IF t = "i32" THEN Compare32(op, stack[1], stack[2])
                    ELSE Compare64(op, stack[1], stack[2]))>>
  /\ operands' = <<Operand("i32", SpecCompare(t, op, operands[1].value,
                                              operands[2].value))>>
  /\ access' = Nothing
  /\ UNCHANGED result

(* The instructions that replace the top. *)
Replace(from, n, to, x) ==
  /\ stack' = Append(Below(stack), Set(n))
  /\ operands' = Append(Below(operands), Operand(to, x))
  /\ access' = Nothing
  /\ UNCHANGED result
HasTop(t) == Running /\ stack # <<>> /\ TopOperand.type = t

Eqz(t) ==
  /\ HasTop(t)
  /\ Replace(t, IF (IF t = "i32" THEN S32(Top) ELSE S64(Top)) = 0
                THEN 1 ELSE 0,
             "i32", SpecCompare(t, "eq", TopOperand.value, 0))

(* __builtin_clz and __builtin_ctz, and their long forms, are undefined    *)
(* for 0, which WebAssembly counts as the width; that is left out.         *)
CountBits(t, op) ==
  /\ HasTop(t)
  /\ op = "popcnt" \/ TopOperand.value # 0
  /\ Replace(t, IF t = "i32" THEN Count32(op, Top) ELSE Count64(op, Top),
             t, SpecCount(t, op, TopOperand.value))
WrapI64 ==
  /\ HasTop("i64")
  /\ Replace("i64", Wrap(Top), "i32", TopOperand.value % 2^W32)
ExtendToI64(signed) ==
  /\ HasTop("i32")
  /\ Replace("i32", ExtendI32(signed, Top), "i64",
             SpecExtend("i64", W32, signed, TopOperand.value))
ExtendSign(t, n) ==
  /\ HasTop(t) /\ n < Width(t)
  /\ Replace(t, ExtendN(n, Top), t, SpecExtend(t, n, TRUE, TopOperand.value))

-----------------------------------------------------------------------------
(* What leaves and enters the operand stack *)

(* Loads: n bits are read; only full width loads have no unsigned form.    *)
(* The offset, which is added to the address, is left out of both.         *)
Load(t, n, signed, c) ==
  /\ HasTop("i32") /\ n <= Width(t) /\ (n = Width(t) => signed)
  /\ stack' = Append(Below(stack),
                     Set(IF signed THEN SignedBits(c, n) ELSE c % 2^n))
  /\ operands' = Append(Below(operands),
                        Operand(t, SpecExtend(t, n, signed, c)))
  /\ access' = [did |-> <<U32(Top), n>>, due |-> <<TopOperand.value, n>>]
  /\ UNCHANGED result

(* Mutant of Stored: an address is taken from the whole slot. *)
StoredWide(n) == <<stack[1], stack[2] % 2^n>>

(* Stores: the address is under the value, of which n bits are written.    *)
Stored(n) == <<U32(stack[1]), stack[2] % 2^n>>
Store(t, n) ==
  /\ Running /\ Len(stack) = 2 /\ n <= Width(t)
  /\ operands[1].type = "i32" /\ operands[2].type = t
  /\ access' = [did |-> Stored(n),
                due |-> <<operands[1].value, operands[2].value % 2^n>>]
  /\ stack' = <<>> /\ operands' = <<>>
  /\ UNCHANGED result

(* f64.convert: the integer the C conversion to double begins with; the    *)
(* double is dropped.                                                      *)
Convert(t, signed) ==
  /\ HasTop(t)
  /\ access' = [did |-> <<CASE t = "i32" -> ExtendI32(signed, Top)
                            [] t = "i64" /\ signed -> S64(Top)
                            [] t = "i64" /\ ~signed -> Top>>,
                due |-> <<IF signed
                          THEN Integer(Width(t), TopOperand.value)
                          ELSE TopOperand.value>>]
  /\ stack' = Below(stack) /\ operands' = Below(operands)
  /\ UNCHANGED result

Init ==
  /\ stack = <<>> /\ operands = <<>>
  /\ result = [trap |-> "none", due |-> "none"]
  /\ access = Nothing

BinaryOps == Divisions \cup Shifts
               \cup {"add", "sub", "mul", "and", "or", "xor", "rotl", "rotr"}
Comparisons == {"eq", "ne", "lt_s", "lt_u", "gt_s", "gt_u",
                "le_s", "le_u", "ge_s", "ge_u"}

Next ==
  \E t \in Types :
    \/ \E c \in Constants : Const(t, c)
    \/ \E op \in BinaryOps : Binary(t, op)
    \/ \E op \in Comparisons : Compare(t, op)
    \/ Eqz(t)
    \/ \E op \in {"clz", "ctz", "popcnt"} : CountBits(t, op)
    \/ t = "i64" /\ WrapI64
    \/ \E signed \in BOOLEAN : t = "i64" /\ ExtendToI64(signed)
    \/ \E n \in {W8, W16, W32} : ExtendSign(t, n)
    \/ \E n \in {W8, W16, W32, W64}, signed \in BOOLEAN, c \in Contents :
         Load(t, n, signed, c)
    \/ \E n \in {W8, W16, W32, W64} : Store(t, n)
    \/ \E signed \in BOOLEAN : Convert(t, signed)

Spec == Init /\ [][Next]_vars

-----------------------------------------------------------------------------
(* Properties *)

(* However the upper half of its slot came about, an operand is what the   *)
(* specification says: the lower half for an i32, the slot for an i64.     *)
(* The shifts with a count of the width or more, and clz and ctz of 0, are *)
(* left out (Binary, CountBits): WebAssembly defines them and C does not,  *)
(* so no more than what the processor does is to be said of them.          *)
OperandsAgree ==
  \A i \in 1..Len(stack) :
    stack[i] % 2^Width(operands[i].type) = operands[i].value

(* A division traps exactly when it should, for the right reason.          *)
TrapsDue == result.trap = result.due

(* A memory access has the address and the bits, and a conversion starts   *)
(* from the integer, that the operands stand for.                          *)
AccessesDue == access.did = access.due
=============================================================================
