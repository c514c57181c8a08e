----------------------------- MODULE Bytecode -----------------------------
(***************************************************************************)
(* The parsed program that drekkar_wa_core.c interprets, and the static    *)
(* questions asked about it.  One address holds one instruction, a tuple   *)
(* <<opcode, immediates...>>: the bytes of an immediate are abstracted,    *)
(* the file header in front of the code is not (see NofHeader in           *)
(* MCInterpreter).  A program is a record                                  *)
(*   code     the instructions; address a is code[a + 1]                   *)
(*   types    the function types of section 1                              *)
(*   imports  imported functions: [type, does], numbered first             *)
(*   funcs    internal functions: [type, nof_local, start_addr, end_addr]  *)
(*   table    func_table, the functions call_indirect can reach            *)
(*   exported the function the host calls                                  *)
(* A block type is the signed number the bytecode holds: an index into     *)
(* types, EmptyType, or ValueType for "one result, no parameters".         *)
(***************************************************************************)
EXTENDS Naturals, Integers, Sequences, FiniteSets

EmptyType == -64   \* the byte 0x40 read as signed LEB128
ValueType == -1    \* the byte 0x7f (i32) read as signed LEB128

Nof(p) == Len(p.code)
Op(p, a) == p.code[a + 1][1]
Imm(p, a) == p.code[a + 1][2]

NofImported(p) == Len(p.imports)
TotalNof(p) == Len(p.imports) + Len(p.funcs)
IsImported(p, f) == f < NofImported(p)
Internal(p, f) == p.funcs[f - NofImported(p) + 1]
Imported(p, f) == p.imports[f + 1]
FuncTypeIdx(p, f) ==
  IF IsImported(p, f) THEN Imported(p, f).type ELSE Internal(p, f).type

(* dwac_get_func_type_ptr: the negative numbers it knows are EmptyType and *)
(* -0x7f .. -0x7c, which are not what the bytecode holds for a value type; *)
(* for ValueType it returns NULL.                                          *)
HasType(p, t) == t \in 0..Len(p.types) - 1 \/ t = EmptyType
FuncType(p, t) ==
  IF t = EmptyType THEN [params |-> 0, results |-> 0] ELSE p.types[t + 1]

Openers == {"block", "loop", "if"}

(* Nesting level at address q of a scan that started at level 1 at "start" *)
Level(p, start, q) ==
  1 + Cardinality({r \in start..q : Op(p, r) \in Openers})
    - Cardinality({r \in start..q : Op(p, r) = "end"})

IsEnd(p, start, q) == Op(p, q) = "end" /\ Level(p, start, q) = 0
IsElse(p, start, q) == Op(p, q) = "else" /\ Level(p, start, q) = 1

First(S) == CHOOSE q \in S : \A r \in S : q <= r

(* Mutant of FindBrAddr: the first "end", whatever is nested. *)
FindFirstEnd(p, start) ==
  First({q \in start..Nof(p) - 1 : Op(p, q) = "end"})

(* find_br_addr *)
FindBrAddr(p, start) == First({q \in start..Nof(p) - 1 : IsEnd(p, start, q)})

(* find_else_or_end *)
FindElseOrEnd(p, start) ==
  First({q \in start..Nof(p) - 1 : IsEnd(p, start, q) \/ IsElse(p, start, q)})
=============================================================================
