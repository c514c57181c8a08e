--------------------------- MODULE WasmReference ---------------------------
(***************************************************************************)
(* What the WebAssembly core specification says a call of a function of a  *)
(* program does: the promise the interpreter is compared with.  Nothing of *)
(* drekkar_wa_core.c is in it: operands are a sequence, not an array with  *)
(* a wrapping stack pointer; locals are not operands, and start as zero;   *)
(* a branch unwinds the operands when it is taken; there is no gas.        *)
(***************************************************************************)
EXTENDS Bytecode, SequencesExt

CONSTANTS
  Width,        \* values are 0 .. 2^Width - 1
  MaxRefSteps   \* a call that takes more steps is not compared

Add(x, y) == (x + y) % 2^Width

TypeOf(p, t) ==
  IF t = ValueType THEN [params |-> 0, results |-> 1] ELSE FuncType(p, t)

(* The "end" that closes the construct opened at a; the "else" of an "if". *)
Count(p, ops, a, b) == Cardinality({r \in a..b : Op(p, r) \in ops})
Closes(p, a) ==
  First({q \in a..Nof(p) - 1 :
           Count(p, Openers, a, q) = Count(p, {"end"}, a, q)})
ElseOf(p, a) ==
  {q \in a..Closes(p, a) :
     /\ Op(p, q) = "else"
     /\ Count(p, Openers, a, q) = Count(p, {"end"}, a, q) + 1}

Keep(s, n) == SubSeq(s, Len(s) - n + 1, Len(s))
Drop(s, n) == SubSeq(s, 1, Len(s) - n)

Label(kind, arity, height, cont) ==
  [kind |-> kind, arity |-> arity, height |-> height, cont |-> cont,
   locals |-> <<>>]

Enter(p, s, f, ret) ==
  LET fn == Internal(p, f)
      t == FuncType(p, fn.type)
      frame == [Label("func", t.results, Len(s.vals) - t.params, ret)
                  EXCEPT !.locals = s.locals]
  IN [s EXCEPT !.vals = Drop(s.vals, t.params),
               !.locals = Keep(s.vals, t.params)
                            \o [i \in 1..fn.nof_local |-> 0],
               !.labels = Append(s.labels, frame),
               !.pc = fn.start_addr]

(* Unwinding to label n (1 is the outermost): what it takes is kept. *)
Unwind(s, n) ==
  LET l == s.labels[n] IN
  [s EXCEPT !.vals = SubSeq(s.vals, 1, l.height) \o Keep(s.vals, l.arity),
            !.labels = SubSeq(s.labels, 1, n - 1),
            !.pc = l.cont]

Return(s) ==
  LET n == CHOOSE i \in 1..Len(s.labels) :
             /\ s.labels[i].kind = "func"
             /\ \A j \in i + 1..Len(s.labels) : s.labels[j].kind # "func"
  IN [Unwind(s, n) EXCEPT !.locals = s.labels[n].locals,
                          !.status = IF n = 1 THEN "done" ELSE "running"]

Branch(s, l) ==
  LET n == Len(s.labels) - l
  IN IF s.labels[n].kind = "func" THEN Return(s) ELSE Unwind(s, n)

Trap(s) == [s EXCEPT !.status = "trap"]

(* What the host functions of the model do; a faulty one is a trap. *)
CallHost(p, s, f) ==
  LET t == FuncType(p, Imported(p, f).type)
  IN IF Imported(p, f).does # "return" THEN Trap(s)
     ELSE [s EXCEPT !.vals = Drop(s.vals, t.params)
                               \o [i \in 1..t.results |-> 1],
                    !.pc = @ + 1]

CallAny(p, s, f) ==
  IF IsImported(p, f) THEN CallHost(p, s, f) ELSE Enter(p, s, f, s.pc + 1)

RefStep(p, s) ==
  LET op == Op(p, s.pc)
      imm == Imm(p, s.pc)
      n == Len(s.vals)
      top == s.vals[n]
      s1 == [s EXCEPT !.vals = Drop(@, 1)]
      next(m) == [m EXCEPT !.pc = s.pc + 1]
      open(m, kind, arity, cont) ==
        [m EXCEPT !.labels = Append(@,
                     Label(kind, arity,
                           Len(m.vals) - TypeOf(p, imm).params, cont))]
      after == Closes(p, s.pc) + 1
  IN
  CASE op = "unreachable" -> Trap(s)
    [] op = "nop"   -> next(s)
    [] op = "const" -> next([s EXCEPT !.vals = Append(@, imm)])
    [] op = "add"   ->
         next([s EXCEPT !.vals = Append(Drop(@, 2), Add(s.vals[n - 1], top))])
    [] op = "drop"  -> next(s1)
    [] op = "select" ->
         next([s EXCEPT !.vals = Append(Drop(@, 3),
                 IF top # 0 THEN s.vals[n - 2] ELSE s.vals[n - 1])])
    [] op = "local.get" ->
         next([s EXCEPT !.vals = Append(@, s.locals[imm + 1])])
    [] op = "local.set" -> next([s1 EXCEPT !.locals[imm + 1] = top])
    [] op = "local.tee" -> next([s EXCEPT !.locals[imm + 1] = top])
    [] op = "block" -> next(open(s, "block", TypeOf(p, imm).results, after))
    [] op = "loop"  -> next(open(s, "loop", TypeOf(p, imm).params, s.pc))
    [] op = "if" ->
         IF top # 0
         THEN next(open(s1, "if", TypeOf(p, imm).results, after))
         ELSE IF ElseOf(p, s.pc) = {} THEN [s1 EXCEPT !.pc = after]
         ELSE [open(s1, "if", TypeOf(p, imm).results, after)
                 EXCEPT !.pc = First(ElseOf(p, s.pc)) + 1]
    [] op = "else" -> Branch(s, 0)
    [] op = "end" ->
         IF Last(s.labels).kind = "func" THEN Return(s)
         ELSE next([s EXCEPT !.labels = Front(@)])
    [] op = "br" -> Branch(s, imm)
    [] op = "br_if" -> IF top # 0 THEN Branch(s1, imm) ELSE next(s1)
    [] op = "br_table" ->
         Branch(s1, IF top < Len(imm) - 1 THEN imm[top + 1] ELSE Last(imm))
    [] op = "return" -> Return(s)
    [] op = "call" -> CallAny(p, s, imm)
    [] op = "call_indirect" ->
         IF top >= Len(p.table) THEN Trap(s)
         ELSE IF FuncTypeIdx(p, p.table[top + 1]) # imm THEN Trap(s)
         ELSE CallAny(p, s1, p.table[top + 1])

RefStart(p, f, args) ==
  Enter(p, [pc |-> 0, vals |-> args, locals |-> <<>>, labels |-> <<>>,
            status |-> "running"], f, 0)

(* Outcome of calling function f of p: "running" means not yet finished. *)
Outcome(p, f, args) ==
  FoldLeft(LAMBDA s, i : IF s.status = "running" THEN RefStep(p, s) ELSE s,
           RefStart(p, f, args), [i \in 1..MaxRefSteps |-> i])
=============================================================================
