--------------------------- MODULE MCInterpreter ---------------------------
(***************************************************************************)
(* Programs for Interpreter.  A generated program is one function body     *)
(* grown instruction by instruction and kept while the validation rules of *)
(* WebAssembly accept it, so that a run covers EVERY valid body over an    *)
(* alphabet up to a length.  With "operand" in Style a body may have       *)
(* operands below an "if", or an "if" with results; compilers for C emit   *)
(* neither.                                                                *)
(***************************************************************************)
EXTENDS Interpreter

-----------------------------------------------------------------------------
(* Validation: ctrl is the stack of open constructs, h the operand height *)

Ctrl(op, height, results, arity) ==
  [op |-> op, height |-> height, results |-> results, arity |-> arity,
   dead |-> FALSE]

Inner(v) == Last(v.ctrl)
Take(v, n) ==
  IF v.h - n >= Inner(v).height THEN {[v EXCEPT !.h = v.h - n]}
  ELSE IF Inner(v).dead THEN {[v EXCEPT !.h = Inner(v).height]}
  ELSE {}
Give1(v, n) == [v EXCEPT !.h = @ + n]
Dead(v) ==
  [v EXCEPT !.h = Inner(v).height, !.ctrl[Len(v.ctrl)].dead = TRUE]

Uses(v, takes, gives) == {Give1(w, gives) : w \in Take(v, takes)}
Ends(v) == {w \in Take(v, Inner(v).results) : w.h = Inner(v).height}
Opened(v, op, results, arity) ==
  [v EXCEPT !.ctrl = Append(@, Ctrl(op, v.h, results, arity))]

LabelArity(v, l) == v.ctrl[Len(v.ctrl) - l].arity
(* Not to the label of the function itself. *)
MayBranch(v, l) == l < Len(v.ctrl) - 1

(* The states validation can be in after instruction ins: one or none. *)
Accepts(v, ins, types, params, Style) ==
  LET op == ins[1]
      imm == ins[2]
      results == IF imm = EmptyType THEN 0
                 ELSE IF imm = ValueType THEN 1 ELSE types[imm + 1].results
  IN
  CASE op = "nop" -> {v}
    [] op = "unreachable" -> {Dead(v)}
    [] op = "const" -> {Give1(v, 1)}
    [] op = "local.get" -> {Give1(v, 1)}
    [] op = "local.set" -> Take(v, 1)
    [] op = "local.tee" -> Uses(v, 1, 1)
    [] op = "drop" -> Take(v, 1)
    [] op = "add" -> Uses(v, 2, 1)
    [] op = "select" -> Uses(v, 3, 1)
    [] op = "block" -> {Opened(v, "block", results, results)}
    [] op = "loop" -> {Opened(v, "loop", results, 0)}
    [] op = "if" ->
         {Opened(w, "if", results, results) :
            w \in {u \in Take(v, 1) :
                     \/ "operand" \in Style
                     \/ u.h = Inner(u).height /\ results = 0}}
    [] op = "else" ->
         IF Inner(v).op # "if" THEN {}
         ELSE {[w EXCEPT !.ctrl[Len(w.ctrl)] =
                  Ctrl("else", w.h, Inner(w).results, Inner(w).arity)] :
                 w \in Ends(v)}
    [] op = "end" ->
         IF Inner(v).op = "if" /\ Inner(v).results > 0 THEN {}
         ELSE {[w EXCEPT !.h = @ + Inner(w).results, !.ctrl = Front(@)] :
                 w \in Ends(v)}
    [] op = "br" ->
         IF ~MayBranch(v, imm) THEN {}
         ELSE {Dead(w) : w \in Take(v, LabelArity(v, imm))}
    [] op = "br_if" ->
         IF ~MayBranch(v, imm) THEN {}
         ELSE UNION {Uses(w, LabelArity(v, imm), LabelArity(v, imm)) :
                       w \in Take(v, 1)}
    [] op = "br_table" ->
         IF \E i \in DOMAIN imm : ~MayBranch(v, imm[i]) THEN {}
         ELSE IF \E i \in DOMAIN imm :
                   LabelArity(v, imm[i]) # LabelArity(v, imm[1]) THEN {}
         ELSE UNION {{Dead(w) : w \in Take(u, LabelArity(v, imm[1]))} :
                       u \in Take(v, 1)}
    [] op = "return" -> {Dead(w) : w \in Take(v, v.ctrl[1].arity)}
    [] op = "call" -> Uses(v, params, types[1].results)

(* Dead code is only looked at where a construct ends. *)
MayFollow(v, ins) == ~Inner(v).dead \/ ins[1] \in {"end", "else"}

(* Pairs of a code and the state of validation after it, one instruction   *)
(* longer than those in S, that can still be closed with "left" more.      *)
Grow(S, left, alphabet, types, Style) ==
  UNION {{<<Append(s[1], ins), w>> :
            w \in {u \in Accepts(s[2], ins, types, types[1].params, Style) :
                     Len(u.ctrl) <= left}} :
           <<s, ins>> \in {<<t, i>> \in S \X alphabet :
                            t[2].ctrl # <<>> /\ MayFollow(t[2], i)}}

Start(types) ==
  {<< <<>>, [ctrl |-> <<Ctrl("func", 0, types[1].results,
                             types[1].results)>>, h |-> 0] >>}

(* The pairs of every length up to n, one set per length. *)
Layers(alphabet, types, n, Style) ==
  FoldLeft(LAMBDA layers, i :
             Append(layers,
                    Grow(Last(layers), n - i, alphabet, types, Style)),
           <<Start(types)>>, [i \in 1..n |-> i])

Bodies(alphabet, types, n, Style) ==
  LET layers == Layers(alphabet, types, n, Style)
  IN {s[1] : s \in {t \in UNION Range(layers) : t[2].ctrl = <<>>}}

(* Byte 0 of a file is 0x00, the first of "\0asm". *)
Header == << <<"unreachable">> >>

(* nof_local as parse_prog_sections leaves it: 10 more than declared. *)
Slack == 10

OneFunction(types, code) ==
  [code |-> Header \o code, types |-> types, imports |-> <<>>,
   funcs |-> <<[type |-> 0, nof_local |-> Slack, start_addr |-> 1,
                end_addr |-> Len(code)]>>,
   table |-> <<>>, exported |-> 0]

Sig(params, results) == [params |-> params, results |-> results]

-----------------------------------------------------------------------------
(* Every valid body with one parameter, one result and at most BodyLen - 1 *)
(* instructions before the last "end".                                     *)

CONSTANT BodyLen

ControlAlphabet ==
  {<<"local.get", 0>>, <<"local.set", 0>>, <<"const", 1>>, <<"add", 0>>,
   <<"block", EmptyType>>, <<"block", 1>>, <<"loop", EmptyType>>,
   <<"if", EmptyType>>, <<"else", 0>>, <<"end", 0>>,
   <<"br", 0>>, <<"br", 1>>, <<"br_if", 0>>, <<"return", 0>>}

ControlTypes == <<Sig(1, 1), Sig(0, 1)>>

ControlPrograms ==
  {OneFunction(ControlTypes, code) :
     code \in Bodies(ControlAlphabet, ControlTypes, BodyLen, {})}

-----------------------------------------------------------------------------
(* Programs written for what a short generated body does not reach         *)

(* while (--n) ; with the counter kept by local.tee *)
CountDown ==
  OneFunction(<<Sig(1, 1)>>,
    << <<"loop", EmptyType>>, <<"local.get", 0>>, <<"const", 3>>, <<"add">>,
       <<"local.tee", 0>>, <<"br_if", 0>>, <<"end">>,
       <<"local.get", 0>>, <<"end">> >>)

(* if (a) { while (b) --b; a = b } else { a = 1 }; the result is a + a *)
Branches ==
  OneFunction(<<Sig(2, 1)>>,
    << <<"local.get", 0>>, <<"if", EmptyType>>,
         <<"block", EmptyType>>, <<"loop", EmptyType>>,
           <<"local.get", 1>>, <<"const", 0>>, <<"const", 1>>,
           <<"local.get", 1>>, <<"select">>, <<"br_if", 1>>, <<"drop">>,
           <<"local.get", 1>>, <<"const", 3>>, <<"add">>, <<"local.set", 1>>,
           <<"br", 0>>, <<"end">>, <<"end">>,
         <<"local.get", 1>>, <<"local.set", 0>>,
       <<"else">>, <<"const", 1>>, <<"local.set", 0>>, <<"end">>,
       <<"local.get", 0>>, <<"local.get", 0>>, <<"add">>, <<"end">> >>)

(* sum(n) = n = 0 ? 0 : sum(n - 1) + n *)
Sum(minusOne) ==
  OneFunction(<<Sig(1, 1)>>,
    << <<"block", EmptyType>>, <<"local.get", 0>>, <<"br_if", 0>>,
         <<"const", 0>>, <<"return">>, <<"end">>,
       <<"local.get", 0>>, <<"const", minusOne>>, <<"add">>, <<"call", 0>>,
       <<"local.get", 0>>, <<"add">>, <<"end">> >>)

(* A switch on the argument: 0 calls an internal function, 1 a host        *)
(* function that works, 2 one that fails, 3 is unreachable.                *)
Switch(does) ==
  [code |-> Header \o
     << <<"block", EmptyType>>, <<"block", EmptyType>>, <<"block", EmptyType>>,
          <<"local.get", 0>>, <<"br_table", <<0, 1, 2>>>>, <<"end">>,
          <<"local.get", 0>>, <<"call", 3>>, <<"return">>, <<"end">>,
          <<"nop">>, <<"local.get", 0>>, <<"call", 0>>, <<"return">>,
        <<"end">>, <<"local.get", 0>>, <<"call", 1>>, <<"end">>,
        <<"unreachable">>, <<"end">> >>,
   types |-> <<Sig(1, 1)>>,
   imports |-> <<[type |-> 0, does |-> "return"], [type |-> 0, does |-> does]>>,
   funcs |-> <<[type |-> 0, nof_local |-> Slack, start_addr |-> 1,
                end_addr |-> 18],
               [type |-> 0, nof_local |-> Slack, start_addr |-> 19,
                end_addr |-> 20]>>,
   table |-> <<>>, exported |-> 2]

(* call_indirect through a table of a host function, a function of the     *)
(* type called for, and one of another type; the fourth entry is missing.  *)
Table ==
  [code |-> Header \o
     << <<"const", 2>>, <<"local.get", 0>>, <<"call_indirect", 0>>, <<"end">>,
        <<"local.get", 0>>, <<"const", 1>>, <<"add">>, <<"end">>,
        <<"end">> >>,
   types |-> <<Sig(1, 1), Sig(0, 0)>>,
   imports |-> <<[type |-> 0, does |-> "return"]>>,
   funcs |-> <<[type |-> 0, nof_local |-> Slack, start_addr |-> 1,
                end_addr |-> 4],
               [type |-> 0, nof_local |-> Slack, start_addr |-> 5,
                end_addr |-> 8],
               [type |-> 1, nof_local |-> Slack, start_addr |-> 9,
                end_addr |-> 9]>>,
   table |-> <<0, 2, 3>>, exported |-> 1]

Endless ==
  OneFunction(<<Sig(0, 0)>>,
    << <<"loop", EmptyType>>, <<"br", 0>>, <<"end">>, <<"end">> >>)

EndlessRecursion ==
  OneFunction(<<Sig(0, 0)>>, << <<"call", 0>>, <<"end">> >>)

WrittenPrograms ==
  {CountDown, Branches, Sum(3), Switch("raise"), Switch("mismatch"), Table,
   Endless, EndlessRecursion}

-----------------------------------------------------------------------------
(* Programs outside what the interpreter gets right *)

OperandTypes == <<Sig(0, 1)>>
OperandPrograms ==
  {OneFunction(OperandTypes, code) :
     code \in Bodies({<<"const", 1>>, <<"add", 0>>, <<"if", EmptyType>>,
                      <<"end", 0>>}, OperandTypes, BodyLen, {"operand"})}

(* The recursion of Sum with "declared" locals of its own *)
DeepPrograms ==
  {[Sum(15) EXCEPT !.funcs[1].nof_local = Slack + declared] : declared \in 0..6}

=============================================================================
