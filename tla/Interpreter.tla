---------------------------- MODULE Interpreter ----------------------------
(***************************************************************************)
(* dwac_tick, the loop that runs guest code, the calls into it, and what   *)
(* the host does between two ticks.  The operand stack is a cyclic array   *)
(* whose indices have the width of dwac_stack_pointer_type: Capacity, a    *)
(* power of two, stands for 0x10000, and "sp = -1" is Capacity - 1.        *)
(* Numeric instructions and memory accesses are represented by "const" and *)
(* "add"; everything that moves pc, sp, fp or the block stack is here.     *)
(***************************************************************************)
EXTENDS WasmReference

CONSTANTS
  Programs,    \* the programs a behaviour may run
  Capacity,    \* DWAC_STACK_CAPACITY
  Budgets,     \* values DWAC_GAS may have
  MaxBlocks,   \* entries of the block stack the host has memory for
  MaxCalls     \* calls the host makes

ASSUME ConstantsAssumption ==
  /\ \E w \in 2..16 : Capacity = 2^w
  /\ Budgets \subseteq Nat \ {0}
  /\ {MaxBlocks, MaxCalls, Width, MaxRefSteps} \subseteq Nat

Value == 0..2^Width - 1
Magic == 2^Width         \* WA_MAGIC_STACK_VALUE: no value the guest pushes
Slot == 0..Capacity - 1
Sentinel == Capacity - 1
SpInitial == Capacity - 1

(* What a module has that is valid and has been parsed: every index names  *)
(* something, a function begins and ends in the file, every construct is   *)
(* closed, the file ends with an "end" and has more bytes than functions.  *)
Addresses(p) == 0..Nof(p) - 1
Functions(p) == 0..TotalNof(p) - 1
TypeIndices(p) == 0..Len(p.types) - 1

IndicesFit(p) ==
  /\ {Nof(p), Len(p.types), NofImported(p), Len(p.funcs), Len(p.table)}
       \subseteq Nat
  /\ TotalNof(p) <= Nof(p)
  /\ p.exported \in Functions(p)
  /\ \A i \in 1..Len(p.types) :
       p.types[i].params \in Nat /\ p.types[i].results \in Nat
  /\ \A i \in 1..NofImported(p) : p.imports[i].type \in TypeIndices(p)
  /\ \A i \in 1..Len(p.funcs) :
       /\ p.funcs[i].type \in TypeIndices(p)
       /\ p.funcs[i].nof_local \in Nat
       /\ p.funcs[i].start_addr \in Addresses(p)
       /\ p.funcs[i].end_addr \in Addresses(p)
  /\ \A i \in 1..Len(p.table) : p.table[i] \in Functions(p)

CodeFits(p) ==
  /\ Nof(p) > 0 /\ Op(p, Nof(p) - 1) = "end"
  /\ \A a \in Addresses(p) :
       LET op == Op(p, a) IN
       /\ op \in Openers \cup {"else"} =>
            \E q \in a + 1..Nof(p) - 1 : IsEnd(p, a + 1, q)
       /\ op \in Openers => Imm(p, a) \in Int
       /\ op = "const" => Imm(p, a) \in Value
       /\ op \in {"local.get", "local.set", "local.tee", "br", "br_if"} =>
            Imm(p, a) \in Nat
       /\ op = "br_table" => /\ Len(Imm(p, a)) \in Nat \ {0}
                             /\ \A i \in 1..Len(Imm(p, a)) :
                                  Imm(p, a)[i] \in Nat
       /\ op = "call" => Imm(p, a) \in Functions(p)

ASSUME ProgramsAssumption ==
  \A p \in Programs : IndicesFit(p) /\ CodeFits(p)

VARIABLES
  prog,    \* dwac_prog, never changed once parsed
  d,       \* dwac_data: the machine, and the result of the latest tick
  call,    \* the latest call from the host: function, arguments, sp and fp
  calls    \* number of calls the host has made

vars == <<prog, d, call, calls>>

(* uint16_t and int16_t of an integer *)
Wrap(i) == i % Capacity
Signed(i) ==
  IF Wrap(i) < Capacity \div 2 THEN Wrap(i) ELSE Wrap(i) - Capacity

(* "x < n" and "x >= n" in C where x is an int16_t and n a uint32_t: a *)
(* negative x becomes a huge number.                                    *)
LessThanOrEqual(x, n) == 0 <= x /\ x <= n   \* mutant of LessThan
LessThan(x, n) == 0 <= x /\ x < n

-----------------------------------------------------------------------------
(* The machine.  result is "ticking" while dwac_tick runs, "idle" when the *)
(* host holds no result of it, and what dwac_tick returned otherwise.      *)

Ticking(m) == m.result = "ticking"
Failed(m) == m.result \notin {"idle", "ticking", "OK", "NEED_MORE_GAS"}

(* A return statement; Raise also writes d->exception. *)
Give(m, r) == [m EXCEPT !.result = r]
Raise(m, r) == [m EXCEPT !.result = r, !.exception = TRUE]

Push(m, v) == [m EXCEPT !.sp = Wrap(@ + 1), !.stack[Wrap(m.sp + 1)] = v]
Pop(m) == [m EXCEPT !.sp = Wrap(@ - 1)]
Top(m) == m.stack[m.sp]
Below(m, n) == m.stack[Wrap(m.sp - n)]
Local(m, i) == Wrap(m.fp + i)

Goto(m, a) == [m EXCEPT !.pc = a]
Block(m) == Last(m.blocks)
PopBlocks(m, n) == [m EXCEPT !.blocks = SubSeq(@, 1, Len(@) - n)]

(* A block stack entry.  br_addr, func_idx and end_addr share their        *)
(* storage: "addr" is that word.                                           *)
Entry(kind, type, addr, sp) ==
  [kind |-> kind, type |-> type, addr |-> addr, else_addr |-> 0,
   stack_pointer |-> sp, frame_pointer |-> 0, return_addr |-> 0]

(* dwac_linear_storage_size_push; without memory for it an assert of the   *)
(* allocator ends the process.                                             *)
PushBlock(m, entry) ==
  IF Len(m.blocks) >= MaxBlocks THEN Give(m, "ABORT")
  ELSE [m EXCEPT !.blocks = Append(@, entry)]

(* The three tests most control instructions end with; br_table, block,    *)
(* loop, if and else leave the first one out, nop the first two.           *)
(* Mutant of Leave: instructions are free. *)
LeaveUnmetered(m, tests) ==
  IF m.result = "ticking" /\ "pc" \in tests /\ m.pc >= Nof(prog)
  THEN Give(m, "PC_ADDR") ELSE m

Overflown(m) == m.stack[Sentinel] # Magic
Leave(m, tests) ==
  IF m.result # "ticking" THEN m
  ELSE IF "stack" \in tests /\ Overflown(m) THEN Give(m, "STACK_OVERFLOW")
  ELSE IF "pc" \in tests /\ m.pc >= Nof(prog) THEN Give(m, "PC_ADDR")
  ELSE [m EXCEPT !.gas = @ - 1,
                 !.result = IF m.gas <= 1 THEN "NEED_MORE_GAS" ELSE "ticking"]

(* dwac_tick up to its loop *)
EnterTick(m, budget) ==
  IF Overflown(m) THEN Give(m, "STACK_OVERFLOW")
  ELSE IF m.pc >= Nof(prog) THEN Give(m, "PC_ADDR")
  ELSE IF m.exception THEN Give(m, "EXCEPTION")
  ELSE [m EXCEPT !.gas = budget, !.result = "ticking"]

-----------------------------------------------------------------------------
(* Calls *)

(* Mutant of SetupFunctionCall: the frame begins above the parameters. *)
SetupAboveParameters(m, f) ==
  LET fn == Internal(prog, f)
      entry == [Entry("func", fn.type, f, m.sp)
                  EXCEPT !.frame_pointer = m.fp, !.return_addr = m.pc]
  IN [PushBlock(m, entry) EXCEPT !.fp = Wrap(m.sp + 1),
                                 !.sp = Wrap(m.sp + fn.nof_local),
                                 !.pc = fn.start_addr]

(* dwac_setup_function_call; the locals are whatever the stack holds. *)
SetupFunctionCall(m, f) ==
  LET fn == Internal(prog, f)
      t == FuncType(prog, fn.type)
      base == Wrap(m.sp - t.params)
      entry == [Entry("func", fn.type, f, base)
                  EXCEPT !.frame_pointer = m.fp, !.return_addr = m.pc]
  IN
  IF IsImported(prog, f) THEN Give(m, "CAN_NOT_CALL_IMPORTED_HERE")
  ELSE IF LessThan(Signed(m.sp + 1), t.params)
  THEN Raise(m, "INSUFFICIENT_PARAMETERS")
  ELSE [PushBlock(m, entry) EXCEPT !.fp = Wrap(base + 1),
                                   !.sp = Wrap(m.sp + fn.nof_local),
                                   !.pc = fn.start_addr]

(* call_imported_function.  A host function pops its parameters and pushes *)
(* its results, or sets the exception, or leaves the stack unbalanced; fp  *)
(* is only restored after the first.  The height that is expected is a sum *)
(* of more than 16 bits, which sp never is when the results wrap around.   *)
CallImportedFunction(m, f) ==
  LET t == FuncType(prog, Imported(prog, f).type)
      base == Wrap(m.sp - t.params)
      inside == [m EXCEPT !.fp = Wrap(base + 1)]
      results == {Wrap(base + i) : i \in 1..t.results}
  IN
  IF LessThan(Signed(m.sp + 1), t.params)
  THEN Raise(m, "INSUFFICIENT_PARAMETERS")
  ELSE CASE Imported(prog, f).does = "return"
              /\ base + t.results < Capacity ->
              [m EXCEPT !.sp = Wrap(base + t.results),
                        !.stack = [s \in Slot |-> IF s \in results THEN 1
                                                  ELSE m.stack[s]]]
         [] Imported(prog, f).does = "raise" ->
              Raise(inside, "EXCEPTION_FROM_IMPORTED_FUNCTION")
         [] OTHER -> Raise(inside, "EXTERNAL_STACK_MISMATCH")

CallFunction(m, f) ==
  IF IsImported(prog, f) THEN CallImportedFunction(m, f)
  ELSE SetupFunctionCall(m, f)

-----------------------------------------------------------------------------
(* Instructions: the machine as the handler of the opcode at m.pc leaves it *)

Next1(m) == [m EXCEPT !.pc = @ + 1]

OpenBlock(m, imm) ==
  LET m1 == PushBlock(Next1(m),
              Entry("block", imm, FindBrAddr(prog, m.pc + 1), m.sp))
  IN IF ~HasType(prog, imm) THEN Give(m1, "VALUE_TYPE") ELSE Leave(m1, {"pc"})

OpenLoop(m, imm) ==
  LET m1 == PushBlock(Next1(m), Entry("loop", imm, m.pc + 1, m.sp))
  IN IF ~HasType(prog, imm) THEN Give(m1, "VALUE_TYPE") ELSE Leave(m1, {"pc"})

(* stack_pointer is taken before the condition is popped. *)
OpenIf(m, imm) ==
  LET first == FindElseOrEnd(prog, m.pc + 1)
      hasElse == Op(prog, first) = "else"
      endAddr == IF hasElse THEN FindElseOrEnd(prog, first + 1) ELSE first
      entry == [Entry("if", imm, endAddr, m.sp)
                  EXCEPT !.else_addr = IF hasElse THEN first ELSE 0]
      m1 == Pop(PushBlock(Next1(m), entry))
      m2 == IF Top(m) # 0 THEN m1
            ELSE IF hasElse THEN Goto(m1, first + 1)
            ELSE Goto(PopBlocks(m1, 1), endAddr + 1)
  IN IF m1.result = "ABORT" THEN m1
     ELSE IF ~HasType(prog, imm) THEN Give(m2, "VALUE_TYPE")
     ELSE Leave(m2, {"pc"})

(* Mutant: the end of the first part of an "if" runs into the second. *)
ElseFallsThrough(m) == Leave(m, {"pc"})

Else(m) == Leave(Goto(m, Block(m).addr), {"pc"})

(* The results stay on top, everything between them and the stack pointer *)
(* of the block is dropped.  They are moved one by one, topmost first.    *)
MoveResult(b, n, sp, stack, i) ==
  [stack EXCEPT ![Wrap(b.stack_pointer + n - i)] = stack[Wrap(sp - i)]]

(* Mutant: nothing is dropped. *)
KeepAll(m, b, n) == m

KeepResults(m, b, n) ==
  LET moved[i \in 0..n] ==
        IF i = 0 THEN m.stack ELSE MoveResult(b, n, m.sp, moved[i - 1], i - 1)
  IN [m EXCEPT !.stack = moved[n], !.sp = Wrap(b.stack_pointer + n)]

End(m) ==
  LET b == Block(m)
      n == FuncType(prog, b.type).results
      m1 == PopBlocks(Next1(m), 1)
      m2 == KeepResults(m1, b, n)
      m3 == [m2 EXCEPT !.fp = b.frame_pointer, !.pc = b.return_addr]
  IN
  IF LessThan(Signed(Signed(m.sp) - Signed(b.stack_pointer)), n)
  THEN Raise(m1, "MISSING_RETURN_VALUES")
  ELSE IF b.kind # "func" THEN Leave(m2, {"stack", "pc"})
  ELSE IF m3.blocks = <<>> THEN Give(m3, "OK")
  ELSE Leave(m3, {"stack", "pc"})

(* Leave l blocks and go to what the next one says. *)
Branch1(m, l) == LET m1 == PopBlocks(m, l) IN Goto(m1, Block(m1).addr)

Br(m, l) ==
  IF l >= Len(m.blocks) THEN Raise(Next1(m), "BLOCK_STACK_UNDER_RUN")
  ELSE Leave(Branch1(m, l), {"stack", "pc"})

BrIf(m, l) ==
  LET m1 == Next1(Pop(m)) IN
  IF l >= Len(m.blocks) THEN Raise(m1, "BLOCK_STACK_UNDER_RUN")
  ELSE Leave(IF Top(m) # 0 THEN Branch1(m1, l) ELSE m1, {"stack", "pc"})

(* The last label is the default.  The array the labels are read into is   *)
(* not freed when the label is refused: what that does to the end of the   *)
(* program is in Environment (bad_branch).                                 *)
BrTable(m, labels) ==
  LET m1 == Next1(Pop(m))
      i == Top(m)
      l == IF i < Len(labels) - 1 THEN labels[i + 1] ELSE Last(labels)
  IN IF l >= Len(m.blocks) THEN Raise(m1, "BLOCKSTACK_UNDERFLOW")
     ELSE Leave(Branch1(m1, l), {"pc"})

(* Unwind to the entry of the function and go to its last "end". *)
ReturnOp(m) ==
  LET n == CHOOSE i \in 1..Len(m.blocks) :
             /\ m.blocks[i].kind = "func"
             /\ \A j \in i + 1..Len(m.blocks) : m.blocks[j].kind # "func"
      m1 == PopBlocks(m, Len(m.blocks) - n)
  IN Leave(Goto(m1, Internal(prog, Block(m1).addr).end_addr), {"stack", "pc"})

CallOp(m, f) == Leave(CallFunction(Next1(m), f), {"stack", "pc"})

(* Any failure to set up an internal function is reported as the same one. *)
CallIndirect(m, type) ==
  LET m1 == Next1(Pop(m))
      f == prog.table[Top(m) + 1]
      m2 == CallFunction(m1, f)
  IN
  IF Top(m) >= Len(prog.table) THEN Raise(m1, "OUT_OF_RANGE_IN_TABLE")
  ELSE IF FuncTypeIdx(prog, f) # type THEN Raise(m1, "WRONG_FUNCTION_TYPE")
  ELSE IF FuncType(prog, type).params > m1.sp + 1 - m1.fp
  THEN Raise(m1, "INDIRECT_CALL_INSUFFICIENT_NOF_PARAM")
  ELSE IF ~IsImported(prog, f) /\ Failed(m2) /\ m2.result # "ABORT"
  THEN Give(m2, "INDIRECT_CALL_FAILED")
  ELSE Leave(m2, {"stack", "pc"})

Select(m) ==
  LET m1 == Pop(Pop(m)) IN
  IF Top(m) # 0 THEN m1 ELSE [m1 EXCEPT !.stack[m1.sp] = Below(m, 1)]

(* Mutant: the sum is not cut to the width of its type. *)
AddWide(m) ==
  LET m1 == Pop(m) IN [m1 EXCEPT !.stack[m1.sp] = Top(m1) + Top(m)]

AddOp(m) ==
  LET m1 == Pop(m)
  IN [m1 EXCEPT !.stack[m1.sp] = Add(Top(m1), Top(m))]

LocalGet(m, i) == Push(m, m.stack[Local(m, i)])
LocalTee(m, i) == [m EXCEPT !.stack[Local(m, i)] = Top(m)]
LocalSet(m, i) == [Pop(m) EXCEPT !.stack[Local(m, i)] = Top(m)]

-----------------------------------------------------------------------------
(* dwac_tick: one action per handler *)

At(op) == Ticking(d) /\ Op(prog, d.pc) = op
Imm0 == Imm(prog, d.pc)
Becomes(m) == d' = m /\ UNCHANGED <<prog, call, calls>>

Unreachable == At("unreachable") /\ Becomes(Raise(Next1(d), "OP_CODE_ZERO"))
Nop == At("nop") /\ Becomes(Leave(Next1(d), {}))
BlockStep == At("block") /\ Becomes(OpenBlock(d, Imm0))
LoopStep == At("loop") /\ Becomes(OpenLoop(d, Imm0))
IfStep == At("if") /\ Becomes(OpenIf(d, Imm0))
ElseStep == At("else") /\ Becomes(Else(Next1(d)))
EndStep == At("end") /\ Becomes(End(d))
BrStep == At("br") /\ Becomes(Br(d, Imm0))
BrIfStep == At("br_if") /\ Becomes(BrIf(d, Imm0))
BrTableStep == At("br_table") /\ Becomes(BrTable(d, Imm0))
ReturnStep == At("return") /\ Becomes(ReturnOp(d))
CallStep == At("call") /\ Becomes(CallOp(d, Imm0))
CallIndirectStep == At("call_indirect") /\ Becomes(CallIndirect(d, Imm0))

(* Instructions that are not metered *)
DropStep == At("drop") /\ Becomes(Next1(Pop(d)))
SelectStep == At("select") /\ Becomes(Next1(Select(d)))
LocalGetStep == At("local.get") /\ Becomes(Next1(LocalGet(d, Imm0)))
LocalSetStep == At("local.set") /\ Becomes(Next1(LocalSet(d, Imm0)))
LocalTeeStep == At("local.tee") /\ Becomes(Next1(LocalTee(d, Imm0)))
ConstStep == At("const") /\ Becomes(Next1(Push(d, Imm0)))
AddStep == At("add") /\ Becomes(Next1(AddOp(d)))

Step ==
  \/ Unreachable \/ Nop \/ BlockStep \/ LoopStep \/ IfStep \/ ElseStep
  \/ EndStep \/ BrStep \/ BrIfStep \/ BrTableStep \/ ReturnStep
  \/ CallStep \/ CallIndirectStep
  \/ DropStep \/ SelectStep \/ LocalGetStep \/ LocalSetStep \/ LocalTeeStep
  \/ ConstStep \/ AddStep

-----------------------------------------------------------------------------
(* The host *)

PushAll(m, args) ==
  LET pushed[i \in 0..Len(args)] ==
        IF i = 0 THEN m ELSE Push(pushed[i - 1], args[i])
  IN pushed[Len(args)]

(* Arguments are pushed, then dwac_call_exported_function. *)
Call(f, args) ==
  /\ d.result = "idle"
  /\ calls < MaxCalls
  /\ \E budget \in Budgets :
       LET m == SetupFunctionCall(PushAll(d, args), f)
       IN d' = IF Failed(m) THEN m ELSE EnterTick(m, budget)
  /\ call' = [func |-> f, args |-> args, sp |-> d.sp, fp |-> d.fp]
  /\ calls' = calls + 1
  /\ UNCHANGED prog

(* "Guest has more work to do. Let it continue some more." *)
Resume ==
  /\ d.result = "NEED_MORE_GAS"
  /\ \E budget \in Budgets : Becomes(EnterTick(d, budget))

Results(m) == FuncType(prog, FuncTypeIdx(prog, call.func)).results

(* The host pops what the call returned. *)
TakeResults ==
  /\ d.result = "OK"
  /\ Becomes([d EXCEPT !.sp = Wrap(@ - Results(d)), !.result = "idle"])

(* Mutant of Recover: the exception of the failed call is kept. *)
RecoverStale ==
  /\ Failed(d)
  /\ d.result # "ABORT"
  /\ Becomes([d EXCEPT !.blocks = <<>>, !.result = "idle"])

(* check_exception after a failure: the block stack is popped while it is  *)
(* logged, the exception is cleared, the operand stack is left as it is.   *)
Recover ==
  /\ Failed(d)
  /\ d.result # "ABORT"
  /\ Becomes([d EXCEPT !.blocks = <<>>, !.exception = FALSE,
                       !.result = "idle"])

Host ==
  \/ LET f == prog.exported IN
       \E args \in [1..FuncType(prog, FuncTypeIdx(prog, f)).params -> Value] :
         Call(f, args)
  \/ Resume
  \/ TakeResults
  \/ Recover

Init ==
  /\ prog \in Programs
  /\ d = [pc |-> 0, sp |-> SpInitial, fp |-> 0,
          stack |-> [s \in Slot |-> IF s = Sentinel THEN Magic ELSE 0],
          blocks |-> <<>>, gas |-> 0, exception |-> FALSE,
          result |-> "idle"]
  /\ call = [func |-> 0, args |-> <<>>, sp |-> SpInitial, fp |-> 0]
  /\ calls = 0

Next == Step \/ Host

Spec == Init /\ [][Next]_vars /\ WF_vars(Step)

-----------------------------------------------------------------------------
(* Properties *)

Results0 == {"idle", "ticking", "OK", "NEED_MORE_GAS", "ABORT",
             "STACK_OVERFLOW", "PC_ADDR", "EXCEPTION", "OP_CODE_ZERO",
             "CAN_NOT_CALL_IMPORTED_HERE", "INSUFFICIENT_PARAMETERS",
             "EXCEPTION_FROM_IMPORTED_FUNCTION", "EXTERNAL_STACK_MISMATCH",
             "VALUE_TYPE", "MISSING_RETURN_VALUES", "BLOCK_STACK_UNDER_RUN",
             "BLOCKSTACK_UNDERFLOW", "OUT_OF_RANGE_IN_TABLE",
             "WRONG_FUNCTION_TYPE", "INDIRECT_CALL_INSUFFICIENT_NOF_PARAM",
             "INDIRECT_CALL_FAILED"}

Kinds == {"func", "block", "loop", "if"}

(* Every register keeps the width of its C type, the stack holds values of *)
(* the guest and the sentinel, and gas_meter is only negative or zero when *)
(* dwac_tick has returned.                                                 *)
TypeOK ==
  /\ d.pc \in 0..Nof(prog) /\ d.sp \in Slot /\ d.fp \in Slot
  /\ d.stack \in [Slot -> Value \cup {Magic}]
  /\ Len(d.blocks) <= MaxBlocks
  /\ \A i \in 1..Len(d.blocks) :
       /\ d.blocks[i].kind \in Kinds
       /\ d.blocks[i].stack_pointer \in Slot
       /\ d.blocks[i].addr \in 0..Nof(prog)
  /\ d.gas \in Nat /\ (Ticking(d) => d.gas > 0)
  /\ d.exception \in BOOLEAN
  /\ d.result \in Results0
  /\ calls \in 0..MaxCalls

Expected == Outcome(prog, call.func, call.args)

(* A call that dwac_tick reports as DWAC_OK did, however often it ran out  *)
(* of gas on the way, what the WebAssembly specification says: it ended,   *)
(* and its results are on top of the operand stack.                        *)
ResultsAgree ==
  d.result = "OK" =>
    /\ Expected.status = "done"
    /\ Expected.vals =
         [i \in 1..Results(d) |-> d.stack[Wrap(d.sp - Results(d) + i)]]

(* dwac_tick reports a failure only for a call that traps, or for lack of  *)
(* room: a valid program never meets an error of the interpreter's own.    *)
FailuresDue ==
  Failed(d) /\ d.result \notin {"STACK_OVERFLOW", "ABORT"} =>
    Expected.status = "trap"

(* When a call ends the block stack is empty, the frame pointer is that of *)
(* the caller, and the operand stack has changed by the parameters and the *)
(* results only: the host can call again.                                  *)
Balanced ==
  d.result = "OK" =>
    /\ d.blocks = <<>>
    /\ d.fp = call.fp
    /\ d.sp = Wrap(call.sp + Results(d))

(* The frame of a function lies above the frames of its callers. *)
FramesNested ==
  \A i, j \in 1..Len(d.blocks) :
    i < j /\ d.blocks[i].kind = "func" /\ d.blocks[j].kind = "func" =>
      Wrap(d.blocks[i].stack_pointer + 1) < Wrap(d.blocks[j].stack_pointer + 1)

(* "This way we can get some indication if a stack overflow happens": when *)
(* the operand stack has wrapped around, the value at its far end is gone. *)
OverflowIndicated == ~Overflown(d) => FramesNested

(* Every tick returns: there is no way through the code, endless loops and *)
(* recursion included, that does not use gas.                              *)
TickReturns == Ticking(d) ~> ~Ticking(d)
=============================================================================
