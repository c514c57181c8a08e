---------------------------- MODULE Environment ----------------------------
(***************************************************************************)
(* drekkar_wa_env.c as main.c drives it: dwae_init, dwae_tick (data        *)
(* sections, arguments, the call of __errno_location, of __wasm_call_ctors *)
(* and of the main function) and dwae_deinit.  What the interpreter does   *)
(* inside a tick is the subject of Interpreter; here a guest function is   *)
(* an amount of work and the way it ends, and a tick is one sequence of    *)
(* its steps that returns when the block stack is empty, when gas runs     *)
(* out, or on an error.  Between the calls the operand stack is the        *)
(* environment's: it pushes arguments and pops results, and nothing is     *)
(* restored when a call fails.                                             *)
(***************************************************************************)
EXTENDS Integers, Sequences

CONSTANTS
  Gas,       \* DWAC_GAS, in steps
  MaxWork,   \* steps the longest guest function takes
  Locals,    \* locals of a guest function: in the code at least ten
  MainTypes, \* types the main function may have
  Files,     \* kinds of files the host may be given
  Guests     \* what the functions of the guest may do, see Function

(* Main takes argc and argv or, as _start, nothing. *)
MainType == [parameters : {0, 2}, results : {0, 1}]

ASSUME ConstantsAssumption ==
  /\ Gas \in Nat \ {0} /\ MaxWork \in Nat /\ Locals \in Nat
  /\ MainTypes \subseteq MainType

(* What becomes of a file: it cannot be opened; the program is refused     *)
(* with its exports read, or for its number of functions, before anything  *)
(* is exported; the data sections are refused; or all is well.  That the   *)
(* offset expression of a data segment fails is not looked at: the         *)
(* sentinel of the operand stack is popped for the offset, and the segment *)
(* refused for it; in a memory above 1.9 GB it is not ("far_offset").      *)
FileKinds == {"missing", "bad_program", "too_many", "bad_data", "bad_offset",
              "far_offset", "good"}

Names == {"start", "errno", "ctors", "main"}

(* A guest function: absent, or so much work, then one of these.  "hog"    *)
(* returns with more memory in use than MAX_MEM_QUOTA, "bad_branch" is a   *)
(* br_table to a label there is not, and the work of an "endless" function *)
(* never gets less.                                                        *)
Endings == {"return", "trap", "bad_branch", "exit", "hog", "endless"}
Absent == [work |-> 0, ends |-> "absent"]
Function == {Absent} \cup [work : 0..MaxWork, ends : Endings]

ASSUME InputsAssumption ==
  Files \subseteq FileKinds /\ Guests \subseteq [Names -> Function]

VARIABLES
  file, guest, mainType,  \* the inputs, never changed
  stage,        \* where the host is
  result,       \* what dwac_tick returned, "ticking" in it, "none" outside
  out,          \* what dwae_init, then dwae_tick, returned
  blocks,       \* block stack: [fn, left, height] of the calls under way
  sp,           \* operands on the operand stack; -1 is one less than none
  operands,     \* what has been written to it, by position from 1
  location,     \* errno_location: whose result it is
  gas,
  exception,    \* d->exception: "" , "text" or "exit"
  memory,       \* whether total memory usage exceeds the quota
  ran,          \* guest functions that have returned, in that order
  heap          \* what the wrapped malloc has given and not got back

inputs == <<file, guest, mainType>>
stack == <<sp, operands, location>>
vars == <<file, guest, mainType, stage, result, out, blocks, stack, gas,
          exception, memory, ran, heap>>

Exists(fn) == guest[fn] # Absent

(* At last the process has ended, dwac_st_deinit has found something still *)
(* allocated, or dwac_prog_deinit a function that is not one.              *)
Ended == {"end", "leaked", "crashed"}
Stages == {"init", "parse", "data", "errno", "ctors", "main", "deinit"}
            \cup Ended
After == [errno |-> "ctors", ctors |-> "main", main |-> "deinit"]

Success == {"OK", "EXIT", "NEED_MORE_GAS"}

(* Parameters and results of a guest function. *)
NofParameters(fn) == IF fn = "main" THEN mainType.parameters ELSE 0
NofResults(fn) ==
  CASE fn = "main" -> mainType.results [] fn = "errno" -> 1 [] OTHER -> 0

(* The value at a position: position 0 is, at 16 bits, the last of the     *)
(* stack, where dwac_data_init has put a sentinel.                         *)
At(i) == IF i \in DOMAIN operands THEN operands[i] ELSE "none"
SentinelLost == 0 \in DOMAIN operands

-----------------------------------------------------------------------------
(* check_exception, applied to what a core function returned.  Any error   *)
(* but the exit of the guest is printed, wiped out and reported as OK;     *)
(* DWAC_NEED_MORE_GAS is reported as OK.                                   *)

Exits(r) == r = "FROM_IMPORTED" /\ exception = "exit"
Unhandled(r) == r \in Success /\ exception # ""
OverQuota(r) == r \in Success /\ exception = "" /\ memory

(* Mutant: the exit of the guest is like any other error. *)
CheckedWithoutExit(r) ==
  IF Unhandled(r) THEN "EXCEPTION"
  ELSE IF OverQuota(r) THEN "MAX_MEM_QUOTA_EXCEEDED" ELSE "OK"

Checked(r) ==
  IF Exits(r) THEN "EXIT"
  ELSE IF Unhandled(r) THEN "EXCEPTION"
  ELSE IF OverQuota(r) THEN "MAX_MEM_QUOTA_EXCEEDED"
  ELSE "OK"

CheckException(r) ==
  /\ exception' = IF Exits(r) \/ Unhandled(r) THEN exception ELSE ""
  /\ blocks' = IF (r \notin Success /\ ~Exits(r)) \/ Unhandled(r)
                    \/ OverQuota(r)
               THEN <<>> ELSE blocks

-----------------------------------------------------------------------------
(* What is allocated where, and what dwac_data_deinit and dwac_prog_deinit *)
(* free.  A name that never was allocated is a NULL to them.               *)

DataBlocks == {"globals", "memory", "arguments", "block_stack"}
ProgramBlocks == {"available_functions", "function_types", "functions_array",
                  "exported_functions", "func_table"}
HostBlocks == {"bytes", "p", "d"}
Blocks == DataBlocks \cup ProgramBlocks \cup HostBlocks \cup {"br_table"}

-----------------------------------------------------------------------------
(* dwae_init *)

LoadFile ==
  /\ stage = "init"
  /\ IF file = "missing"
     THEN stage' = "end" /\ out' = "FILE_NOT_FOUND"
     ELSE stage' = "parse" /\ UNCHANGED out
  /\ heap' = {"p", "d"} \cup IF file = "missing" THEN {}
                            ELSE {"bytes", "available_functions",
                                  "exported_functions"}
  /\ UNCHANGED <<inputs, result, blocks, stack, gas, exception, memory, ran>>

(* dwac_parse_prog_sections and its wrapper.  A result of the wrapper that *)
(* is not OK would end dwae_init.  A program with too many functions is    *)
(* refused when total_nof is set and before the array is made that large.  *)
ParseProgram ==
  /\ stage = "parse"
  /\ LET r == CASE file = "bad_program" -> "NOT_WEBASM"
               [] file = "too_many"    -> "TO_MANY_FUNCTIONS"
               [] OTHER                -> "OK" IN
       /\ out' = Checked(r)
       /\ stage' = IF out' = "OK" THEN "data" ELSE "deinit"
       /\ CheckException(r)
  /\ heap' = heap \cup {"function_types"}
               \cup IF file = "too_many" THEN {}
                    ELSE {"functions_array", "func_table"}
  /\ UNCHANGED <<inputs, result, stack, gas, memory, ran>>

(* dwac_parse_data_sections and its wrapper.  When these sections are      *)
(* good, those of the program or not, the start function is set up: pushed *)
(* on the block stack, not run.  Then set_command_line_arguments pushes    *)
(* argc and argv, whatever main takes.                                     *)
StartCall == [fn |-> "start", left |-> guest["start"].work, height |-> 0]
SetUp == file \in {"good", "bad_program"} /\ Exists("start")
Arguments(base) ==
  [i \in {base + 1, base + 2} |-> IF i = base + 1 THEN "argc" ELSE "argv"]
ParseData ==
  /\ stage = "data"
  /\ IF file = "far_offset"
     THEN /\ out' = "EXCEPTION" /\ stage' = "deinit"
          /\ exception' = "text" /\ blocks' = <<>>
          /\ UNCHANGED stack
     ELSE LET base == IF file = "bad_offset" THEN -1
                      ELSE IF SetUp THEN Locals ELSE 0
          IN /\ stage' = "errno"
             /\ blocks' = IF SetUp THEN <<StartCall>> ELSE <<>>
             /\ sp' = base + 2
             /\ operands' = Arguments(base)
             /\ UNCHANGED <<out, exception, location>>
  /\ heap' = heap \cup {"globals", "memory"}
               \cup (IF SetUp THEN {"block_stack"} ELSE {})
               \cup (IF file = "far_offset" THEN {} ELSE {"arguments"})
  /\ UNCHANGED <<inputs, result, gas, memory, ran>>

-----------------------------------------------------------------------------
(* find_and_call *)

(* dwac_call_exported_function: unless there are too few operands for its  *)
(* parameters the call goes on top of the block stack, whatever is there   *)
(* already, and the first tick begins.  An operand stack below the empty   *)
(* one has, unsigned, operands enough.                                     *)
Insufficient == 0 <= sp /\ sp < NofParameters(stage)
Call == [fn |-> stage, left |-> guest[stage].work,
         height |-> sp - NofParameters(stage)]
CallGuest ==
  /\ stage \in DOMAIN After
  /\ result = "none"
  /\ Exists(stage)
  /\ IF Insufficient
     THEN /\ result' = "INSUFFICIENT" /\ exception' = "text"
          /\ UNCHANGED <<blocks, sp, heap>>
     ELSE /\ result' = IF SentinelLost THEN "STACK_OVERFLOW"
                       ELSE IF exception = "" THEN "ticking" ELSE "EXCEPTION"
          /\ blocks' = Append(blocks, Call)
          /\ sp' = sp + Locals
          /\ heap' = heap \cup {"block_stack"}
          /\ UNCHANGED exception
  /\ gas' = IF result' = "ticking" THEN Gas ELSE gas
  /\ UNCHANGED <<inputs, stage, out, operands, location, memory, ran>>

(* Mutant of SkipGuest: every missing function is an error. *)
SkipNoGuest ==
  /\ stage \in DOMAIN After
  /\ result = "none"
  /\ ~Exists(stage)
  /\ out' = "FUNCTION_NOT_FOUND" /\ stage' = "deinit"
  /\ UNCHANGED <<inputs, result, blocks, stack, gas, exception, memory, ran,
                 heap>>

(* A module without a main function is an error, the others may be missing *)
SkipGuest ==
  /\ stage \in DOMAIN After
  /\ result = "none"
  /\ ~Exists(stage)
  /\ out' = IF stage = "main" THEN "FUNCTION_NOT_FOUND" ELSE out
  /\ stage' = After[stage]
  /\ UNCHANGED <<inputs, result, blocks, stack, gas, exception, memory, ran,
                 heap>>

-----------------------------------------------------------------------------
(* Inside a tick *)

Running == blocks[Len(blocks)]
BlocksBelow == SubSeq(blocks, 1, Len(blocks) - 1)

(* Mutants of Work: gas runs out one step late; and never. *)
WorkOneMore ==
  /\ result = "ticking" /\ Running.left > 0
  /\ blocks' = IF guest[Running.fn].ends = "endless" THEN blocks
               ELSE Append(BlocksBelow, [Running EXCEPT !.left = @ - 1])
  /\ gas' = IF gas = 0 THEN 0 ELSE gas - 1
  /\ result' = IF gas = 0 THEN "NEED_MORE_GAS" ELSE "ticking"
  /\ UNCHANGED <<inputs, stage, out, stack, exception, memory, ran, heap>>
WorkUnmetered ==
  /\ result = "ticking" /\ Running.left > 0
  /\ blocks' = IF guest[Running.fn].ends = "endless" THEN blocks
               ELSE Append(BlocksBelow, [Running EXCEPT !.left = @ - 1])
  /\ UNCHANGED <<inputs, stage, result, out, stack, gas, exception, memory,
                 ran, heap>>

(* One metered instruction of the function on top of the block stack. *)
Work ==
  /\ result = "ticking"
  /\ Running.left > 0
  /\ blocks' = IF guest[Running.fn].ends = "endless" THEN blocks
               ELSE Append(BlocksBelow, [Running EXCEPT !.left = @ - 1])
  /\ gas' = gas - 1
  /\ result' = IF gas' = 0 THEN "NEED_MORE_GAS" ELSE "ticking"
  /\ UNCHANGED <<inputs, stage, out, stack, exception, memory, ran, heap>>

(* Its last "end": the result takes the place of parameters, locals and    *)
(* all that is above.  The tick is over when nothing is left on the block  *)
(* stack; otherwise it goes on with what is under it.                      *)
ReturnFromGuest ==
  /\ result = "ticking"
  /\ Running.left = 0
  /\ guest[Running.fn].ends \in {"return", "hog"}
  /\ blocks' = BlocksBelow
  /\ sp' = Running.height + NofResults(Running.fn)
  /\ operands' = [i \in DOMAIN operands \cup Running.height + 1..sp' |->
                   IF i = sp' /\ sp' > Running.height THEN Running.fn
                   ELSE operands[i]]
  /\ ran' = Append(ran, Running.fn)
  /\ memory' = (memory \/ guest[Running.fn].ends = "hog")
  /\ IF blocks' = <<>> THEN result' = "OK" /\ UNCHANGED gas
     ELSE /\ gas' = gas - 1
          /\ result' = IF gas' = 0 THEN "NEED_MORE_GAS" ELSE "ticking"
  /\ UNCHANGED <<inputs, stage, out, location, exception, heap>>

(* A trap, or a call of proc_exit.  The table of the labels that br_table  *)
(* reads is not freed when the label is refused.                           *)
FailInGuest ==
  /\ result = "ticking"
  /\ Running.left = 0
  /\ LET ends == guest[Running.fn].ends IN
       /\ ends \in {"trap", "bad_branch", "exit"}
       /\ result' = CASE ends = "trap"       -> "OP_CODE_ZERO"
                      [] ends = "bad_branch" -> "BLOCKSTACK_UNDERFLOW"
                      [] ends = "exit"       -> "FROM_IMPORTED"
       /\ exception' = IF ends = "exit" THEN "exit" ELSE "text"
       /\ heap' = heap \cup IF ends = "bad_branch" THEN {"br_table"} ELSE {}
  /\ UNCHANGED <<inputs, stage, out, blocks, stack, gas, memory, ran>>

-----------------------------------------------------------------------------
(* Mutant of PopResult: the result is looked at and stays. *)
PeekResult ==
  IF stage = "errno"
  THEN location' = At(sp) /\ UNCHANGED <<sp, operands>>
  ELSE UNCHANGED stack

(* call_errno takes what is on top for the result, also after a failure.   *)
PopResult ==
  IF stage = "errno"
  THEN location' = At(sp) /\ sp' = sp - 1 /\ UNCHANGED operands
  ELSE UNCHANGED stack

(* The tick has returned.  Only the loop around main looks for             *)
(* DWAC_NEED_MORE_GAS, in what check_exception made of the result.         *)
CheckGuest ==
  /\ stage \in DOMAIN After
  /\ result \notin {"none", "ticking"}
  /\ LET r == Checked(result)
         again == stage = "main" /\ r = "NEED_MORE_GAS"
     IN /\ out' = IF again THEN out ELSE r
        /\ stage' = IF again THEN stage
                    ELSE IF r = "OK" THEN After[stage] ELSE "deinit"
        /\ result' = IF again THEN "ticking" ELSE "none"
        /\ gas' = IF again THEN Gas ELSE gas
  /\ PopResult
  /\ CheckException(result)
  /\ UNCHANGED <<inputs, memory, ran, heap>>

(* dwae_deinit.  dwac_data_deinit frees what is known of the data; then    *)
(* dwac_prog_deinit looks at every function that total_nof counts.  With   *)
(* too many of them it reads what is beyond the array, or NULL: its        *)
(* assertion may hold or fail, or the host crash.                          *)
WalkFunctions ==
  /\ stage = "deinit"
  /\ file = "too_many"
  /\ heap' = heap \ DataBlocks
  /\ stage' = "crashed"
  /\ UNCHANGED <<inputs, result, out, blocks, stack, gas, exception, memory,
                 ran>>

(* The rest of it: the program is freed, then the bytes, p and d, and      *)
(* dwac_st_deinit asserts that nothing is left allocated.                  *)
Deinit ==
  /\ stage = "deinit"
  /\ heap' = heap \ (DataBlocks \cup ProgramBlocks \cup HostBlocks)
  /\ stage' = IF heap' = {} THEN "end" ELSE "leaked"
  /\ UNCHANGED <<inputs, result, out, blocks, stack, gas, exception, memory,
                 ran>>

Init ==
  /\ file \in Files
  /\ guest \in Guests
  /\ mainType \in MainTypes
  /\ file = "too_many" => \A fn \in Names : ~Exists(fn)
  /\ stage = "init"
  /\ result = "none"
  /\ out = "none"
  /\ blocks = <<>>
  /\ sp = 0 /\ operands = <<>> /\ location = "none"
  /\ gas = 0
  /\ exception = ""
  /\ memory = FALSE
  /\ ran = <<>>
  /\ heap = {}

Next ==
  \/ LoadFile \/ ParseProgram \/ ParseData
  \/ CallGuest \/ SkipGuest \/ CheckGuest
  \/ Work \/ ReturnFromGuest \/ FailInGuest
  \/ WalkFunctions \/ Deinit

Spec == Init /\ [][Next]_vars /\ WF_vars(Next)

-----------------------------------------------------------------------------
(* Properties *)

TypeOK ==
  /\ file \in FileKinds /\ guest \in [Names -> Function]
  /\ mainType \in MainType
  /\ stage \in Stages
  /\ blocks \in Seq([fn : Names, left : 0..MaxWork, height : Int])
  /\ sp \in Int /\ DOMAIN operands \subseteq Int
  /\ gas \in 0..Gas /\ (result = "ticking" => gas > 0 /\ blocks # <<>>)
  /\ exception \in {"", "text", "exit"}
  /\ memory \in BOOLEAN
  /\ ran \in Seq(Names)
  /\ heap \subseteq Blocks

Once(fn) == IF Exists(fn) THEN <<fn>> ELSE <<>>
Quiet ==
  /\ file = "good" /\ ~Exists("start") /\ Exists("main")
  /\ \A fn \in Names : Exists(fn) =>
       guest[fn].ends = "return" /\ guest[fn].work < Gas

(* A guest whose functions all return within one tick is run completely:   *)
(* __errno_location, the constructors, then main, each once and each from  *)
(* an empty block stack; dwae_tick returns DWAC_OK and what the process    *)
(* returns, the top of the operand stack, is the result of main if it has  *)
(* one.                                                                    *)
QuietGuestCompletes ==
  stage \in Ended /\ Quiet =>
    /\ out = "OK"
    /\ ran = Once("errno") \o Once("ctors") \o Once("main")
    /\ blocks = <<>>
    /\ mainType.results = 1 => At(sp) = "main"

(* When __errno_location and the constructors return within their tick and *)
(* there is no start function, main is called with the arguments the       *)
(* environment has pushed, if it takes any, and the address of errno is    *)
(* the result of the function that gives it, however main ends.  Code:     *)
(* call_errno, find_and_call and the operand stack they share with the     *)
(* guest.                                                                  *)
Prepared ==
  /\ file = "good" /\ ~Exists("start")
  /\ \A fn \in {"errno", "ctors"} : Exists(fn) =>
       guest[fn].ends = "return" /\ guest[fn].work < Gas
ArgumentsArrive ==
  Prepared /\ stage = "main" =>
    /\ result = "ticking" =>
         /\ Len(blocks) = 1 /\ Running.fn = "main"
         /\ mainType.parameters = 2 =>
              /\ At(Running.height + 1) = "argc"
              /\ At(Running.height + 2) = "argv"
    /\ location = IF Exists("errno") THEN "errno" ELSE "none"

(* After proc_exit no guest code runs, in any function.                    *)
ExitIsFinal ==
  [][exception = "exit" => blocks' = blocks /\ ran' = ran]_vars

(* A host that calls dwae_init, dwae_tick and dwae_deinit gets its control *)
(* back, also from a guest that never ends, up to what dwae_deinit does.   *)
HostReturns == <>(stage \in Ended)

(* "Guest is done": when dwae_tick returns DWAC_OK the main function has   *)
(* run to its end.                                                         *)
OkMeansDone ==
  stage = "deinit" /\ out = "OK" =>
    \E i \in 1..Len(ran) : ran[i] = "main"
=============================================================================
