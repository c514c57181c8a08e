------------------------- MODULE EnvironmentProofs -------------------------
(***************************************************************************)
(* Theorems about Environment, for every gas limit, every amount of work   *)
(* and every set of files and guests.  Each part of the invariant has a    *)
(* lemma, with one step per action that can disturb it.                    *)
(***************************************************************************)
EXTENDS Environment, SequenceTheorems, TLAPS

Block == [fn : Names, left : 0..MaxWork, height : Int]

(* A core function is only called from the stages of dwae_tick, and while  *)
(* it runs no exit has been requested.                                     *)
Staged ==
  /\ result # "none" => stage \in DOMAIN After
  /\ exception = "exit" =>
       \/ result = "FROM_IMPORTED"
       \/ result = "none" /\ stage \in {"deinit"} \cup Ended

(* What the guest g has run, if nothing disturbs it, when a stage begins.  *)
OnceIn(g, fn) == IF g[fn] # Absent THEN <<fn>> ELSE <<>>
RanBefore(g, s) ==
  IF s = "ctors" THEN OnceIn(g, "errno")
  ELSE IF s = "main" THEN OnceIn(g, "errno") \o OnceIn(g, "ctors")
  ELSE IF s \in {"deinit"} \cup Ended
       THEN OnceIn(g, "errno") \o OnceIn(g, "ctors") \o OnceIn(g, "main")
  ELSE <<>>

(* The operand stack of a quiet guest: empty until the arguments of main   *)
(* are pushed, nothing but those between the calls; a call is under its    *)
(* locals, and leaves its result.                                          *)
Under(s) == 2 - NofParameters(s)
Answered == mainType.results = 1 => At(sp) = "main"
Balance ==
  /\ ~SentinelLost
  /\ stage \in {"init", "parse", "data"} => sp = 0
  /\ stage \in DOMAIN After /\ result = "none" => sp = 2
  /\ result = "OK" =>
       /\ sp = Under(stage) + NofResults(stage)
       /\ stage = "main" => Answered
  /\ stage \in {"deinit"} \cup Ended => Answered

(* A quiet guest: at most one call is under way, it has more gas than      *)
(* work, and every call before it has returned.                            *)
Undisturbed ==
  /\ exception = "" /\ ~memory
  /\ result \in {"none", "ticking", "OK"}
  /\ result # "none" => guest[stage] # Absent
  /\ result = "ticking" =>
       \E k \in 0..MaxWork :
         k < gas /\ blocks = <<[fn |-> stage, left |-> k,
                               height |-> Under(stage)]>>
  /\ result # "ticking" => blocks = <<>>
  /\ ran = RanBefore(guest, IF result = "OK" THEN After[stage] ELSE stage)
  /\ stage \in {"deinit"} \cup Ended => out = "OK"

(* A prepared guest up to the end of main: its calls have found the operand *)
(* stack with nothing on it but the arguments of main, which stay where    *)
(* they are, and the first call has left its result.  How main fares is    *)
(* left open.                                                              *)
Early == stage \notin {"deinit"} \cup Ended
MainDone == stage = "main" /\ result \notin {"none", "ticking"}
ArgumentsThere == At(1) = "argc" /\ At(2) = "argv" /\ ~SentinelLost
InOrder ==
  /\ ~MainDone => exception = "" /\ ~memory
  /\ result \in {"none", "ticking", "OK"} \/ stage = "main"
  /\ result # "none" => guest[stage] # Absent
  /\ result = "ticking" =>
       \E k \in 0..MaxWork :
         /\ blocks = <<[fn |-> stage, left |-> k, height |-> Under(stage)]>>
         /\ stage # "main" => k < gas
  /\ result # "ticking" /\ ~MainDone => blocks = <<>>
  /\ stage \in {"init", "parse", "data"} => sp = 0
  /\ stage \in DOMAIN After /\ result = "none" => sp = 2
  /\ stage # "main" /\ result = "OK" =>
       /\ sp = Under(stage) + NofResults(stage)
       /\ stage = "errno" => At(sp) = "errno"
  /\ stage \in DOMAIN After /\ ~MainDone => ArgumentsThere
  /\ location = IF stage \in {"ctors", "main"} /\ guest["errno"] # Absent
                THEN "errno" ELSE "none"

IInv ==
  /\ TypeOK /\ Staged
  /\ Quiet => Undisturbed /\ Balance
  /\ Prepared /\ Early => InOrder

-----------------------------------------------------------------------------
(* Operators *)

(* What is known of the type of main, which stays as it is. *)
LEMMA MainFacts ==
  ASSUME TypeOK
  PROVE  mainType.parameters \in {0, 2} /\ mainType.results \in {0, 1}
BY DEF TypeOK, MainType

LEMMA MainStays ==
  ASSUME [Next]_vars
  PROVE  mainType' = mainType
BY DEF Next, vars, inputs, LoadFile, ParseProgram, ParseData, CallGuest,
       SkipGuest, Work, ReturnFromGuest, FailInGuest, CheckGuest,
       WalkFunctions, Deinit

(* What is known of any function of the guest. *)
LEMMA GuestFacts ==
  ASSUME TypeOK, NEW fn \in Names
  PROVE  /\ guest[fn].work \in 0..MaxWork
         /\ guest[fn].ends \in Endings \cup {"absent"}
<1>1. guest[fn] \in Function
  BY DEF TypeOK
<1> QED
  BY <1>1, ConstantsAssumption DEF Function, Absent

(* The stages of dwae_tick. *)
LEMMA AfterFacts ==
  /\ DOMAIN After = {"errno", "ctors", "main"}
  /\ After["errno"] = "ctors" /\ After["ctors"] = "main"
  /\ After["main"] = "deinit"
BY DEF After

(* The block stack without its top, and with another top.                  *)
LEMMA BlocksFacts ==
  ASSUME blocks \in Seq(Block), blocks # <<>>
  PROVE  /\ Running \in Block
         /\ BlocksBelow \in Seq(Block)
         /\ \A b \in Block : /\ Append(BlocksBelow, b) \in Seq(Block)
                              /\ Append(BlocksBelow, b) # <<>>
<1>1. Len(blocks) \in Nat /\ Len(blocks) # 0
  BY EmptySeq, LenProperties
<1>2. Running \in Block
  BY <1>1, ElementOfSeq DEF Running
<1>3. BlocksBelow \in Seq(Block)
  BY <1>1, SubSeqProperties DEF BlocksBelow
<1>4. ASSUME NEW b \in Block
      PROVE  /\ Append(BlocksBelow, b) \in Seq(Block)
             /\ Append(BlocksBelow, b) # <<>>
  BY <1>3, AppendProperties
<1> QED
  BY <1>2, <1>3, <1>4

(* A block stack of one call. *)
LEMMA AppendEmpty == ASSUME NEW b PROVE Append(<<>>, b) = <<b>>
OBVIOUS

LEMMA OneBlock ==
  ASSUME NEW b \in Block, blocks = <<b>>
  PROVE  Running = b /\ BlocksBelow = <<>>
BY DEF Running, BlocksBelow

(* No result of a core function leaves check_exception as                  *)
(* DWAC_NEED_MORE_GAS, so the loop around main never repeats.              *)
LEMMA CheckedFacts ==
  ASSUME NEW r
  PROVE  /\ Checked(r) # "NEED_MORE_GAS"
         /\ Exits(r) => Checked(r) # "OK"
BY DEF Checked

(* check_exception keeps or empties the block stack and the exception.     *)
LEMMA CheckExceptionFacts ==
  ASSUME NEW r, CheckException(r)
  PROVE  /\ blocks' \in {blocks, <<>>}
         /\ exception' \in {exception, ""}
         /\ exception' = "exit" => Exits(r) \/ Unhandled(r)
BY DEF CheckException

-----------------------------------------------------------------------------
(* Type correctness *)

LEMMA GasFacts == Gas \in Nat /\ Gas > 0 /\ 0 \in 0..Gas /\ Gas \in 0..Gas
BY ConstantsAssumption

LEMMA InitTypeOK == Init => TypeOK
<1> SUFFICES ASSUME Init PROVE TypeOK
  OBVIOUS
<1>1. /\ file \in FileKinds /\ guest \in [Names -> Function]
      /\ mainType \in MainType
  BY InputsAssumption, ConstantsAssumption DEF Init
<1>2. gas = 0 /\ 0 \in 0..Gas
  BY GasFacts DEF Init
<1>3. /\ blocks \in Seq([fn : Names, left : 0..MaxWork, height : Int])
      /\ ran \in Seq(Names)
  BY EmptySeq DEF Init
<1>4. sp = 0 /\ DOMAIN operands \subseteq Int
  <2>1. operands = <<>> /\ <<>> \in Seq(Int) /\ sp = 0
    BY EmptySeq DEF Init
  <2>2. DOMAIN operands = 1..Len(operands) /\ Len(operands) \in Nat
    BY <2>1, LenProperties
  <2> QED
    BY <2>1, <2>2
<1> QED
  <2>1. /\ stage \in Stages /\ exception \in {"", "text", "exit"}
        /\ memory \in BOOLEAN /\ result # "ticking"
        /\ heap \subseteq Blocks
    BY DEF Init, Stages
  <2>2. gas \in 0..Gas /\ sp \in Int
    BY <1>2, <1>4
  <2> QED
    BY <1>1, <1>2, <1>3, <1>4, <2>1, <2>2 DEF TypeOK

(* What is allocated has one of the names. *)
LEMMA NextBlocks == TypeOK /\ [Next]_vars => heap' \subseteq Blocks
<1> SUFFICES ASSUME TypeOK, [Next]_vars PROVE heap' \subseteq Blocks
  OBVIOUS
<1>1. heap \subseteq Blocks
  BY DEF TypeOK
<1>2. CASE LoadFile
  BY <1>2 DEF LoadFile, Blocks, ProgramBlocks, HostBlocks
<1>3. CASE ParseProgram
  BY <1>1, <1>3 DEF ParseProgram, Blocks, ProgramBlocks
<1>4. CASE ParseData
  BY <1>1, <1>4 DEF ParseData, Blocks, DataBlocks
<1>5. CASE CallGuest
  BY <1>1, <1>5 DEF CallGuest, Blocks, DataBlocks
<1>6. CASE FailInGuest
  BY <1>1, <1>6 DEF FailInGuest, Blocks
<1>7. CASE UNCHANGED heap
  BY <1>1, <1>7
<1>8. CASE WalkFunctions \/ Deinit
  BY <1>1, <1>8 DEF WalkFunctions, Deinit
<1> QED
  BY <1>2, <1>3, <1>4, <1>5, <1>6, <1>7, <1>8
     DEF Next, vars, SkipGuest, CheckGuest, Work, ReturnFromGuest

LEMMA NextTypeOK == TypeOK /\ Staged /\ [Next]_vars => TypeOK'
<1> SUFFICES ASSUME TypeOK, Staged, [Next]_vars PROVE TypeOK'
  OBVIOUS
<1> USE ConstantsAssumption, AfterFacts
<1>h. heap' \subseteq Blocks
  BY NextBlocks
<1>0. /\ blocks \in Seq(Block)
      /\ result = "ticking" => gas \in 1..Gas /\ blocks # <<>>
      /\ gas \in 0..Gas
  <2>1. gas \in 0..Gas /\ (result = "ticking" => gas > 0 /\ blocks # <<>>)
    BY DEF TypeOK
  <2>2. blocks \in Seq(Block)
    BY DEF TypeOK, Block
  <2> QED
    BY <2>1, <2>2, GasFacts
<1>1. CASE LoadFile
  BY <1>1, <1>h DEF LoadFile, TypeOK, Stages, Ended, inputs, stack
<1>2. CASE ParseProgram
  BY <1>2, <1>h, EmptySeq, CheckExceptionFacts
     DEF ParseProgram, CheckException, TypeOK, Stages, inputs, stack, Staged
<1>3. CASE ParseData
  <2>1. StartCall \in Block
    BY GuestFacts DEF StartCall, Block, Names
  <2>2. blocks' \in Seq(Block)
    <3>1. blocks' = <<>> \/ blocks' = <<StartCall>>
      BY <1>3 DEF ParseData
    <3>2. <<StartCall>> \in Seq(Block) /\ <<>> \in Seq(Block)
      BY <2>1, EmptySeq
    <3> QED
      BY <3>1, <3>2
  <2>3. result' # "ticking"
    BY <1>3 DEF ParseData, Staged
  <2>4. sp' \in Int /\ DOMAIN operands' \subseteq Int
    <3>1. CASE file = "far_offset"
      BY <1>3, <3>1 DEF ParseData, stack, TypeOK
    <3>2. CASE file # "far_offset"
      <4>1. PICK base \in Int : sp' = base + 2 /\ operands' = Arguments(base)
        BY <1>3, <3>2 DEF ParseData
      <4>2. DOMAIN operands' = {base + 1, base + 2}
        BY <4>1 DEF Arguments
      <4> QED
        BY <4>1, <4>2
    <3> QED
      BY <3>1, <3>2
  <2> QED
    BY <1>3, <1>h, <2>2, <2>3, <2>4
       DEF ParseData, TypeOK, Stages, inputs, Block
<1>4. CASE CallGuest
  <2>1. stage \in Names /\ Call \in Block
    <3>1. stage \in Names
      BY <1>4 DEF CallGuest, Names
    <3>2. guest[stage].work \in 0..MaxWork
      BY <3>1, GuestFacts
    <3>3. sp - NofParameters(stage) \in Int
      <4>1. sp \in Int
        BY DEF TypeOK
      <4>2. NofParameters(stage) = 0 \/ NofParameters(stage) = 2
        BY MainFacts DEF NofParameters
      <4> QED
        BY <4>1, <4>2
    <3> QED
      BY <3>1, <3>2, <3>3 DEF Call, Block
  <2>2. blocks' \in Seq(Block) /\ (result' = "ticking" => blocks' # <<>>)
    <3>1. CASE Insufficient
      BY <1>0, <1>4, <3>1 DEF CallGuest
    <3>2. CASE ~Insufficient
      <4>1. blocks' = Append(blocks, Call)
        BY <1>4, <3>2 DEF CallGuest
      <4> QED
        BY <1>0, <2>1, <4>1, AppendProperties
    <3> QED
      BY <3>1, <3>2
  <2>3. gas' \in 0..Gas /\ (result' = "ticking" => gas' > 0)
    BY <1>0, <1>4, GasFacts DEF CallGuest
  <2>4. sp' \in Int
    <3>1. sp \in Int
      BY DEF TypeOK
    <3>2. sp' = sp \/ sp' = sp + Locals
      BY <1>4 DEF CallGuest
    <3> QED
      BY <3>1, <3>2
  <2>5. exception' \in {"", "text", "exit"}
    <3>1. exception' = exception \/ exception' = "text"
      BY <1>4 DEF CallGuest
    <3> QED
      BY <3>1 DEF TypeOK
  <2> QED
    BY <1>4, <1>h, <2>2, <2>3, <2>4, <2>5 DEF CallGuest, TypeOK, inputs, Block
<1>5. CASE SkipGuest
  BY <1>5 DEF SkipGuest, TypeOK, inputs, stack, Stages
<1>6. CASE Work
  <2>1. /\ Running \in Block
        /\ \A b \in Block : /\ Append(BlocksBelow, b) \in Seq(Block)
                             /\ Append(BlocksBelow, b) # <<>>
    BY <1>0, <1>6, BlocksFacts DEF Work
  <2>2. [Running EXCEPT !.left = @ - 1] \in Block
    BY <1>6, <2>1 DEF Work, Block
  <2>3. blocks' \in Seq(Block) /\ blocks' # <<>>
    BY <1>0, <1>6, <2>1, <2>2 DEF Work
  <2>4. gas' \in 0..Gas /\ (result' = "ticking" => gas' > 0)
    BY <1>0, <1>6 DEF Work
  <2> QED
    BY <1>6, <2>3, <2>4 DEF Work, TypeOK, inputs, stack, Block
<1>7. CASE ReturnFromGuest
  <2>1. Running \in Block /\ BlocksBelow \in Seq(Block)
    BY <1>0, <1>7, BlocksFacts DEF ReturnFromGuest
  <2>2. blocks' \in Seq(Block) /\ ran' \in Seq(Names)
    BY <1>7, <2>1, AppendProperties DEF ReturnFromGuest, Block, TypeOK
  <2>3. gas' \in 0..Gas
        /\ (result' = "ticking" => gas' > 0 /\ blocks' # <<>>)
    BY <1>0, <1>7 DEF ReturnFromGuest
  <2>4. memory' \in BOOLEAN
    BY <1>7 DEF ReturnFromGuest
  <2>5. sp' \in Int /\ DOMAIN operands' \subseteq Int
    <3>1. Running.height \in Int /\ NofResults(Running.fn) \in Int
      BY <2>1, MainFacts DEF Block, NofResults
    <3>2. sp' = Running.height + NofResults(Running.fn)
      BY <1>7 DEF ReturnFromGuest
    <3>3. DOMAIN operands' = DOMAIN operands \cup Running.height + 1..sp'
      BY <1>7 DEF ReturnFromGuest
    <3>4. DOMAIN operands \subseteq Int
      BY DEF TypeOK
    <3> QED
      BY <3>1, <3>2, <3>3, <3>4
  <2> QED
    BY <1>7, <2>2, <2>3, <2>4, <2>5 DEF ReturnFromGuest, TypeOK, inputs, Block
<1>8. CASE FailInGuest
  BY <1>8, <1>h DEF FailInGuest, TypeOK, inputs, stack
<1>9. CASE CheckGuest
  <2>1. sp' \in Int /\ DOMAIN operands' \subseteq Int
    <3>1. sp \in Int /\ DOMAIN operands \subseteq Int
      BY DEF TypeOK
    <3>2. sp' \in {sp, sp - 1} /\ operands' = operands
      BY <1>9 DEF CheckGuest, PopResult, stack
    <3> QED
      BY <3>1, <3>2
  <2> QED
    BY <1>9, <2>1, CheckedFacts, CheckExceptionFacts, EmptySeq
       DEF CheckGuest, TypeOK, inputs, Stages
<1>10. CASE WalkFunctions \/ Deinit
  BY <1>10, <1>h
     DEF WalkFunctions, Deinit, TypeOK, inputs, stack, Stages, Ended
<1>11. CASE UNCHANGED vars
  BY <1>11 DEF vars, stack, TypeOK
<1> QED
  BY <1>1, <1>2, <1>3, <1>4, <1>5, <1>6, <1>7, <1>8, <1>9, <1>10, <1>11
     DEF Next

-----------------------------------------------------------------------------
(* Stages and exits *)

LEMMA NextStaged == TypeOK /\ Staged /\ [Next]_vars => Staged'
<1> SUFFICES ASSUME TypeOK, Staged, [Next]_vars PROVE Staged'
  OBVIOUS
<1> USE AfterFacts
<1>1. CASE LoadFile
  BY <1>1 DEF LoadFile, Staged, Ended
<1>2. CASE ParseProgram
  BY <1>2, CheckExceptionFacts DEF ParseProgram, Staged, Ended
<1>3. CASE ParseData
  BY <1>3 DEF ParseData, Staged, Ended
<1>4. CASE CallGuest
  BY <1>4 DEF CallGuest, Staged, Ended
<1>5. CASE SkipGuest
  BY <1>5 DEF SkipGuest, Staged, Ended
<1>6. CASE Work
  BY <1>6 DEF Work, Staged
<1>7. CASE ReturnFromGuest
  BY <1>7 DEF ReturnFromGuest, Staged
<1>8. CASE FailInGuest
  BY <1>8 DEF FailInGuest, Staged
<1>9. CASE CheckGuest
  <2>1. result' = "none"
    BY <1>9, CheckedFacts DEF CheckGuest
  <2>2. exception' = "exit" => exception = "exit" /\ Exits(result)
    BY <1>9 DEF CheckGuest, CheckException, Staged, Exits
  <2>3. exception' = "exit" => stage' = "deinit"
    BY <1>9, <2>2, CheckedFacts DEF CheckGuest
  <2> QED
    BY <2>1, <2>3 DEF Staged
<1>10. CASE WalkFunctions \/ Deinit
  BY <1>10 DEF WalkFunctions, Deinit, Staged, Ended
<1>11. CASE UNCHANGED vars
  BY <1>11 DEF vars, Staged
<1> QED
  BY <1>1, <1>2, <1>3, <1>4, <1>5, <1>6, <1>7, <1>8, <1>9, <1>10, <1>11
     DEF Next

-----------------------------------------------------------------------------
(* Quiet guests *)

(* A stage adds its function, if there is one, to what has run.            *)
LEMMA RanFacts ==
  ASSUME NEW g, NEW s \in DOMAIN After
  PROVE  /\ RanBefore(g, s) \in Seq(Names)
         /\ RanBefore(g, After[s]) = IF g[s] = Absent THEN RanBefore(g, s)
                                     ELSE Append(RanBefore(g, s), s)
<1>1. \A fn \in Names : OnceIn(g, fn) \in Seq(Names)
  <2> SUFFICES ASSUME NEW fn \in Names PROVE OnceIn(g, fn) \in Seq(Names)
    OBVIOUS
  <2> QED
    BY EmptySeq DEF OnceIn
<1>2. ASSUME NEW q \in Seq(Names), NEW fn \in Names
      PROVE  q \o OnceIn(g, fn) = IF g[fn] = Absent THEN q ELSE Append(q, fn)
  BY <1>2, AppendIsConcat, ConcatEmptySeq DEF OnceIn
<1>0. s \in Names
  BY AfterFacts DEF Names
<1>3. CASE s = "errno"
  BY <1>3, <1>1, <1>2, AfterFacts DEF RanBefore, OnceIn, Ended
<1>4. CASE s = "ctors"
  <2>1. OnceIn(g, "errno") \in Seq(Names)
    BY <1>1 DEF Names
  <2> QED
    BY <1>0, <1>4, <1>2, <2>1, AfterFacts DEF RanBefore
<1>5. CASE s = "main"
  <2>1. RanBefore(g, s) \in Seq(Names)
    BY <1>5, <1>1, ConcatProperties DEF RanBefore, Names
  <2>2. RanBefore(g, After[s]) = RanBefore(g, s) \o OnceIn(g, s)
    BY <1>5, AfterFacts DEF RanBefore
  <2> QED
    BY <1>0, <2>1, <2>2, <1>2
<1> QED
  BY <1>3, <1>4, <1>5, AfterFacts

(* Nothing has run before the first stage with a function, and nothing     *)
(* runs after the last.                                                    *)
LEMMA RanStart ==
  ASSUME NEW g
  PROVE  /\ \A s \in {"init", "parse", "data", "errno"} :
              RanBefore(g, s) = <<>>
         /\ \A s \in Ended : RanBefore(g, s) = RanBefore(g, "deinit")
BY DEF RanBefore, Ended

LEMMA NextUndisturbed ==
  ASSUME TypeOK, Staged, Quiet, Undisturbed, Balance, [Next]_vars
  PROVE  Undisturbed'
<1> USE ConstantsAssumption, AfterFacts
<1>0. UNCHANGED inputs
  BY DEF Next, vars, inputs, LoadFile, ParseProgram, ParseData, CallGuest,
         SkipGuest, Work, ReturnFromGuest, FailInGuest, CheckGuest,
         WalkFunctions, Deinit
<1>a. guest' = guest /\ file' = file
  BY <1>0 DEF inputs
<1>e. gas \in Nat
  <2>1. gas \in 0..Gas
    BY DEF TypeOK
  <2> QED
    BY <2>1
<1>b. /\ exception = "" /\ ~memory
      /\ file = "good" /\ guest["start"] = Absent /\ guest["main"] # Absent
  BY DEF Undisturbed, Quiet, Exists
<1>c. result # "ticking" => blocks = <<>>
  BY DEF Undisturbed
<1>d. \A fn \in Names : guest[fn] # Absent =>
        /\ guest[fn].ends = "return"
        /\ guest[fn].work \in 0..MaxWork /\ guest[fn].work < Gas
  BY GuestFacts DEF Quiet, Exists
<1>1. CASE LoadFile
  BY <1>1, <1>a, <1>b, RanStart DEF LoadFile, Undisturbed, Staged, Ended
<1>2. CASE ParseProgram
  <2>1. Checked("OK") = "OK"
    BY <1>b DEF Checked, Exits, Unhandled, OverQuota
  <2>2. exception' = "" /\ blocks' = blocks /\ stage' = "data"
    BY <1>2, <1>b, <2>1
       DEF ParseProgram, CheckException, Exits, Unhandled, OverQuota, Success
  <2> QED
    BY <1>2, <2>2, <1>a, <1>b, RanStart DEF ParseProgram, Undisturbed, Staged
<1>3. CASE ParseData
  <2>1. /\ stage' = "errno" /\ blocks' = <<>> /\ result' = "none"
        /\ UNCHANGED <<out, exception, memory, ran>>
    BY <1>3, <1>b DEF ParseData, SetUp, Exists, Staged
  <2>2. ran = <<>>
    BY <1>3, RanStart DEF ParseData, Undisturbed, Staged
  <2> QED
    BY <2>1, <2>2, <1>a, <1>b, RanStart DEF Undisturbed, Ended
<1>4. CASE CallGuest
  <2>1. stage \in Names /\ guest[stage] # Absent
    BY <1>4 DEF CallGuest, Names, Exists
  <2>2. /\ blocks' = <<[fn |-> stage, left |-> guest[stage].work,
                        height |-> Under(stage)]>>
        /\ result' = "ticking" /\ exception' = exception
    <3>1. sp = 2 /\ ~SentinelLost
      BY <1>4 DEF CallGuest, Balance
    <3>2. ~Insufficient
      BY <3>1, MainFacts DEF Insufficient, NofParameters
    <3>3. blocks' = Append(<<>>, Call) /\ result' = "ticking"
          /\ exception' = exception
      BY <1>4, <1>b, <1>c, <3>1, <3>2 DEF CallGuest
    <3> QED
      BY <3>1, <3>3, AppendEmpty DEF Call, Under
  <2> QED
    BY <1>4, <1>a, <1>b, <1>d, <2>1, <2>2, MainStays
    DEF CallGuest, Undisturbed, Under, NofParameters
<1>5. CASE SkipGuest
  <2>1. guest[stage] = Absent /\ stage # "main" /\ stage \in DOMAIN After
    BY <1>5, <1>b DEF SkipGuest, Exists
  <2>2. RanBefore(guest, stage') = RanBefore(guest, stage)
    BY <1>5, <2>1, RanFacts DEF SkipGuest
  <2> QED
    BY <1>5, <1>a, <1>b, <1>c, <2>1, <2>2 DEF SkipGuest, Undisturbed, Ended
<1> DEFINE Now(k) == [fn |-> stage, left |-> k, height |-> Under(stage)]
<1>6. ASSUME result = "ticking"
      PROVE  \E k \in 0..MaxWork :
               /\ k < gas /\ blocks = <<Now(k)>>
               /\ Running = Now(k)
               /\ BlocksBelow = <<>>
  <2>1. PICK k \in 0..MaxWork :
          k < gas /\ blocks = <<Now(k)>>
    BY <1>6 DEF Undisturbed
  <2>2. Now(k) \in Block
    BY <1>6, MainFacts DEF Block, Names, Staged, Under, NofParameters
  <2> QED
    BY <2>1, <2>2, OneBlock
<1>7. result = "ticking" =>
        /\ stage \in Names /\ stage \in DOMAIN After
        /\ guest[stage] # Absent /\ guest[stage].ends = "return"
  BY <1>d DEF Undisturbed, Staged, Names
<1>8. CASE Work
  <2>1. PICK k \in 0..MaxWork :
          k < gas /\ Running = Now(k)
          /\ BlocksBelow = <<>>
    BY <1>6, <1>8 DEF Work
  <2>2. k > 0 /\ k - 1 \in 0..MaxWork /\ k - 1 < gas - 1 /\ gas - 1 # 0
    <3>1. gas \in Nat /\ Running.left > 0
      BY <1>e, <1>8 DEF Work
    <3> QED
      BY <2>1, <3>1
  <2>3. [Running EXCEPT !.left = @ - 1] = Now(k - 1)
    BY <2>1
  <2>4. guest[Running.fn].ends = "return"
    BY <1>7, <1>8, <2>1 DEF Work
  <2>5. blocks' = <<Now(k - 1)>>
    BY <1>8, <2>1, <2>3, <2>4 DEF Work
  <2>6. result' = "ticking" /\ k - 1 < gas'
    BY <1>8, <2>2 DEF Work
  <2> QED
    BY <1>8, <1>a, <2>2, <2>5, <2>6, MainStays
    DEF Work, Undisturbed, Under, NofParameters
<1>9. CASE ReturnFromGuest
  <2>1. PICK k \in 0..MaxWork :
          Running = Now(k) /\ BlocksBelow = <<>>
    BY <1>6, <1>9 DEF ReturnFromGuest
  <2>2. blocks' = <<>> /\ result' = "OK" /\ ran' = Append(ran, stage)
    BY <1>9, <2>1 DEF ReturnFromGuest
  <2>3. ~memory'
    BY <1>7, <1>9, <1>b, <2>1 DEF ReturnFromGuest
  <2>4. ran' = RanBefore(guest, After[stage])
    BY <1>7, <1>9, <2>2, RanFacts DEF ReturnFromGuest, Undisturbed
  <2> QED
    BY <1>7, <1>9, <1>a, <2>2, <2>3, <2>4 DEF ReturnFromGuest, Undisturbed
<1>10. ~FailInGuest
  <2>1. SUFFICES ASSUME result = "ticking"
                 PROVE  guest[Running.fn].ends = "return"
    BY DEF FailInGuest
  <2> QED
    BY <1>6, <1>7, <2>1
<1>11. CASE CheckGuest
  <2>1. result = "OK" /\ Checked(result) = "OK"
    BY <1>11, <1>b
       DEF CheckGuest, Undisturbed, Checked, Exits, Unhandled, OverQuota
  <2>2. stage \in DOMAIN After /\ stage' = After[stage]
        /\ result' = "none" /\ out' = "OK"
    BY <1>11, <2>1 DEF CheckGuest
  <2>3. exception' = "" /\ blocks' = <<>>
    BY <1>11, <1>b, <1>c, <2>1 DEF CheckGuest, CheckException
  <2> QED
    BY <1>11, <1>a, <2>1, <2>2, <2>3 DEF CheckGuest, Undisturbed
<1>12. CASE WalkFunctions \/ Deinit
  <2>1. /\ stage = "deinit" /\ stage' \in Ended
        /\ UNCHANGED <<result, out, blocks, exception, memory, ran>>
    BY <1>12 DEF WalkFunctions, Deinit, Ended
  <2>2. result = "none"
    BY <2>1 DEF Staged
  <2>3. RanBefore(guest, stage') = RanBefore(guest, stage)
    BY <2>1, RanStart
  <2>4. stage' \in {"deinit"} \cup Ended /\ stage \in {"deinit"} \cup Ended
    BY <2>1
  <2> QED
    BY <1>a, <2>1, <2>2, <2>3, <2>4 DEF Undisturbed
<1>13. CASE UNCHANGED vars
  BY <1>13 DEF vars, Undisturbed, Under, NofParameters
<1> QED
  BY <1>1, <1>2, <1>3, <1>4, <1>5, <1>8, <1>9, <1>10, <1>11, <1>12, <1>13
     DEF Next

(* A quiet guest leaves the operand stack as its calls should.             *)
LEMMA NextBalance ==
  ASSUME TypeOK, Staged, Quiet, Undisturbed, Balance, [Next]_vars
  PROVE  Balance'
<1> USE AfterFacts
<1>1. CASE LoadFile
  <2>1. stage' = "parse" /\ UNCHANGED <<result, sp, operands>>
    BY <1>1 DEF LoadFile, Quiet, stack
  <2>2. result = "none" /\ sp = 0
    BY <1>1 DEF LoadFile, Staged, Balance
  <2> QED
    BY <2>1, <2>2 DEF Balance, SentinelLost, Ended
<1>2. CASE ParseProgram
  <2>1. stage' \in {"data", "deinit"} /\ (stage' = "deinit" => out' # "OK")
    BY <1>2 DEF ParseProgram
  <2>2. stage' = "data"
    BY <1>2, <2>1 DEF ParseProgram, Checked, Exits, Unhandled, OverQuota,
                      Undisturbed, Quiet
  <2> QED
    BY <1>2, <2>2 DEF ParseProgram, Balance, Staged, stack, SentinelLost, Ended
<1>3. CASE ParseData
  <2>1. sp' = 2 /\ operands' = Arguments(0) /\ stage' = "errno"
        /\ result' = "none"
    BY <1>3 DEF ParseData, Quiet, SetUp, Staged
  <2>2. 0 \notin DOMAIN operands'
    BY <2>1 DEF Arguments
  <2> QED
    BY <2>1, <2>2 DEF Balance, SentinelLost, Ended
<1>4. CASE CallGuest
  <2>1. result' # "OK" /\ result' # "none"
    BY <1>4 DEF CallGuest
  <2> QED
    BY <1>4, <2>1 DEF CallGuest, Balance, SentinelLost, Ended
<1>5. CASE SkipGuest
  <2>1. stage' \in DOMAIN After /\ stage' = After[stage]
    BY <1>5 DEF SkipGuest, Quiet
  <2> QED
    BY <1>5, <2>1 DEF SkipGuest, Balance, SentinelLost, stack, Ended
<1>6. CASE Work
  <2>1. result' # "OK" /\ result' # "none"
    BY <1>6 DEF Work
  <2> QED
    BY <1>6, <2>1 DEF Work, Balance, SentinelLost, Staged, stack, Ended
<1>7. CASE ReturnFromGuest
  <2>1. PICK k \in 0..MaxWork :
          blocks = <<[fn |-> stage, left |-> k, height |-> Under(stage)]>>
    BY <1>7 DEF ReturnFromGuest, Undisturbed
  <2>2. /\ Under(stage) \in {0, 2} /\ NofResults(stage) \in {0, 1}
        /\ stage = "main" => NofResults(stage) = mainType.results
        /\ stage \in DOMAIN After
    BY <1>7, MainFacts
       DEF ReturnFromGuest, Under, NofParameters, NofResults, Staged
  <2>3. Running.fn = stage /\ Running.height = Under(stage)
        /\ BlocksBelow = <<>>
    BY <2>1, <2>2, OneBlock DEF Block, Names
  <2>4. /\ result' = "OK" /\ stage' = stage
        /\ sp' = Under(stage) + NofResults(stage)
    BY <1>7, <2>3 DEF ReturnFromGuest
  <2>5. /\ DOMAIN operands' = DOMAIN operands \cup Under(stage) + 1..sp'
        /\ \A i \in DOMAIN operands' :
             i = sp' /\ sp' > Under(stage) => operands'[i] = stage
    BY <1>7, <2>3 DEF ReturnFromGuest
  <2>6. 0 \notin DOMAIN operands'
    BY <2>2, <2>4, <2>5 DEF Balance, SentinelLost
  <2>7. stage = "main" /\ mainType.results = 1 =>
          sp' \in DOMAIN operands' /\ operands'[sp'] = "main"
    BY <2>2, <2>4, <2>5
  <2> QED
    BY <2>2, <2>4, <2>6, <2>7, AfterFacts, MainStays
       DEF Balance, Answered, SentinelLost, At, Ended, Under, NofParameters,
           NofResults
<1>8. CASE FailInGuest
  BY <1>8 DEF FailInGuest, Balance, SentinelLost, Staged, stack, Ended
<1>9. CASE CheckGuest
  <2>1. result = "OK" /\ Checked(result) = "OK"
    BY <1>9 DEF CheckGuest, Undisturbed, Checked, Exits, Unhandled, OverQuota
  <2>2. stage \in DOMAIN After /\ stage' = After[stage] /\ result' = "none"
    BY <1>9, <2>1 DEF CheckGuest
  <2>3. operands' = operands
        /\ sp' = IF stage = "errno" THEN sp - 1 ELSE sp
    BY <1>9 DEF CheckGuest, PopResult, stack
  <2>4. sp = Under(stage) + NofResults(stage)
    BY <2>1 DEF Balance
  <2>5. stage = "main" \/ sp' = 2
    BY <2>2, <2>3, <2>4 DEF Under, NofParameters, NofResults
  <2>6. stage = "main" => Answered'
    BY <2>1, <2>3, MainStays DEF Balance, Answered, At
  <2> QED
    BY <2>2, <2>3, <2>5, <2>6 DEF Balance, SentinelLost, Ended
<1>10. CASE WalkFunctions \/ Deinit
  BY <1>10, MainStays
     DEF WalkFunctions, Deinit, Balance, Answered, SentinelLost, At, stack,
         Staged, Ended
<1>11. CASE UNCHANGED vars
  BY <1>11 DEF vars, stack, Balance, Answered, SentinelLost, At, Under,
               NofParameters, NofResults
<1> QED
  BY <1>1, <1>2, <1>3, <1>4, <1>5, <1>6, <1>7, <1>8, <1>9, <1>10, <1>11
     DEF Next

-----------------------------------------------------------------------------
(* Prepared guests *)

LEMMA NextInOrder ==
  ASSUME TypeOK, Staged, Prepared, Early => InOrder, [Next]_vars, Early'
  PROVE  InOrder'
<1> USE AfterFacts
<1>a. guest' = guest /\ file' = file
  BY DEF Next, vars, inputs, LoadFile, ParseProgram, ParseData, CallGuest,
         SkipGuest, Work, ReturnFromGuest, FailInGuest, CheckGuest,
         WalkFunctions, Deinit
<1>b. file = "good" /\ guest["start"] = Absent
  BY DEF Prepared, Exists
<1>c. \A fn \in {"errno", "ctors"} : guest[fn] # Absent =>
        /\ guest[fn].ends = "return"
        /\ guest[fn].work \in 0..MaxWork /\ guest[fn].work < Gas
  BY GuestFacts DEF Prepared, Exists, Names
<1>d. \A fn \in Names : guest[fn].work \in 0..MaxWork
  BY GuestFacts
<1>e. Early
  <2>1. CASE stage \in {"deinit"} \cup Ended
    BY <2>1 DEF Next, vars, Early, Staged, LoadFile, ParseProgram, ParseData,
       CallGuest, SkipGuest, Work, ReturnFromGuest, FailInGuest, CheckGuest,
       WalkFunctions, Deinit, Ended
  <2> QED
    BY <2>1 DEF Early
<1>f. InOrder
  BY <1>e
<1> DEFINE Now(k) == [fn |-> stage, left |-> k, height |-> Under(stage)]
<1>1. CASE LoadFile
  <2>1. stage' = "parse" /\ UNCHANGED <<result, exception, memory, blocks, sp,
                                        operands, location>>
    BY <1>1, <1>b DEF LoadFile, stack
  <2>2. result = "none" /\ stage = "init"
    BY <1>1 DEF LoadFile, Staged, Ended
  <2> QED
    BY <2>1, <2>2, <1>a, <1>f DEF InOrder, MainDone
<1>2. CASE ParseProgram
  <2>1. result = "none" /\ stage = "parse" /\ exception = "" /\ ~memory
    BY <1>2, <1>f DEF ParseProgram, Staged, InOrder, MainDone
  <2>2. Checked("OK") = "OK"
    BY <2>1 DEF Checked, Exits, Unhandled, OverQuota
  <2>3. /\ stage' = "data" /\ exception' = "" /\ blocks' = blocks
        /\ UNCHANGED <<result, memory, sp, operands, location>>
    BY <1>2, <1>b, <2>1, <2>2 DEF ParseProgram, CheckException, Exits,
       Unhandled, OverQuota, Success, stack
  <2> QED
    BY <2>1, <2>3, <1>a, <1>f DEF InOrder, MainDone
<1>3. CASE ParseData
  <2>1. result = "none" /\ stage = "data"
    BY <1>3 DEF ParseData, Staged, Ended
  <2>2. /\ stage' = "errno" /\ blocks' = <<>> /\ sp' = 2
        /\ operands' = Arguments(0)
        /\ UNCHANGED <<result, exception, memory, location>>
    BY <1>3, <1>b DEF ParseData, SetUp, Exists
  <2>3. ArgumentsThere'
    BY <2>2 DEF ArgumentsThere, At, SentinelLost, Arguments
  <2> QED
    BY <2>1, <2>2, <2>3, <1>a, <1>f DEF InOrder, MainDone
<1>4. CASE CallGuest
  <2>1. /\ stage \in Names /\ stage \in DOMAIN After /\ result = "none"
        /\ guest[stage] # Absent
    BY <1>4 DEF CallGuest, Names, Exists
  <2>2. /\ sp = 2 /\ blocks = <<>> /\ exception = "" /\ ~memory
        /\ ArgumentsThere
    BY <2>1, <1>f DEF InOrder, MainDone
  <2>3. ~Insufficient
    <3>1. NofParameters(stage) = 0 \/ NofParameters(stage) = 2
      BY MainFacts DEF NofParameters
    <3>2. sp = 2
      BY <2>2
    <3> QED
      BY <3>1, <3>2 DEF Insufficient
  <2>4. /\ blocks' = Append(<<>>, Call) /\ result' = "ticking" /\ gas' = Gas
        /\ UNCHANGED <<stage, exception, operands, location, memory>>
    BY <1>4, <2>2, <2>3 DEF CallGuest, ArgumentsThere
  <2>5. blocks' = <<Now(guest[stage].work)>>
    BY <2>2, <2>4, AppendEmpty DEF Call, Under
  <2>6. stage # "main" => guest[stage].work < gas'
    BY <1>c, <2>1, <2>4
  <2>7. ArgumentsThere'
    BY <2>2, <2>4 DEF ArgumentsThere, At, SentinelLost
  <2> QED
    BY <1>a, <1>d, <1>f, <2>1, <2>2, <2>4, <2>5, <2>6, <2>7, MainStays
       DEF InOrder, MainDone, Under, NofParameters
<1>5. CASE SkipGuest
  <2>1. /\ stage \in DOMAIN After /\ stage # "main" /\ stage' = After[stage]
        /\ guest[stage] = Absent /\ result = "none"
        /\ UNCHANGED <<result, blocks, exception, memory, sp, operands,
                       location>>
    BY <1>5 DEF SkipGuest, Exists, Early, stack
  <2>2. ArgumentsThere'
    BY <2>1, <1>f DEF InOrder, MainDone, ArgumentsThere, At, SentinelLost
  <2> QED
    BY <1>a, <1>f, <2>1, <2>2 DEF InOrder, MainDone
<1>6. ASSUME result = "ticking"
      PROVE  /\ stage \in Names /\ stage \in DOMAIN After
             /\ guest[stage] # Absent /\ ArgumentsThere /\ exception = ""
             /\ \E k \in 0..MaxWork :
                  /\ Running = Now(k) /\ BlocksBelow = <<>>
                  /\ stage # "main" => k < gas
  <2>1. PICK k \in 0..MaxWork :
          blocks = <<Now(k)>> /\ (stage # "main" => k < gas)
    BY <1>6, <1>f DEF InOrder
  <2>2. stage \in Names /\ stage \in DOMAIN After
    BY <1>6 DEF Staged, Names
  <2>3. Now(k) \in Block
    BY <2>2, MainFacts DEF Block, Under, NofParameters
  <2> QED
    BY <1>6, <1>f, <2>1, <2>2, <2>3, OneBlock DEF InOrder, MainDone
<1>7. CASE Work
  <2>1. PICK k \in 0..MaxWork :
          /\ Running = Now(k) /\ BlocksBelow = <<>>
          /\ stage # "main" => k < gas
    BY <1>6, <1>7 DEF Work
  <2>2. /\ gas \in 0..Gas /\ Gas \in Nat /\ k > 0 /\ gas' = gas - 1
        /\ result' = IF gas' = 0 THEN "NEED_MORE_GAS" ELSE "ticking"
    BY <1>7, <2>1, ConstantsAssumption DEF Work, TypeOK
  <2>3. PICK j \in {k, k - 1} :
          blocks' = <<Now(j)>> /\ (stage # "main" => j = k - 1)
    <3>1. guest[stage].ends = "endless" => stage = "main"
      BY <1>c, <1>6, <1>7 DEF Work
    <3>2. CASE guest[stage].ends = "endless"
      <4>1. blocks' = blocks
        BY <1>7, <2>1, <3>2 DEF Work
      <4>2. PICK j \in 0..MaxWork : blocks = <<Now(j)>>
        BY <1>7, <1>f DEF Work, InOrder
      <4>3. Running = Now(j)
        BY <4>2 DEF Running
      <4>4. blocks' = <<Now(k)>>
        BY <2>1, <4>1, <4>2, <4>3
      <4> QED
        BY <3>1, <3>2, <4>4
    <3>3. CASE guest[stage].ends # "endless"
      BY <1>7, <2>1, <3>3 DEF Work
    <3> QED
      BY <3>2, <3>3
  <2>4. j \in 0..MaxWork /\ (stage # "main" => j < gas' /\ gas' # 0)
    <3>1. j \in 0..MaxWork
      BY <2>2, <2>3, ConstantsAssumption
    <3>2. stage # "main" => j < gas' /\ gas' # 0
      BY <2>1, <2>2, <2>3
    <3> QED
      BY <3>1, <3>2
  <2>5. ArgumentsThere'
    BY <1>6, <1>7 DEF Work, ArgumentsThere, At, SentinelLost, stack
  <2>6. UNCHANGED <<stage, exception, memory, location>>
    BY <1>7 DEF Work, stack
  <2>7. result = "ticking"
    BY <1>7 DEF Work
  <2> QED
    BY <1>6, <1>a, <1>f, <2>2, <2>3, <2>4, <2>5, <2>6, <2>7, MainStays
       DEF InOrder, MainDone, Under, NofParameters
<1>8. CASE ReturnFromGuest
  <2>1. PICK k \in 0..MaxWork : Running = Now(k) /\ BlocksBelow = <<>>
    BY <1>6, <1>8 DEF ReturnFromGuest
  <2>2. /\ Under(stage) \in {0, 2} /\ NofResults(stage) \in {0, 1}
        /\ stage = "errno" => NofResults(stage) = 1
        /\ stage # "main" => Under(stage) = 2
    BY MainFacts DEF Under, NofParameters, NofResults
  <2>3. /\ result' = "OK" /\ blocks' = <<>>
        /\ sp' = Under(stage) + NofResults(stage)
        /\ UNCHANGED <<stage, exception, location>>
    BY <1>8, <2>1 DEF ReturnFromGuest
  <2>4. operands' =
          [i \in DOMAIN operands \cup Under(stage) + 1..sp' |->
             IF i = sp' /\ sp' > Under(stage) THEN stage ELSE operands[i]]
    BY <1>8, <2>1 DEF ReturnFromGuest
  <2>5. stage # "main" => ArgumentsThere'
    <3>1. At(1) = "argc" /\ At(2) = "argv" /\ 0 \notin DOMAIN operands
      BY <1>6, <1>8 DEF ReturnFromGuest, ArgumentsThere, SentinelLost
    <3>2. 1 \in DOMAIN operands /\ 2 \in DOMAIN operands
          /\ operands[1] = "argc" /\ operands[2] = "argv"
      BY <3>1 DEF At
    <3> QED
      BY <2>2, <2>3, <2>4, <3>1, <3>2 DEF ArgumentsThere, At, SentinelLost
  <2>6. stage = "errno" => At(sp)' = "errno"
    BY <2>2, <2>3, <2>4 DEF At
  <2>7. stage # "main" => ~memory'
    BY <1>8, <1>6, <1>c, <1>f, <2>1 DEF ReturnFromGuest, InOrder, MainDone
  <2>8. result = "ticking"
    BY <1>8 DEF ReturnFromGuest
  <2> QED
    BY <1>6, <1>a, <1>f, <2>3, <2>5, <2>6, <2>7, <2>8, MainStays
    DEF InOrder, MainDone, Under, NofParameters, NofResults
<1>9. CASE FailInGuest
  <2>1. stage = "main"
    <3>1. PICK k \in 0..MaxWork : Running = Now(k)
      BY <1>6, <1>9 DEF FailInGuest
    <3>2. guest[stage].ends # "return"
      BY <1>9, <3>1 DEF FailInGuest
    <3> QED
      BY <1>6, <1>9, <1>c, <3>2 DEF FailInGuest
  <2>2. result' # "none" /\ result' # "ticking"
        /\ UNCHANGED <<stage, location>>
    BY <1>9 DEF FailInGuest, stack
  <2>3. result = "ticking"
    BY <1>9 DEF FailInGuest
  <2> QED
    BY <1>6, <1>a, <1>f, <2>1, <2>2, <2>3 DEF InOrder, MainDone
<1>10. CASE CheckGuest
  <2>1. /\ stage \in DOMAIN After /\ result \notin {"none", "ticking"}
        /\ stage # "main"
    BY <1>10, CheckedFacts DEF CheckGuest, Early
  <2>2. result = "OK" /\ exception = "" /\ ~memory /\ blocks = <<>>
    BY <2>1, <1>f DEF InOrder, MainDone
  <2>3. Checked(result) = "OK"
    BY <2>2 DEF Checked, Exits, Unhandled, OverQuota
  <2>4. /\ stage' = After[stage] /\ result' = "none" /\ memory' = memory
        /\ exception' = "" /\ blocks' = <<>> /\ operands' = operands
    BY <1>10, <2>1, <2>2, <2>3 DEF CheckGuest, CheckException, PopResult, stack
  <2>5. /\ sp' = 2
        /\ location' = IF stage = "errno" THEN "errno" ELSE location
    <3>1. sp = Under(stage) + NofResults(stage)
          /\ (stage = "errno" => At(sp) = "errno")
      BY <2>1, <2>2, <1>f DEF InOrder
    <3> QED
      BY <1>10, <2>1, <3>1
         DEF CheckGuest, PopResult, stack, Under, NofParameters, NofResults
  <2>6. ArgumentsThere'
    BY <2>1, <2>2, <2>4, <1>f
       DEF InOrder, MainDone, ArgumentsThere, At, SentinelLost
  <2>7. guest[stage] # Absent
    BY <2>1, <1>f DEF InOrder
  <2> QED
    BY <1>a, <1>f, <2>1, <2>2, <2>4, <2>5, <2>6, <2>7 DEF InOrder, MainDone
<1>11. CASE WalkFunctions \/ Deinit
  BY <1>11, <1>e DEF WalkFunctions, Deinit, Early
<1>12. CASE UNCHANGED vars
  BY <1>12, <1>f DEF vars, stack, InOrder, MainDone, ArgumentsThere, At,
                     SentinelLost, Under, NofParameters, NofResults
<1> QED
  BY <1>1, <1>2, <1>3, <1>4, <1>5, <1>7, <1>8, <1>9, <1>10, <1>11, <1>12
     DEF Next

-----------------------------------------------------------------------------
(* Theorems *)

LEMMA InitIInv == Init => IInv
<1> SUFFICES ASSUME Init PROVE IInv
  OBVIOUS
<1>1. TypeOK
  BY InitTypeOK
<1>2. Staged
  BY DEF Init, Staged
<1>3. Undisturbed
  BY RanStart DEF Init, Undisturbed, Ended
<1>5. InOrder
  BY AfterFacts DEF Init, InOrder, MainDone
<1>4. Balance
  <2>1. operands = <<>> /\ <<>> \in Seq(Int)
    BY EmptySeq DEF Init
  <2>2. DOMAIN operands = 1..Len(operands) /\ Len(operands) \in Nat
    BY <2>1, LenProperties
  <2>3. ~SentinelLost
    BY <2>2 DEF SentinelLost
  <2> QED
    BY <2>3, AfterFacts DEF Init, Balance, Ended
<1> QED
  BY <1>1, <1>2, <1>3, <1>4, <1>5 DEF IInv

LEMMA NextIInv == IInv /\ [Next]_vars => IInv'
<1> SUFFICES ASSUME IInv, [Next]_vars PROVE IInv'
  OBVIOUS
<1>1. TypeOK' /\ Staged'
  BY NextTypeOK, NextStaged DEF IInv
<1>2. Quiet' <=> Quiet
  BY DEF Quiet, Exists, Next, vars, inputs, LoadFile, ParseProgram,
     ParseData, CallGuest, SkipGuest, Work, ReturnFromGuest, FailInGuest,
     CheckGuest, WalkFunctions, Deinit
<1>4. Prepared' <=> Prepared
  BY DEF Prepared, Exists, Next, vars, inputs, LoadFile, ParseProgram,
     ParseData, CallGuest, SkipGuest, Work, ReturnFromGuest, FailInGuest,
     CheckGuest, WalkFunctions, Deinit
<1>5. Prepared /\ Early' => InOrder'
  BY NextInOrder DEF IInv
<1>3. Quiet => Undisturbed' /\ Balance'
  BY NextUndisturbed, NextBalance DEF IInv
<1> QED
  BY <1>1, <1>2, <1>3, <1>4, <1>5 DEF IInv

LEMMA Inductive == Spec => []IInv
BY InitIInv, NextIInv, PTL DEF Spec

(* The variables have their types; in particular dwac_tick never works     *)
(* without gas or on an empty block stack.                                 *)
THEOREM TypeCorrect == Spec => []TypeOK
<1>1. IInv => TypeOK
  BY DEF IInv
<1> QED
  BY <1>1, Inductive, PTL

(* A guest whose functions return within one tick each is run completely   *)
(* and in order: __errno_location, the constructors, main.                 *)
THEOREM QuietGuestsComplete == Spec => []QuietGuestCompletes
<1>1. IInv => QuietGuestCompletes
  <2> SUFFICES ASSUME IInv, stage \in Ended, Quiet
               PROVE  /\ out = "OK" /\ blocks = <<>>
                      /\ mainType.results = 1 => At(sp) = "main"
                      /\ ran = Once("errno") \o Once("ctors") \o Once("main")
    BY DEF QuietGuestCompletes
  <2>1. Undisturbed /\ Balance /\ result = "none"
    BY AfterFacts DEF IInv, Staged, Ended
  <2>2. ran = RanBefore(guest, stage)
    BY <2>1 DEF Undisturbed
  <2>3. \A fn \in Names : OnceIn(guest, fn) = Once(fn)
    BY DEF OnceIn, Once, Exists
  <2>4. ran = Once("errno") \o Once("ctors") \o Once("main")
    BY <2>2, <2>3 DEF RanBefore, Names, Ended
  <2> QED
    BY <2>1, <2>4 DEF Undisturbed, Balance, Answered
<1> QED
  BY <1>1, Inductive, PTL

(* When the calls before it return in time main is called with the         *)
(* arguments, and errno has the address the guest gave for it.             *)
THEOREM ArgumentsAlwaysArrive == Spec => []ArgumentsArrive
<1>1. IInv => ArgumentsArrive
  <2> SUFFICES ASSUME IInv, Prepared, stage = "main"
               PROVE  /\ result = "ticking" =>
                           /\ Len(blocks) = 1 /\ Running.fn = "main"
                           /\ mainType.parameters = 2 =>
                                /\ At(Running.height + 1) = "argc"
                                /\ At(Running.height + 2) = "argv"
                      /\ location = IF Exists("errno") THEN "errno"
                                                       ELSE "none"
    BY DEF ArgumentsArrive
  <2>1. InOrder
    BY DEF IInv, Early, Ended
  <2>2. location = IF Exists("errno") THEN "errno" ELSE "none"
    BY <2>1 DEF InOrder, Exists
  <2>3. ASSUME result = "ticking"
        PROVE  /\ Len(blocks) = 1 /\ Running.fn = "main"
               /\ mainType.parameters = 2 =>
                    /\ At(Running.height + 1) = "argc"
                    /\ At(Running.height + 2) = "argv"
    <3>1. PICK k \in 0..MaxWork :
            blocks = <<[fn |-> stage, left |-> k, height |-> Under(stage)]>>
      BY <2>1, <2>3 DEF InOrder
    <3>2. mainType.parameters = 2 => Under(stage) = 0
      BY DEF Under, NofParameters
    <3>3. /\ Len(blocks) = 1 /\ Running.fn = "main"
          /\ mainType.parameters = 2 => Running.height = 0
      BY <3>1, <3>2 DEF Running
    <3>4. At(1) = "argc" /\ At(2) = "argv"
      BY <2>1, <2>3, AfterFacts DEF InOrder, MainDone, ArgumentsThere
    <3> QED
      BY <3>3, <3>4
  <2> QED
    BY <2>2, <2>3
<1> QED
  BY <1>1, Inductive, PTL

(* Once the guest has called proc_exit none of its functions runs again.   *)
THEOREM ExitsAreFinal == Spec => ExitIsFinal
<1>1. IInv /\ [Next]_vars =>
        [exception = "exit" => blocks' = blocks /\ ran' = ran]_vars
  <2> SUFFICES ASSUME Staged, Next, exception = "exit"
               PROVE  blocks' = blocks /\ ran' = ran
    BY DEF IInv
  <2>1. \/ result = "FROM_IMPORTED" /\ stage \in DOMAIN After
        \/ result = "none" /\ stage \in {"deinit"} \cup Ended
    BY DEF Staged
  <2>2. CASE CheckGuest
    <3>1. result = "FROM_IMPORTED"
      BY <2>1, <2>2 DEF CheckGuest
    <3> QED
      BY <2>2, <3>1 DEF CheckGuest, CheckException, Exits, Unhandled,
         OverQuota, Success
  <2>3. CASE WalkFunctions \/ Deinit
    BY <2>3 DEF WalkFunctions, Deinit
  <2> QED
    BY <2>1, <2>2, <2>3, AfterFacts
       DEF Ended, Next, LoadFile, ParseProgram, ParseData, CallGuest,
           SkipGuest, Work, ReturnFromGuest, FailInGuest
<1> QED
  BY <1>1, Inductive, PTL DEF Spec, ExitIsFinal
=============================================================================
