------------------------- MODULE InterpreterProofs -------------------------
(***************************************************************************)
(* Theorems about Interpreter, for every set of valid programs, every size *)
(* of the operand stack and of the block stack, and every gas limit.  The  *)
(* invariant says of a call what its first entry of the block stack holds; *)
(* first come lemmas about one statement each, then one per handler.       *)
(***************************************************************************)
EXTENDS Interpreter, SequenceTheorems, FiniteSetTheorems, Induction

Word == Value \cup {Magic}
Errors == Results0 \ {"idle", "ticking", "OK", "NEED_MORE_GAS"}

Entries(p) ==
  [kind : Kinds, type : Int, addr : 0..Nof(p), else_addr : 0..Nof(p),
   stack_pointer : Slot, frame_pointer : Slot, return_addr : 0..Nof(p)]

Machines(p) ==
  [pc : 0..Nof(p), sp : Slot, fp : Slot, stack : [Slot -> Word],
   blocks : Seq(Entries(p)), gas : Nat, exception : BOOLEAN,
   result : Results0]

Sized(p, m) == m \in Machines(p) /\ Len(m.blocks) <= MaxBlocks

(* An entry of the block stack while guest code runs *)
Proper(p, b) ==
  /\ HasType(p, b.type)
  /\ b.kind = "func" =>
       b.addr \in NofImported(p)..TotalNof(p) - 1

(* What call c of the host has put below everything else *)
Bottom(p, c, b) ==
  /\ b.kind = "func" /\ b.type = FuncTypeIdx(p, c.func)
  /\ b.stack_pointer = c.sp /\ b.frame_pointer = c.fp

Held(p, c, m) ==
  /\ m.blocks # <<>>
  /\ Bottom(p, c, m.blocks[1])
  /\ \A i \in 1..Len(m.blocks) : Proper(p, m.blocks[i])

(* The machine in the middle of a handler, and when one has failed *)
Inside(p, c, m) ==
  Sized(p, m) /\ Held(p, c, m) /\ m.result = "ticking" /\ m.gas > 0
Broken(p, m) == Sized(p, m) /\ m.result \in Errors

Returned(p, c, m) ==
  /\ m.blocks = <<>> /\ m.fp = c.fp
  /\ m.sp = Wrap(c.sp + FuncType(p, FuncTypeIdx(p, c.func)).results)

(* The machine between two steps *)
Kept(p, c, m) ==
  /\ Sized(p, m)
  /\ m.result = "ticking" => m.pc < Nof(p) /\ m.gas > 0 /\ Held(p, c, m)
  /\ m.result = "NEED_MORE_GAS" => Held(p, c, m)
  /\ m.result = "OK" => Returned(p, c, m)
  /\ m.result = "idle" => m.blocks = <<>>

HostCall(p, c) == c.func \in Functions(p) /\ c.sp \in Slot /\ c.fp \in Slot

IInv ==
  /\ prog \in Programs /\ HostCall(prog, call) /\ Kept(prog, call, d)
  /\ calls \in 0..MaxCalls

-----------------------------------------------------------------------------
(* Arithmetic *)

LEMMA Powers ==
  ASSUME NEW n \in Nat
  PROVE  2^n \in Nat \ {0}
<1>1. IsFiniteSet(1..n) /\ Cardinality(1..n) = n
  BY FS_Interval
<1>2. /\ IsFiniteSet(SUBSET (1..n))
      /\ Cardinality(SUBSET (1..n)) = 2^n
  BY <1>1, FS_SUBSET
<1>3. 2^n \in Nat
  BY <1>2, FS_CardinalityType
<1>4. 2^n # 0
  BY <1>2, FS_EmptySet
<1> QED
  BY <1>3, <1>4

LEMMA Constants ==
  /\ Capacity \in Nat \ {0}
  /\ Magic \in Nat \ {0}
  /\ Value = 0..Magic - 1
  /\ MaxBlocks \in Nat /\ MaxCalls \in Nat
  /\ \A budget \in Budgets : budget \in Nat /\ budget > 0
  /\ Sentinel \in Slot /\ 0 \in Slot
  /\ 0 \in Word /\ 1 \in Word /\ Magic \in Word
<1>1. \A w \in 2..16 : 2^w \in Nat \ {0}
  BY Powers
<1>2. Capacity \in Nat \ {0}
  BY <1>1, ConstantsAssumption
<1>3. 2^Width \in Nat \ {0}
  BY Powers, ConstantsAssumption
<1> QED
  BY <1>2, <1>3, ConstantsAssumption
  DEF Magic, Value, Word, Sentinel, Slot

LEMMA WrapSlot ==
  ASSUME NEW x \in Int
  PROVE  Wrap(x) \in Slot
BY Remainder, Constants DEF Wrap, Slot

LEMMA WrapId ==
  ASSUME NEW x \in Slot
  PROVE  x \in Int /\ Wrap(x) = x
BY Constants DEF Wrap, Slot

LEMMA WrapAdd ==
  ASSUME NEW x \in Int, NEW y \in Int
  PROVE  Wrap(Wrap(x) + y) = Wrap(x + y)
<1> DEFINE n == Capacity
<1>0. n \in Nat \ {0}
  BY Constants
<1> HIDE DEF n
<1>1. PICK q \in Int, r \in Int :
        x = n * q + r /\ 0 <= r /\ r < n /\ x % n = r
  BY <1>0, Remainder
<1>2. r + y \in Int
  OBVIOUS
<1>3. PICK k \in Int, s \in Int :
        r + y = n * k + s /\ 0 <= s /\ s < n /\ (r + y) % n = s
  BY <1>0, <1>2, Remainder
<1>4. x + y = n * (q + k) + s
  <2>1. n * (q + k) = n * q + n * k
    BY <1>0
  <2>2. x = n * q + r /\ r + y = n * k + s
    BY <1>1, <1>3
  <2> QED
    BY <2>1, <2>2, <1>0
<1> DEFINE j == q + k
<1>5. j \in Int /\ x + y = n * j + s
  BY <1>4
<1> HIDE DEF j
<1>6. (n * j + s) % n = s
  BY <1>0, <1>3, <1>5, DivMod
<1> QED
  BY <1>1, <1>3, <1>5, <1>6, Zenon DEF Wrap, n

-----------------------------------------------------------------------------
(* Programs *)

LEMMA ProgramFacts ==
  ASSUME NEW p \in Programs
  PROVE  /\ Nof(p) \in Nat /\ Nof(p) > 0 /\ Nof(p) - 1 \in Addresses(p)
         /\ Op(p, Nof(p) - 1) = "end"
         /\ NofImported(p) \in Nat /\ TotalNof(p) \in Nat
         /\ TotalNof(p) <= Nof(p)
         /\ Len(p.types) \in Nat /\ Len(p.table) \in Nat
         /\ p.exported \in Functions(p)
<1>1. IndicesFit(p) /\ CodeFits(p)
  BY ProgramsAssumption
<1>2. /\ Nof(p) \in Nat /\ NofImported(p) \in Nat /\ Len(p.funcs) \in Nat
      /\ Len(p.types) \in Nat /\ Len(p.table) \in Nat
      /\ TotalNof(p) <= Nof(p) /\ p.exported \in Functions(p)
  BY <1>1 DEF IndicesFit
<1>3. Nof(p) > 0 /\ Op(p, Nof(p) - 1) = "end"
  BY <1>1 DEF CodeFits
<1>4. TotalNof(p) \in Nat
  <2>1. TotalNof(p) = NofImported(p) + Len(p.funcs)
    BY DEF TotalNof, NofImported
  <2> QED
    BY <1>2, <2>1
<1>5. Nof(p) - 1 \in Addresses(p)
  BY <1>2, <1>3 DEF Addresses
<1> QED
  BY <1>2, <1>3, <1>4, <1>5

LEMMA TypeFacts ==
  ASSUME NEW p \in Programs, NEW t, HasType(p, t)
  PROVE  /\ t \in Int
         /\ FuncType(p, t).params \in Nat /\ FuncType(p, t).results \in Nat
<1>1. IndicesFit(p)
  BY ProgramsAssumption
<1>2. CASE t = EmptyType
  BY <1>2 DEF EmptyType, FuncType
<1>3. CASE t # EmptyType
  <2>1. t \in 0..Len(p.types) - 1
    BY <1>3 DEF HasType
  <2>2. Len(p.types) \in Nat
    BY ProgramFacts
  <2>3. t \in Int /\ t + 1 \in 1..Len(p.types)
    BY <2>1, <2>2
  <2> QED
    BY <1>1, <1>3, <2>3 DEF IndicesFit, FuncType
<1> QED
  BY <1>2, <1>3

LEMMA FunctionFacts ==
  ASSUME NEW p \in Programs, NEW f \in Functions(p)
  PROVE  /\ f \in Nat /\ f <= Nof(p)
         /\ HasType(p, FuncTypeIdx(p, f))
         /\ IsImported(p, f) =>
              HasType(p, Imported(p, f).type)
         /\ ~IsImported(p, f) =>
              /\ f \in NofImported(p)..TotalNof(p) - 1
              /\ HasType(p, Internal(p, f).type)
              /\ FuncTypeIdx(p, f) = Internal(p, f).type
              /\ Internal(p, f).nof_local \in Nat
              /\ Internal(p, f).start_addr \in Addresses(p)
              /\ Internal(p, f).end_addr \in Addresses(p)
<1>1. IndicesFit(p)
  BY ProgramsAssumption
<1>2. /\ NofImported(p) \in Nat /\ Len(p.funcs) \in Nat
      /\ TotalNof(p) = NofImported(p) + Len(p.funcs)
      /\ TotalNof(p) <= Nof(p) /\ Nof(p) \in Nat
  BY <1>1 DEF IndicesFit, TotalNof, NofImported
<1>3. f \in Nat /\ f < TotalNof(p)
  BY <1>2 DEF Functions
<1>4. CASE IsImported(p, f)
  <2>1. f + 1 \in 1..NofImported(p)
    BY <1>2, <1>3, <1>4 DEF IsImported
  <2>2. Imported(p, f).type \in TypeIndices(p)
    BY <1>1, <2>1 DEF IndicesFit, Imported
  <2> QED
    BY <1>2, <1>3, <1>4, <2>2 DEF FuncTypeIdx, HasType, TypeIndices
<1>5. CASE ~IsImported(p, f)
  <2> DEFINE i == f - NofImported(p) + 1
  <2>1. i \in 1..Len(p.funcs) /\ f \in NofImported(p)..TotalNof(p) - 1
    BY <1>2, <1>3, <1>5 DEF IsImported
  <2>2. Internal(p, f) = p.funcs[i]
    BY DEF Internal
  <2> HIDE DEF i
  <2>3. /\ p.funcs[i].type \in TypeIndices(p)
        /\ p.funcs[i].nof_local \in Nat
        /\ p.funcs[i].start_addr \in Addresses(p)
        /\ p.funcs[i].end_addr \in Addresses(p)
    BY <1>1, <2>1 DEF IndicesFit
  <2>4. FuncTypeIdx(p, f) = Internal(p, f).type
    BY <1>5 DEF FuncTypeIdx
  <2>5. HasType(p, Internal(p, f).type)
    BY <2>2, <2>3 DEF HasType, TypeIndices
  <2> QED
    BY <1>2, <1>3, <1>5, <2>1, <2>2, <2>3, <2>4, <2>5
<1> QED
  BY <1>4, <1>5

(* The ends of constructs are found. *)
LEMMA FirstFacts ==
  ASSUME NEW S \in SUBSET Nat, S # {}
  PROVE  First(S) \in S
<1>1. \E x \in S : \A y \in S : x <= y
  BY LeastNumber
<1> QED
  BY <1>1 DEF First

LEMMA ClosedFacts ==
  ASSUME NEW p \in Programs, NEW a \in Addresses(p),
         Op(p, a) \in Openers \cup {"else"}
  PROVE  /\ FindBrAddr(p, a + 1) \in Addresses(p)
         /\ FindElseOrEnd(p, a + 1) \in Addresses(p)
<1>1. CodeFits(p) /\ Nof(p) \in Nat
  BY ProgramsAssumption, ProgramFacts
<1>2. a \in Nat /\ a + 1..Nof(p) - 1 \subseteq Addresses(p)
  BY <1>1 DEF Addresses
<1>3. PICK q \in a + 1..Nof(p) - 1 : IsEnd(p, a + 1, q)
  BY <1>1 DEF CodeFits
<1> DEFINE S == {r \in a + 1..Nof(p) - 1 : IsEnd(p, a + 1, r)}
           T == {r \in a + 1..Nof(p) - 1 :
                   IsEnd(p, a + 1, r) \/ IsElse(p, a + 1, r)}
<1>4. S \in SUBSET Nat /\ T \in SUBSET Nat
  BY <1>1, <1>2
<1>5. S # {} /\ T # {}
  BY <1>3
<1>6. First(S) \in S /\ First(T) \in T
  BY <1>4, <1>5, FirstFacts
<1>7. First(S) \in Addresses(p) /\ First(T) \in Addresses(p)
  BY <1>2, <1>6
<1> QED
  BY <1>7 DEF FindBrAddr, FindElseOrEnd

-----------------------------------------------------------------------------
(* The block stack *)

LEMMA Cut ==
  ASSUME NEW S, NEW s \in Seq(S), NEW n \in 0..Len(s)
  PROVE  /\ SubSeq(s, 1, n) \in Seq(S) /\ Len(SubSeq(s, 1, n)) = n
         /\ \A i \in 1..n : SubSeq(s, 1, n)[i] = s[i]
<1>1. Len(s) \in Nat /\ \A i \in 1..Len(s) : s[i] \in S
  BY LenProperties, ElementOfSeq
<1>2. \A i \in 1..n : s[i] \in S
  BY <1>1
<1>3. /\ SubSeq(s, 1, n) \in Seq(S)
      /\ Len(SubSeq(s, 1, n)) = IF 1 <= n THEN n - 1 + 1 ELSE 0
      /\ \A i \in 1..n - 1 + 1 : SubSeq(s, 1, n)[i] = s[1 + i - 1]
  BY <1>1, <1>2, SubSeqProperties
<1> QED
  BY <1>1, <1>3

(* The fields of a machine and of an entry *)
LEMMA MachineFields ==
  ASSUME NEW p \in Programs, NEW m \in Machines(p)
  PROVE  /\ m.pc \in Nat /\ m.pc <= Nof(p) /\ m.sp \in Slot /\ m.fp \in Slot
         /\ m.sp \in Int /\ m.fp \in Int
         /\ m.stack \in [Slot -> Word] /\ m.blocks \in Seq(Entries(p))
         /\ Len(m.blocks) \in Nat /\ m.gas \in Nat
         /\ m.exception \in BOOLEAN /\ m.result \in Results0
         /\ \A i \in 1..Len(m.blocks) : m.blocks[i] \in Entries(p)
         /\ m.blocks # <<>> => Len(m.blocks) >= 1
<1>1. /\ m.pc \in 0..Nof(p) /\ m.sp \in Slot /\ m.fp \in Slot
      /\ m.stack \in [Slot -> Word] /\ m.blocks \in Seq(Entries(p))
      /\ m.gas \in Nat
      /\ m.exception \in BOOLEAN /\ m.result \in Results0
  BY DEF Machines
<1>2. /\ Len(m.blocks) \in Nat
      /\ \A i \in 1..Len(m.blocks) : m.blocks[i] \in Entries(p)
      /\ m.blocks # <<>> => Len(m.blocks) \in Nat \ {0}
  BY <1>1, LenProperties, ElementOfSeq, EmptySeq
<1>3. m.sp \in Int /\ m.fp \in Int
  BY <1>1 DEF Slot
<1> QED
  BY <1>1, <1>2, <1>3, ProgramFacts

LEMMA EntryFields ==
  ASSUME NEW p \in Programs, NEW b \in Entries(p)
  PROVE  /\ b.kind \in Kinds /\ b.type \in Int
         /\ b.addr \in 0..Nof(p) /\ b.else_addr \in 0..Nof(p)
         /\ b.stack_pointer \in Slot /\ b.stack_pointer \in Int
         /\ b.frame_pointer \in Slot /\ b.return_addr \in 0..Nof(p)
BY DEF Entries, Slot

(* What a statement changes of a machine keeps the types. *)
LEMMA PcSized ==
  ASSUME NEW p \in Programs, NEW m, Sized(p, m), NEW a \in 0..Nof(p)
  PROVE  Sized(p, [m EXCEPT !.pc = a])
BY DEF Sized, Machines

LEMMA SpSized ==
  ASSUME NEW p \in Programs, NEW m, Sized(p, m), NEW s \in Slot
  PROVE  Sized(p, [m EXCEPT !.sp = s])
BY DEF Sized, Machines

LEMMA StackSized ==
  ASSUME NEW p \in Programs, NEW m, Sized(p, m), NEW s \in [Slot -> Word]
  PROVE  Sized(p, [m EXCEPT !.stack = s])
BY DEF Sized, Machines

LEMMA BlocksSized ==
  ASSUME NEW p \in Programs, NEW m, Sized(p, m), NEW s \in Seq(Entries(p)),
         Len(s) <= MaxBlocks
  PROVE  Sized(p, [m EXCEPT !.blocks = s])
BY DEF Sized, Machines

LEMMA ResultSized ==
  ASSUME NEW p \in Programs, NEW m, Sized(p, m), NEW r \in Results0
  PROVE  /\ Sized(p, [m EXCEPT !.result = r])
         /\ Sized(p, [m EXCEPT !.result = r, !.exception = TRUE])
BY DEF Sized, Machines

-----------------------------------------------------------------------------
(* Statements inside a handler *)

LEMMA GotoInside ==
  ASSUME NEW p \in Programs, NEW c, NEW m, Inside(p, c, m),
         NEW a \in 0..Nof(p)
  PROVE  /\ Inside(p, c, Goto(m, a)) /\ Goto(m, a).pc = a
         /\ Goto(m, a).blocks = m.blocks
<1>1. Sized(p, Goto(m, a))
  BY PcSized DEF Inside, Goto
<1>2. m \in [pc : 0..Nof(p), sp : Slot, fp : Slot, stack : [Slot -> Word],
   blocks : Seq(Entries(p)), gas : Nat, exception : BOOLEAN,
   result : Results0]
  BY DEF Inside, Sized, Machines
<1>3. /\ Goto(m, a).pc = a /\ Goto(m, a).blocks = m.blocks
      /\ Goto(m, a).result = m.result /\ Goto(m, a).gas = m.gas
  BY <1>2 DEF Goto
<1> QED
  BY <1>1, <1>3 DEF Inside, Held

LEMMA Next1Inside ==
  ASSUME NEW p \in Programs, NEW c, NEW m, Inside(p, c, m), m.pc < Nof(p)
  PROVE  /\ Inside(p, c, Next1(m)) /\ Next1(m).pc = m.pc + 1
         /\ Next1(m).blocks = m.blocks
<1>1. m.pc + 1 \in 0..Nof(p)
  BY MachineFields, ProgramFacts DEF Inside, Sized
<1>2. Next1(m) = Goto(m, m.pc + 1)
  BY DEF Next1, Goto
<1> QED
  BY <1>1, <1>2, GotoInside

LEMMA SpInside ==
  ASSUME NEW p \in Programs, NEW c, NEW m, Inside(p, c, m), NEW s \in Slot
  PROVE  LET k == [m EXCEPT !.sp = s] IN
         Inside(p, c, k) /\ k.pc = m.pc /\ k.blocks = m.blocks
<1> DEFINE k == [m EXCEPT !.sp = s]
<1>1. Sized(p, k)
  BY SpSized DEF Inside
<1>2. m \in Machines(p)
  BY DEF Inside, Sized
<1>3. /\ k.pc = m.pc /\ k.blocks = m.blocks
      /\ k.result = m.result /\ k.gas = m.gas
  BY <1>2 DEF Machines
<1> HIDE DEF k
<1>4. Inside(p, c, k)
  BY <1>1, <1>3 DEF Inside, Held
<1> QED
  BY <1>3, <1>4 DEF k

LEMMA StackInside ==
  ASSUME NEW p \in Programs, NEW c, NEW m, Inside(p, c, m),
         NEW s \in [Slot -> Word]
  PROVE  LET k == [m EXCEPT !.stack = s] IN
         Inside(p, c, k) /\ k.pc = m.pc /\ k.blocks = m.blocks
<1> DEFINE k == [m EXCEPT !.stack = s]
<1>1. Sized(p, k)
  BY StackSized DEF Inside
<1>2. m \in Machines(p)
  BY DEF Inside, Sized
<1>3. /\ k.pc = m.pc /\ k.blocks = m.blocks
      /\ k.result = m.result /\ k.gas = m.gas
  BY <1>2 DEF Machines
<1> HIDE DEF k
<1>4. Inside(p, c, k)
  BY <1>1, <1>3 DEF Inside, Held
<1> QED
  BY <1>3, <1>4 DEF k

LEMMA StoreInside ==
  ASSUME NEW p \in Programs, NEW c, NEW m, Inside(p, c, m),
         NEW i \in Slot, NEW v \in Word
  PROVE  LET k == [m EXCEPT !.stack[i] = v] IN
         Inside(p, c, k) /\ k.pc = m.pc /\ k.blocks = m.blocks
<1> DEFINE s == [m.stack EXCEPT ![i] = v]
<1>1. m.stack \in [Slot -> Word]
  BY MachineFields DEF Inside, Sized
<1>2. s \in [Slot -> Word]
  BY <1>1
<1>3. [m EXCEPT !.stack[i] = v] = [m EXCEPT !.stack = s]
  OBVIOUS
<1> HIDE DEF s
<1> QED
  BY <1>2, <1>3, StackInside

LEMMA BlocksInside ==
  ASSUME NEW p \in Programs, NEW c, NEW m, Inside(p, c, m),
         NEW s \in Seq(Entries(p)), Len(s) <= MaxBlocks,
         Held(p, c, [m EXCEPT !.blocks = s])
  PROVE  LET k == [m EXCEPT !.blocks = s] IN
         Inside(p, c, k) /\ k.pc = m.pc /\ k.blocks = s
<1> DEFINE k == [m EXCEPT !.blocks = s]
<1>1. Sized(p, k)
  BY BlocksSized DEF Inside
<1>2. m \in Machines(p)
  BY DEF Inside, Sized
<1>3. /\ k.pc = m.pc /\ k.blocks = s
      /\ k.result = m.result /\ k.gas = m.gas
  BY <1>2 DEF Machines
<1> QED
  BY <1>1, <1>3 DEF Inside

LEMMA PopInside ==
  ASSUME NEW p \in Programs, NEW c, NEW m, Inside(p, c, m)
  PROVE  /\ Inside(p, c, Pop(m)) /\ Pop(m).pc = m.pc
         /\ Pop(m).blocks = m.blocks
<1>1. m.sp - 1 \in Int
  BY MachineFields DEF Inside, Sized
<1>2. Wrap(m.sp - 1) \in Slot
  BY <1>1, WrapSlot
<1>3. Pop(m) = [m EXCEPT !.sp = Wrap(m.sp - 1)]
  BY DEF Pop
<1> QED
  BY <1>2, <1>3, SpInside

LEMMA PushInside ==
  ASSUME NEW p \in Programs, NEW c, NEW m, Inside(p, c, m), NEW v \in Word
  PROVE  /\ Inside(p, c, Push(m, v)) /\ Push(m, v).pc = m.pc
         /\ Push(m, v).blocks = m.blocks
<1> DEFINE i == Wrap(m.sp + 1)
           k == [m EXCEPT !.sp = i]
<1>1. m.sp + 1 \in Int
  BY MachineFields DEF Inside, Sized
<1>2. i \in Slot
  BY <1>1, WrapSlot
<1>3. Push(m, v) = [k EXCEPT !.stack[i] = v]
  BY DEF Push
<1> HIDE DEF i
<1>4. Inside(p, c, k) /\ k.pc = m.pc /\ k.blocks = m.blocks
  BY <1>2, SpInside
<1> HIDE DEF k
<1> QED
  BY <1>2, <1>3, <1>4, StoreInside

(* What is read of the operand stack *)
LEMMA Reads ==
  ASSUME NEW p \in Programs, NEW m, Sized(p, m)
  PROVE  /\ Top(m) \in Word /\ Top(m) \in Nat
         /\ \A n \in Int : Below(m, n) \in Word
         /\ \A i \in Nat : Local(m, i) \in Slot /\ m.stack[Local(m, i)] \in Word
<1>1. m.stack \in [Slot -> Word] /\ m.sp \in Slot /\ m.sp \in Int /\ m.fp \in Int
  BY MachineFields DEF Sized
<1>2. Word \subseteq Nat
  BY Constants DEF Word
<1>3. Top(m) \in Word
  BY <1>1 DEF Top
<1>4. ASSUME NEW n \in Int PROVE Below(m, n) \in Word
  <2>1. Wrap(m.sp - n) \in Slot
    BY <1>1, WrapSlot
  <2> QED
    BY <1>1, <2>1 DEF Below
<1>5. ASSUME NEW i \in Nat
      PROVE  Local(m, i) \in Slot /\ m.stack[Local(m, i)] \in Word
  <2>1. Local(m, i) \in Slot
    BY <1>1, WrapSlot DEF Local
  <2> QED
    BY <1>1, <2>1
<1> QED
  BY <1>2, <1>3, <1>4, <1>5

LEMMA PopBlocksInside ==
  ASSUME NEW p \in Programs, NEW c, NEW m, Inside(p, c, m),
         NEW n \in Nat, n < Len(m.blocks)
  PROVE  LET k == PopBlocks(m, n) IN
         /\ Inside(p, c, k) /\ k.pc = m.pc
         /\ Len(k.blocks) = Len(m.blocks) - n
         /\ \A i \in 1..Len(k.blocks) : k.blocks[i] = m.blocks[i]
<1> DEFINE l == Len(m.blocks) - n
           s == SubSeq(m.blocks, 1, l)
           k == [m EXCEPT !.blocks = s]
<1>1. m.blocks \in Seq(Entries(p)) /\ Len(m.blocks) \in Nat
      /\ Len(m.blocks) <= MaxBlocks /\ MaxBlocks \in Nat
  BY MachineFields, Constants DEF Inside, Sized
<1>2. l \in 1..Len(m.blocks)
  BY <1>1
<1>0. PopBlocks(m, n) = k
  BY DEF PopBlocks
<1> HIDE DEF l
<1>3. /\ s \in Seq(Entries(p)) /\ Len(s) = l
      /\ \A i \in 1..l : s[i] = m.blocks[i]
  BY <1>1, <1>2, Cut
<1> HIDE DEF s
<1>4. k.blocks = s
  BY DEF Inside, Sized, Machines
<1>5. Held(p, c, k)
  <2>1. s # <<>> /\ s[1] = m.blocks[1]
    <3>1. 1 \in 1..l /\ l # 0
      BY <1>1, <1>2
    <3> QED
      BY <1>3, <3>1, EmptySeq
  <2>2. \A i \in 1..Len(s) : Proper(p, s[i])
    <3>1. \A i \in 1..Len(m.blocks) : Proper(p, m.blocks[i])
      BY DEF Inside, Held
    <3> QED
      BY <1>1, <1>2, <1>3, <3>1
  <2>3. Bottom(p, c, m.blocks[1])
    BY DEF Inside, Held
  <2> HIDE DEF k
  <2> QED
    BY <1>4, <2>1, <2>2, <2>3 DEF Held
<1>6. Len(s) <= MaxBlocks
  BY <1>1, <1>2, <1>3
<1>7. Inside(p, c, k) /\ k.pc = m.pc
  BY <1>3, <1>5, <1>6, BlocksInside
<1> HIDE DEF k
<1>8. Len(k.blocks) = l /\ \A i \in 1..l : k.blocks[i] = m.blocks[i]
  BY <1>3, <1>4
<1> QED
  BY <1>0, <1>7, <1>8 DEF l

(* A new entry, or no room for it *)
LEMMA PushBlockSized ==
  ASSUME NEW p \in Programs, NEW m, Sized(p, m), NEW b \in Entries(p)
  PROVE  LET k == PushBlock(m, b) IN
         /\ Sized(p, k)
         /\ k.result = "ABORT" \/
              /\ k = [m EXCEPT !.blocks = Append(m.blocks, b)]
              /\ Append(m.blocks, b) \in Seq(Entries(p))
              /\ Len(Append(m.blocks, b)) = Len(m.blocks) + 1
              /\ Len(m.blocks) + 1 <= MaxBlocks
<1>1. m.blocks \in Seq(Entries(p)) /\ Len(m.blocks) \in Nat
      /\ MaxBlocks \in Nat /\ m \in Machines(p)
  BY MachineFields, Constants DEF Sized
<1>2. CASE Len(m.blocks) >= MaxBlocks
  <2>1. PushBlock(m, b) = [m EXCEPT !.result = "ABORT"]
    BY <1>2 DEF PushBlock, Give
  <2>2. "ABORT" \in Results0
    BY DEF Results0
  <2>3. [m EXCEPT !.result = "ABORT"].result = "ABORT"
    BY <1>1 DEF Machines
  <2>4. Sized(p, [m EXCEPT !.result = "ABORT"])
    BY <2>2, ResultSized
  <2> QED
    BY <2>1, <2>3, <2>4
<1>3. CASE ~(Len(m.blocks) >= MaxBlocks)
  <2> DEFINE s == Append(m.blocks, b)
  <2>1. PushBlock(m, b) = [m EXCEPT !.blocks = s]
    BY <1>3 DEF PushBlock
  <2>2. s \in Seq(Entries(p)) /\ Len(s) = Len(m.blocks) + 1
    BY <1>1, AppendProperties
  <2>3. Len(m.blocks) + 1 <= MaxBlocks
    BY <1>1, <1>3
  <2> HIDE DEF s
  <2>4. Sized(p, [m EXCEPT !.blocks = s])
    BY <2>2, <2>3, BlocksSized
  <2> QED
    BY <2>1, <2>2, <2>3, <2>4 DEF s
<1> QED
  BY <1>2, <1>3

LEMMA PushBlockInside ==
  ASSUME NEW p \in Programs, NEW c, NEW m, Inside(p, c, m),
         NEW b \in Entries(p), Proper(p, b)
  PROVE  LET k == PushBlock(m, b) IN
         \/ Broken(p, k) /\ k.result = "ABORT"
         \/ /\ Inside(p, c, k) /\ k.pc = m.pc
            /\ Len(k.blocks) = Len(m.blocks) + 1
<1> DEFINE k == PushBlock(m, b)
           s == Append(m.blocks, b)
<1>1. /\ Sized(p, k)
      /\ k.result = "ABORT" \/
           /\ k = [m EXCEPT !.blocks = s]
           /\ s \in Seq(Entries(p)) /\ Len(s) = Len(m.blocks) + 1
           /\ Len(m.blocks) + 1 <= MaxBlocks
  BY PushBlockSized DEF Inside
<1>2. /\ m.blocks \in Seq(Entries(p)) /\ Len(m.blocks) \in Nat
      /\ m \in Machines(p)
  BY MachineFields DEF Inside, Sized
<1>3. /\ s # <<>> /\ \A i \in 1..Len(m.blocks) : s[i] = m.blocks[i]
      /\ s[Len(m.blocks) + 1] = b
  BY <1>2, AppendProperties
<1> HIDE DEF k, s
<1>4. CASE k.result = "ABORT"
  <2>1. "ABORT" \in Errors
    BY DEF Errors, Results0
  <2> QED
    BY <1>1, <1>4, <2>1 DEF Broken, k
<1>5. CASE k.result # "ABORT"
  <2> DEFINE g == [m EXCEPT !.blocks = s]
  <2>1. /\ k = g /\ s \in Seq(Entries(p)) /\ Len(s) = Len(m.blocks) + 1
        /\ Len(s) <= MaxBlocks
    BY <1>1, <1>5
  <2>2. g.blocks = s
    BY <1>2 DEF Machines
  <2>3. \A i \in 1..Len(s) : Proper(p, s[i])
    <3>1. \A i \in 1..Len(m.blocks) : Proper(p, m.blocks[i])
      BY DEF Inside, Held
    <3>2. ASSUME NEW i \in 1..Len(s) PROVE Proper(p, s[i])
      <4>1. i \in 1..Len(m.blocks) \/ i = Len(m.blocks) + 1
        BY <1>2, <2>1
      <4> QED
        BY <1>3, <3>1, <4>1
    <3> QED
      BY <3>2
  <2>4. Bottom(p, c, s[1])
    <3>1. 1 \in 1..Len(m.blocks)
      BY <1>2, MachineFields DEF Inside, Held
    <3>2. s[1] = m.blocks[1]
      BY <1>3, <3>1
    <3> QED
      BY <3>2 DEF Inside, Held
  <2> HIDE DEF g
  <2>5. Held(p, c, g)
    BY <1>3, <2>2, <2>3, <2>4 DEF Held
  <2>6. Inside(p, c, g) /\ g.pc = m.pc
    BY <2>1, <2>5, BlocksInside DEF g
  <2> QED
    BY <2>1, <2>2, <2>6 DEF k
<1> QED
  BY <1>4, <1>5

-----------------------------------------------------------------------------
(* The ends of handlers *)

LEMMA GiveBroken ==
  ASSUME NEW p \in Programs, NEW m, Sized(p, m), NEW r \in Errors
  PROVE  /\ Broken(p, Give(m, r)) /\ Broken(p, Raise(m, r))
         /\ Give(m, r).result = r /\ Raise(m, r).result = r
<1>1. r \in Results0 /\ m \in Machines(p)
  BY DEF Errors, Sized
<1>2. Sized(p, Give(m, r)) /\ Sized(p, Raise(m, r))
  BY <1>1, ResultSized DEF Give, Raise
<1>3. Give(m, r).result = r /\ Raise(m, r).result = r
  BY <1>1 DEF Give, Raise, Machines
<1> QED
  BY <1>2, <1>3 DEF Broken

LEMMA BrokenKept ==
  ASSUME NEW p \in Programs, NEW c, NEW m, Broken(p, m)
  PROVE  Kept(p, c, m)
BY DEF Broken, Kept, Errors

LEMMA FailKept ==
  ASSUME NEW p \in Programs, NEW c, NEW m, Inside(p, c, m), NEW r \in Errors
  PROVE  Kept(p, c, Give(m, r)) /\ Kept(p, c, Raise(m, r))
BY GiveBroken, BrokenKept DEF Inside

LEMMA FailedIsError ==
  ASSUME NEW m, m.result \in Results0
  PROVE  Failed(m) <=> m.result \in Errors
BY DEF Failed, Errors

LEMMA ErrorNames ==
  {"ABORT", "STACK_OVERFLOW", "PC_ADDR", "EXCEPTION", "OP_CODE_ZERO",
   "CAN_NOT_CALL_IMPORTED_HERE", "INSUFFICIENT_PARAMETERS",
   "EXCEPTION_FROM_IMPORTED_FUNCTION", "EXTERNAL_STACK_MISMATCH",
   "VALUE_TYPE", "MISSING_RETURN_VALUES", "BLOCK_STACK_UNDER_RUN",
   "BLOCKSTACK_UNDERFLOW", "OUT_OF_RANGE_IN_TABLE",
   "WRONG_FUNCTION_TYPE", "INDIRECT_CALL_INSUFFICIENT_NOF_PARAM",
   "INDIRECT_CALL_FAILED"} \subseteq Errors
BY DEF Errors, Results0

(* The tests a handler ends with: the next instruction is in the program,  *)
(* and there is gas for it, or dwac_tick returns.                          *)
LEMMA LeaveKept ==
  ASSUME prog \in Programs, NEW c, NEW m, Inside(prog, c, m), NEW tests,
         "pc" \in tests \/ m.pc < Nof(prog)
  PROVE  Kept(prog, c, Leave(m, tests))
<1>1. m.result = "ticking" /\ m.gas \in Nat /\ m.gas > 0
      /\ m \in Machines(prog) /\ Sized(prog, m) /\ m.pc \in Nat
      /\ Nof(prog) \in Nat
  BY MachineFields, ProgramFacts DEF Inside, Sized
<1>2. CASE "stack" \in tests /\ Overflown(m)
  <2>1. Leave(m, tests) = Give(m, "STACK_OVERFLOW")
    BY <1>1, <1>2 DEF Leave
  <2> QED
    BY <2>1, ErrorNames, FailKept
<1>3. CASE /\ ~("stack" \in tests /\ Overflown(m))
           /\ "pc" \in tests /\ m.pc >= Nof(prog)
  <2>1. Leave(m, tests) = Give(m, "PC_ADDR")
    BY <1>1, <1>3 DEF Leave
  <2> QED
    BY <2>1, ErrorNames, FailKept
<1>4. CASE /\ ~("stack" \in tests /\ Overflown(m))
           /\ ~("pc" \in tests /\ m.pc >= Nof(prog))
  <2> DEFINE r == IF m.gas <= 1 THEN "NEED_MORE_GAS" ELSE "ticking"
             k == [m EXCEPT !.gas = m.gas - 1, !.result = r]
  <2>1. Leave(m, tests) = k
    BY <1>1, <1>4 DEF Leave
  <2>2. m.pc < Nof(prog)
    BY <1>1, <1>4
  <2>3. m.gas - 1 \in Nat /\ r \in {"NEED_MORE_GAS", "ticking"}
        /\ r \in Results0
    BY <1>1 DEF Results0
  <2>4. r = "ticking" => m.gas - 1 > 0
    BY <1>1
  <2> HIDE DEF r
  <2>5. /\ k.gas = m.gas - 1 /\ k.result = r /\ k.pc = m.pc
        /\ k.blocks = m.blocks
    BY <1>1 DEF Machines
  <2>6. Sized(prog, k)
    BY <1>1, <2>3 DEF Sized, Machines
  <2> HIDE DEF k
  <2>7. Held(prog, c, k)
    BY <2>5 DEF Inside, Held
  <2>8. Kept(prog, c, k)
    BY <2>2, <2>3, <2>4, <2>5, <2>6, <2>7 DEF Kept
  <2> QED
    BY <2>1, <2>8
<1> QED
  BY <1>2, <1>3, <1>4

(* A handler that failed before the tests leaves the machine as it is. *)
LEMMA LeaveBroken ==
  ASSUME prog \in Programs, NEW c, NEW m, Broken(prog, m), NEW tests
  PROVE  Kept(prog, c, Leave(m, tests))
<1>1. m.result # "ticking"
  BY DEF Broken, Errors
<1>2. Leave(m, tests) = m
  BY <1>1 DEF Leave
<1> QED
  BY <1>2, BrokenKept

(* Instructions that are not metered: the last one of a program is "end".  *)
LEMMA UnmeteredKept ==
  ASSUME prog \in Programs, NEW c, NEW m, Inside(prog, c, m),
         m.pc < Nof(prog) - 1
  PROVE  Kept(prog, c, Next1(m))
<1>1. m.pc < Nof(prog) /\ m.pc + 1 < Nof(prog)
  BY MachineFields, ProgramFacts DEF Inside, Sized
<1>2. Inside(prog, c, Next1(m)) /\ Next1(m).pc = m.pc + 1
  BY <1>1, Next1Inside
<1> QED
  BY <1>1, <1>2 DEF Kept, Inside

LEMMA NotLast ==
  ASSUME prog \in Programs, NEW a \in 0..Nof(prog) - 1, Op(prog, a) # "end"
  PROVE  a < Nof(prog) - 1
BY ProgramFacts

-----------------------------------------------------------------------------
(* Blocks *)

(* The machine before an instruction of the guest *)
Before(c) ==
  /\ prog \in Programs /\ Inside(prog, c, d)
  /\ d.pc \in Addresses(prog) /\ d.pc < Nof(prog) /\ d.pc \in Nat

LEMMA PlainEntry ==
  ASSUME prog \in Programs, NEW c, Before(c), NEW kind \in Kinds \ {"func"},
         NEW imm \in Int, NEW a \in 0..Nof(prog), NEW e \in 0..Nof(prog)
  PROVE  /\ [Entry(kind, imm, a, d.sp) EXCEPT !.else_addr = e]
              \in Entries(prog)
         /\ Entry(kind, imm, a, d.sp) \in Entries(prog)
         /\ HasType(prog, imm) =>
              /\ Proper(prog, Entry(kind, imm, a, d.sp))
              /\ Proper(prog, [Entry(kind, imm, a, d.sp)
                                 EXCEPT !.else_addr = e])
<1>1. d.sp \in Slot /\ 0 \in Slot /\ 0 \in 0..Nof(prog)
  BY MachineFields, Constants, ProgramFacts DEF Before, Inside, Sized
<1> QED
  BY <1>1 DEF Entry, Entries, Proper

LEMMA OpenBlockKept ==
  ASSUME NEW c, Before(c), Op(prog, d.pc) = "block", NEW imm \in Int
  PROVE  Kept(prog, c, OpenBlock(d, imm))
<1> DEFINE b == Entry("block", imm, FindBrAddr(prog, d.pc + 1), d.sp)
           m == PushBlock(Next1(d), b)
<1>1. FindBrAddr(prog, d.pc + 1) \in 0..Nof(prog)
  BY ClosedFacts, ProgramFacts DEF Before, Openers, Addresses
<1>2. "block" \in Kinds \ {"func"} /\ 0 \in 0..Nof(prog) /\ prog \in Programs
  BY ProgramFacts DEF Kinds, Before
<1>3. b \in Entries(prog) /\ (HasType(prog, imm) => Proper(prog, b))
  BY <1>1, <1>2, PlainEntry
<1>4. Inside(prog, c, Next1(d))
  BY Next1Inside DEF Before
<1>5. OpenBlock(d, imm) =
        IF ~HasType(prog, imm) THEN Give(m, "VALUE_TYPE")
        ELSE Leave(m, {"pc"})
  BY DEF OpenBlock
<1> HIDE DEF b
<1>6. Sized(prog, m)
  BY <1>2, <1>3, <1>4, PushBlockSized DEF Inside
<1>7. HasType(prog, imm) => Broken(prog, m) \/ Inside(prog, c, m)
  BY <1>2, <1>3, <1>4, PushBlockInside
<1> HIDE DEF m
<1>8. CASE ~HasType(prog, imm)
  BY <1>2, <1>5, <1>6, <1>8, GiveBroken, BrokenKept, ErrorNames
<1>9. CASE HasType(prog, imm)
  BY <1>2, <1>5, <1>7, <1>9, LeaveKept, LeaveBroken
<1> QED
  BY <1>8, <1>9

LEMMA OpenLoopKept ==
  ASSUME NEW c, Before(c), NEW imm \in Int
  PROVE  Kept(prog, c, OpenLoop(d, imm))
<1> DEFINE b == Entry("loop", imm, d.pc + 1, d.sp)
           m == PushBlock(Next1(d), b)
<1>1. d.pc + 1 \in 0..Nof(prog)
  BY ProgramFacts DEF Before
<1>2. "loop" \in Kinds \ {"func"} /\ 0 \in 0..Nof(prog) /\ prog \in Programs
  BY ProgramFacts DEF Kinds, Before
<1>3. b \in Entries(prog) /\ (HasType(prog, imm) => Proper(prog, b))
  BY <1>1, <1>2, PlainEntry
<1>4. Inside(prog, c, Next1(d))
  BY Next1Inside DEF Before
<1>5. OpenLoop(d, imm) =
        IF ~HasType(prog, imm) THEN Give(m, "VALUE_TYPE")
        ELSE Leave(m, {"pc"})
  BY DEF OpenLoop
<1> HIDE DEF b
<1>6. Sized(prog, m)
  BY <1>2, <1>3, <1>4, PushBlockSized DEF Inside
<1>7. HasType(prog, imm) => Broken(prog, m) \/ Inside(prog, c, m)
  BY <1>2, <1>3, <1>4, PushBlockInside
<1> HIDE DEF m
<1>8. CASE ~HasType(prog, imm)
  BY <1>2, <1>5, <1>6, <1>8, GiveBroken, BrokenKept, ErrorNames
<1>9. CASE HasType(prog, imm)
  BY <1>2, <1>5, <1>7, <1>9, LeaveKept, LeaveBroken
<1> QED
  BY <1>8, <1>9

LEMMA PopSized ==
  ASSUME NEW p \in Programs, NEW m, Sized(p, m)
  PROVE  Sized(p, Pop(m)) /\ Pop(m).result = m.result
         /\ Pop(m).blocks = m.blocks
<1>1. m.sp - 1 \in Int /\ m \in Machines(p)
  BY MachineFields DEF Sized
<1>2. Wrap(m.sp - 1) \in Slot
  BY <1>1, WrapSlot
<1>3. Pop(m) = [m EXCEPT !.sp = Wrap(m.sp - 1)]
  BY DEF Pop
<1>4. Sized(p, Pop(m))
  BY <1>2, <1>3, SpSized
<1> QED
  BY <1>1, <1>4 DEF Machines, Pop

LEMMA GotoSized ==
  ASSUME NEW p \in Programs, NEW m, Sized(p, m), NEW a \in 0..Nof(p)
  PROVE  Sized(p, Goto(m, a)) /\ Goto(m, a).result = m.result
<1>1. Sized(p, Goto(m, a)) /\ m \in Machines(p)
  BY PcSized DEF Goto, Sized
<1> QED
  BY <1>1 DEF Goto, Machines

LEMMA PopBlocksSized ==
  ASSUME NEW p \in Programs, NEW m, Sized(p, m), NEW n \in 0..Len(m.blocks)
  PROVE  /\ Sized(p, PopBlocks(m, n)) /\ PopBlocks(m, n).result = m.result
         /\ Len(PopBlocks(m, n).blocks) = Len(m.blocks) - n
<1> DEFINE l == Len(m.blocks) - n
           s == SubSeq(m.blocks, 1, l)
<1>1. /\ m.blocks \in Seq(Entries(p)) /\ Len(m.blocks) \in Nat
      /\ Len(m.blocks) <= MaxBlocks /\ MaxBlocks \in Nat
      /\ m \in Machines(p)
  BY MachineFields, Constants DEF Sized
<1>2. l \in 0..Len(m.blocks)
  BY <1>1
<1> HIDE DEF l
<1>3. s \in Seq(Entries(p)) /\ Len(s) = l
  BY <1>1, <1>2, Cut
<1>4. Len(s) <= MaxBlocks
  BY <1>1, <1>2, <1>3
<1>5. PopBlocks(m, n) = [m EXCEPT !.blocks = s]
  BY DEF PopBlocks, l
<1> HIDE DEF s
<1>6. /\ [m EXCEPT !.blocks = s].blocks = s
      /\ [m EXCEPT !.blocks = s].result = m.result
  BY <1>1 DEF Machines
<1>7. Sized(p, [m EXCEPT !.blocks = s])
  BY <1>3, <1>4, BlocksSized
<1> QED
  BY <1>3, <1>5, <1>6, <1>7 DEF l

LEMMA OpenIfKept ==
  ASSUME NEW c, Before(c), Op(prog, d.pc) = "if", NEW imm \in Int
  PROVE  Kept(prog, c, OpenIf(d, imm))
<1> DEFINE first == FindElseOrEnd(prog, d.pc + 1)
           hasElse == Op(prog, first) = "else"
           endAddr == IF hasElse THEN FindElseOrEnd(prog, first + 1)
                      ELSE first
           elseAddr == IF hasElse THEN first ELSE 0
           b == [Entry("if", imm, endAddr, d.sp) EXCEPT !.else_addr = elseAddr]
           m0 == PushBlock(Next1(d), b)
           m1 == Pop(m0)
           m2 == IF Top(d) # 0 THEN m1
                 ELSE IF hasElse THEN Goto(m1, first + 1)
                 ELSE Goto(PopBlocks(m1, 1), endAddr + 1)
<1>0. prog \in Programs /\ Nof(prog) \in Nat
  BY ProgramFacts DEF Before
<1>1. first \in Addresses(prog)
  BY ClosedFacts DEF Before, Openers
<1>2. endAddr \in Addresses(prog)
  BY <1>0, <1>1, ClosedFacts
<1>3. OpenIf(d, imm) =
        IF m1.result = "ABORT" THEN m1
        ELSE IF ~HasType(prog, imm) THEN Give(m2, "VALUE_TYPE")
        ELSE Leave(m2, {"pc"})
  BY DEF OpenIf
<1> HIDE DEF first, hasElse, endAddr
<1>4. /\ first + 1 \in 0..Nof(prog) /\ endAddr + 1 \in 0..Nof(prog)
      /\ endAddr \in 0..Nof(prog) /\ elseAddr \in 0..Nof(prog)
  BY <1>0, <1>1, <1>2 DEF Addresses
<1> HIDE DEF elseAddr
<1>5. "if" \in Kinds \ {"func"}
  BY DEF Kinds
<1>6. b \in Entries(prog) /\ (HasType(prog, imm) => Proper(prog, b))
  BY <1>0, <1>4, <1>5, PlainEntry
<1>7. Inside(prog, c, Next1(d)) /\ Next1(d).blocks = d.blocks
  BY Next1Inside DEF Before
<1>8. Len(d.blocks) \in Nat /\ Len(d.blocks) >= 1
      /\ d.blocks \in Seq(Entries(prog))
  BY MachineFields DEF Before, Inside, Sized, Held
<1> DEFINE g == Next1(d)
           s == Append(g.blocks, b)
<1>9. /\ Sized(prog, m0)
      /\ m0.result = "ABORT" \/
           /\ m0 = [g EXCEPT !.blocks = s]
           /\ s \in Seq(Entries(prog))
           /\ Len(s) = Len(g.blocks) + 1
           /\ Len(g.blocks) + 1 <= MaxBlocks
  BY <1>0, <1>6, <1>7, PushBlockSized DEF Inside
<1>10. HasType(prog, imm) =>
         \/ Broken(prog, m0) /\ m0.result = "ABORT"
         \/ /\ Inside(prog, c, m0) /\ Len(m0.blocks) = Len(d.blocks) + 1
  BY <1>0, <1>6, <1>7, PushBlockInside
<1>11. m0.result = "ABORT" \/ Len(m0.blocks) >= 1
  <2>1. g \in Machines(prog)
    BY <1>7 DEF Inside, Sized
  <2> HIDE DEF g, s
  <2>2. [g EXCEPT !.blocks = s].blocks = s
    BY <2>1 DEF Machines
  <2>3. CASE m0.result # "ABORT"
    <3>1. m0.blocks = s /\ Len(s) = Len(g.blocks) + 1
      BY <1>9, <2>2, <2>3
    <3> QED
      BY <3>1, <1>7, <1>8 DEF g
  <2> QED
    BY <2>3
<1> HIDE DEF b, m0, g, s
<1>12. Sized(prog, m1) /\ m1.result = m0.result /\ m1.blocks = m0.blocks
  BY <1>0, <1>9, PopSized
<1>13. CASE m1.result = "ABORT"
  <2>1. Broken(prog, m1)
    BY <1>12, <1>13, ErrorNames DEF Broken
  <2> QED
    BY <1>0, <1>3, <1>13, <2>1, BrokenKept
<1>14. CASE m1.result # "ABORT" /\ ~HasType(prog, imm)
  <2>1. Sized(prog, Goto(m1, first + 1))
    BY <1>0, <1>4, <1>12, GotoSized
  <2>2. 1 \in 0..Len(m1.blocks)
    <3>1. Len(m1.blocks) >= 1 /\ Len(m1.blocks) \in Nat
      BY <1>0, <1>11, <1>12, <1>14, MachineFields DEF Sized
    <3> QED
      BY <3>1
  <2>3. Sized(prog, PopBlocks(m1, 1))
    BY <1>0, <1>12, <2>2, PopBlocksSized
  <2>4. Sized(prog, Goto(PopBlocks(m1, 1), endAddr + 1))
    BY <1>0, <1>4, <2>3, GotoSized
  <2>5. Sized(prog, m2)
    BY <1>12, <2>1, <2>4
  <2> HIDE DEF m2, m1
  <2>6. Kept(prog, c, Give(m2, "VALUE_TYPE"))
    BY <1>0, <2>5, GiveBroken, BrokenKept, ErrorNames
  <2> QED
    BY <1>3, <1>14, <2>6
<1>15. CASE m1.result # "ABORT" /\ HasType(prog, imm)
  <2>1. Inside(prog, c, m0) /\ Len(m0.blocks) = Len(d.blocks) + 1
    BY <1>10, <1>12, <1>15
  <2>2. Inside(prog, c, m1) /\ m1.blocks = m0.blocks
    BY <1>0, <2>1, PopInside
  <2> HIDE DEF m1
  <2>3. Inside(prog, c, Goto(m1, first + 1))
    BY <1>0, <1>4, <2>2, GotoInside
  <2>4. 1 < Len(m1.blocks) /\ 1 \in Nat
    BY <1>8, <2>1, <2>2
  <2>5. Inside(prog, c, PopBlocks(m1, 1))
    BY <1>0, <2>2, <2>4, PopBlocksInside
  <2>6. Inside(prog, c, Goto(PopBlocks(m1, 1), endAddr + 1))
    BY <1>0, <1>4, <2>5, GotoInside
  <2>7. Inside(prog, c, m2)
    BY <2>2, <2>3, <2>6
  <2> HIDE DEF m2
  <2>8. Kept(prog, c, Leave(m2, {"pc"}))
    BY <1>0, <2>7, LeaveKept
  <2> QED
    BY <1>3, <1>15, <2>8
<1> QED
  BY <1>13, <1>14, <1>15

-----------------------------------------------------------------------------
(* The results of a block, moved down one by one *)

Moves(m, b, n) ==
  LET moved[i \in 0..n] ==
        IF i = 0 THEN m.stack ELSE MoveResult(b, n, m.sp, moved[i - 1], i - 1)
  IN moved

LEMMA MovesRun ==
  ASSUME NEW p \in Programs, NEW m, Sized(p, m), NEW b \in Entries(p),
         NEW n \in Nat
  PROVE  Moves(m, b, n)[n] \in [Slot -> Word]
<1> DEFINE V == [Slot -> Word]
           start == m.stack
           Turn(s, i) == MoveResult(b, n, m.sp, s, i - 1)
           F == [i \in 1..n |-> [s \in V |-> Turn(s, i)]]
           Eq(g) == g = [i \in 0..n |->
                           IF i = 0 THEN start ELSE Turn(g[i - 1], i)]
           w == Moves(m, b, n)
<1>0. /\ start \in V /\ m.sp \in Int /\ b.stack_pointer \in Int
  BY MachineFields, EntryFields DEF Sized
<1>1. ASSUME NEW i \in 1..n, NEW s \in V
      PROVE  Turn(s, i) \in V
  <2>1. b.stack_pointer + n - (i - 1) \in Int /\ m.sp - (i - 1) \in Int
    BY <1>0
  <2>2. /\ Wrap(b.stack_pointer + n - (i - 1)) \in Slot
        /\ Wrap(m.sp - (i - 1)) \in Slot
    BY <2>1, WrapSlot
  <2>3. s[Wrap(m.sp - (i - 1))] \in Word
    BY <2>2
  <2> QED
    BY <2>2, <2>3 DEF MoveResult
<1>2. w = CHOOSE g : Eq(g)
  BY DEF Moves
<1> HIDE DEF Turn, V, start
<1>3. /\ Steps(F, n, V)
      /\ \A i \in 1..n : \A s \in V : F[i][s] = Turn(s, i)
  BY <1>1 DEF Steps
<1>4. PICK g : Runs(g, start, F, n, V)
  <2> HIDE DEF F
  <2> QED
    BY <1>0, <1>3, Recursion
<1>5. Eq(g)
  <2> HIDE DEF F
  <2>1. ASSUME NEW i \in 0..n
        PROVE  g[i] = IF i = 0 THEN start ELSE Turn(g[i - 1], i)
    <3>1. CASE i = 0
      BY <3>1, <1>4 DEF Runs
    <3>2. CASE i # 0
      <4>1. i \in 1..n /\ i - 1 \in 0..n
        BY <3>2
      <4>2. g[i] = F[i][g[i - 1]] /\ g[i - 1] \in V
        BY <4>1, <1>4 DEF Runs
      <4> QED
        BY <3>2, <4>1, <4>2, <1>3
    <3> QED
      BY <3>1, <3>2
  <2>2. g = [i \in 0..n |-> g[i]]
    BY <1>4 DEF Runs
  <2> QED
    BY <2>1, <2>2
<1>6. Eq(w)
  BY <1>2, <1>5
<1> HIDE DEF w, F
<1>7. w[0] \in V
  BY <1>0, <1>6
<1>8. ASSUME NEW i \in 1..n, w[i - 1] \in V
      PROVE  w[i] \in V
  <2>1. i \in 0..n /\ i # 0
    OBVIOUS
  <2>2. w[i] = Turn(w[i - 1], i)
    BY <2>1, <1>6
  <2> QED
    BY <1>1, <1>8, <2>2
<1>9. \A i \in 0..n : w[i] \in V
  BY <1>7, <1>8, LoopKeeps
<1> QED
  BY <1>9 DEF w, V

LEMMA KeepResultsDoes ==
  ASSUME NEW p \in Programs, NEW c, NEW m, Sized(p, m), NEW b \in Entries(p),
         NEW n \in Nat
  PROVE  LET k == KeepResults(m, b, n) IN
         /\ Sized(p, k) /\ k.sp = Wrap(b.stack_pointer + n)
         /\ k.blocks = m.blocks /\ k.pc = m.pc
         /\ Inside(p, c, m) => Inside(p, c, k)
<1> DEFINE s == Moves(m, b, n)[n]
           t == Wrap(b.stack_pointer + n)
           k == [m EXCEPT !.stack = s, !.sp = t]
<1>1. s \in [Slot -> Word]
  BY MovesRun
<1>2. t \in Slot
  <2>1. b.stack_pointer + n \in Int
    BY EntryFields
  <2> QED
    BY <2>1, WrapSlot
<1>3. KeepResults(m, b, n) = k
  BY DEF KeepResults, Moves
<1> HIDE DEF s, t
<1>4. m \in Machines(p)
  BY DEF Sized
<1>5. /\ k.sp = t /\ k.blocks = m.blocks /\ k.pc = m.pc
      /\ k.result = m.result /\ k.gas = m.gas
  BY <1>4 DEF Machines
<1>6. Sized(p, k)
  BY <1>1, <1>2 DEF Sized, Machines
<1> HIDE DEF k
<1>7. Inside(p, c, m) => Inside(p, c, k)
  BY <1>5, <1>6 DEF Inside, Held
<1> QED
  BY <1>3, <1>5, <1>6, <1>7 DEF t

-----------------------------------------------------------------------------
(* end, branches and return *)

LEMMA BlockFacts ==
  ASSUME NEW p \in Programs, NEW c, NEW m, Inside(p, c, m)
  PROVE  /\ Block(m) \in Entries(p) /\ Proper(p, Block(m))
         /\ Len(m.blocks) \in Nat /\ Len(m.blocks) >= 1
         /\ Len(m.blocks) = 1 => Bottom(p, c, Block(m))
<1>1. /\ Len(m.blocks) \in Nat /\ Len(m.blocks) >= 1
      /\ \A i \in 1..Len(m.blocks) : m.blocks[i] \in Entries(p)
  BY MachineFields DEF Inside, Sized, Held
<1>2. Len(m.blocks) \in 1..Len(m.blocks)
  BY <1>1
<1>3. Block(m) = m.blocks[Len(m.blocks)]
  BY DEF Block, Last
<1> QED
  BY <1>1, <1>2, <1>3 DEF Inside, Held

LEMMA ElseKept ==
  ASSUME NEW c, Before(c)
  PROVE  Kept(prog, c, Else(Next1(d)))
<1>1. prog \in Programs /\ Inside(prog, c, Next1(d))
  BY Next1Inside DEF Before
<1>2. Block(Next1(d)).addr \in 0..Nof(prog)
  BY <1>1, BlockFacts, EntryFields
<1>3. Inside(prog, c, Goto(Next1(d), Block(Next1(d)).addr))
  BY <1>1, <1>2, GotoInside
<1> QED
  BY <1>1, <1>3, LeaveKept DEF Else

LEMMA EndKept ==
  ASSUME NEW c, Before(c), HostCall(prog, c)
  PROVE  Kept(prog, c, End(d))
<1> DEFINE b == Block(d)
           n == FuncType(prog, b.type).results
           m0 == Next1(d)
           m1 == PopBlocks(m0, 1)
           m2 == KeepResults(m1, b, n)
           m3 == [m2 EXCEPT !.fp = b.frame_pointer, !.pc = b.return_addr]
<1>0. prog \in Programs /\ Inside(prog, c, m0) /\ m0.blocks = d.blocks
  BY Next1Inside DEF Before
<1>1. /\ b \in Entries(prog) /\ Proper(prog, b)
      /\ Len(d.blocks) \in Nat /\ Len(d.blocks) >= 1
      /\ Len(d.blocks) = 1 => Bottom(prog, c, b)
  BY BlockFacts DEF Before
<1>2. n \in Nat
  BY <1>0, <1>1, TypeFacts DEF Proper
<1>3. End(d) =
        IF LessThan(Signed(Signed(d.sp) - Signed(b.stack_pointer)), n)
        THEN Raise(m1, "MISSING_RETURN_VALUES")
        ELSE IF b.kind # "func" THEN Leave(m2, {"stack", "pc"})
        ELSE IF m3.blocks = <<>> THEN Give(m3, "OK")
        ELSE Leave(m3, {"stack", "pc"})
  BY DEF End
<1> HIDE DEF b, n, m0
<1>4. /\ Sized(prog, m1) /\ Len(m1.blocks) = Len(d.blocks) - 1
      /\ m1.result = "ticking"
  <2>1. 1 \in 0..Len(m0.blocks)
    BY <1>0, <1>1
  <2>2. Sized(prog, m0) /\ m0.result = "ticking"
    BY <1>0 DEF Inside
  <2> QED
    BY <1>0, <2>1, <2>2, PopBlocksSized
<1>5. Len(d.blocks) > 1 => Inside(prog, c, m1)
  <2>1. 1 \in Nat /\ (Len(d.blocks) > 1 => 1 < Len(m0.blocks))
    BY <1>0, <1>1
  <2> QED
    BY <1>0, <2>1, PopBlocksInside
<1> HIDE DEF m1
<1>6. /\ Sized(prog, m2) /\ m2.sp = Wrap(b.stack_pointer + n)
      /\ m2.blocks = m1.blocks
      /\ Len(d.blocks) > 1 => Inside(prog, c, m2)
  BY <1>0, <1>1, <1>2, <1>4, <1>5, KeepResultsDoes
<1> HIDE DEF m2
<1>7. b.frame_pointer \in Slot /\ b.return_addr \in 0..Nof(prog)
  BY <1>0, <1>1, EntryFields
<1>8. /\ Sized(prog, m3) /\ m3.blocks = m2.blocks /\ m3.sp = m2.sp
      /\ m3.fp = b.frame_pointer /\ m3.result = m2.result /\ m3.gas = m2.gas
  <2>1. m2 \in Machines(prog)
    BY <1>6 DEF Sized
  <2>2. /\ m3.blocks = m2.blocks /\ m3.sp = m2.sp
        /\ m3.fp = b.frame_pointer /\ m3.result = m2.result
        /\ m3.gas = m2.gas
    BY <2>1 DEF Machines
  <2>3. Sized(prog, m3)
    BY <1>6, <1>7 DEF Sized, Machines
  <2> QED
    BY <2>2, <2>3
<1> HIDE DEF m3
<1>9. Kept(prog, c, Raise(m1, "MISSING_RETURN_VALUES"))
  BY <1>0, <1>4, GiveBroken, BrokenKept, ErrorNames
<1>10. CASE Len(d.blocks) > 1
  <2>1. Kept(prog, c, Leave(m2, {"stack", "pc"}))
    BY <1>0, <1>6, <1>10, LeaveKept
  <2>2. Inside(prog, c, m3)
    BY <1>6, <1>8, <1>10 DEF Inside, Held
  <2>3. Kept(prog, c, Leave(m3, {"stack", "pc"}))
    BY <1>0, <2>2, LeaveKept
  <2>4. m3.blocks # <<>>
    BY <2>2 DEF Inside, Held
  <2> QED
    BY <1>3, <1>9, <2>1, <2>3, <2>4
<1>11. CASE Len(d.blocks) = 1
  <2>1. Bottom(prog, c, b) /\ b.kind = "func"
    BY <1>1, <1>11 DEF Bottom
  <2>2. m3.blocks = <<>>
    <3>1. /\ m3.blocks = m1.blocks /\ Len(m1.blocks) = 0
          /\ m1.blocks \in Seq(Entries(prog))
      BY <1>0, <1>4, <1>6, <1>8, <1>11, MachineFields DEF Sized
    <3> QED
      BY <3>1, EmptySeq
  <2>3. m3.sp = Wrap(c.sp + FuncType(prog, FuncTypeIdx(prog, c.func)).results)
    BY <1>6, <1>8, <2>1 DEF Bottom, n
  <2>4. m3.fp = c.fp
    BY <1>8, <2>1 DEF Bottom
  <2> DEFINE k == [m3 EXCEPT !.result = "OK"]
  <2>5. m3 \in Machines(prog) /\ "OK" \in Results0
    BY <1>8 DEF Sized, Results0
  <2>6. /\ k.blocks = m3.blocks /\ k.sp = m3.sp /\ k.fp = m3.fp
        /\ k.result = "OK"
    BY <2>5 DEF Machines
  <2>7. Sized(prog, k)
    BY <1>0, <1>8, <2>5, ResultSized
  <2> HIDE DEF k
  <2>8. Kept(prog, c, k)
    BY <2>2, <2>3, <2>4, <2>6, <2>7 DEF Kept, Returned
  <2>9. Give(m3, "OK") = k
    BY DEF Give, k
  <2> QED
    BY <1>3, <1>9, <2>1, <2>2, <2>8, <2>9
<1>12. Len(d.blocks) > 1 \/ Len(d.blocks) = 1
  <2> DEFINE len == Len(d.blocks)
  <2>1. len \in Nat /\ len >= 1
    BY <1>1
  <2> HIDE DEF len
  <2>2. len > 1 \/ len = 1
    BY <2>1
  <2> QED
    BY <2>2 DEF len
<1> QED
  BY <1>10, <1>11, <1>12

LEMMA Branch1Inside ==
  ASSUME NEW p \in Programs, NEW c, NEW m, Inside(p, c, m),
         NEW l \in Nat, l < Len(m.blocks)
  PROVE  Inside(p, c, Branch1(m, l))
<1> DEFINE k == PopBlocks(m, l)
<1>1. Inside(p, c, k)
  BY PopBlocksInside
<1>2. Branch1(m, l) = Goto(k, Block(k).addr)
  BY DEF Branch1
<1> HIDE DEF k
<1>3. Block(k).addr \in 0..Nof(p)
  BY <1>1, BlockFacts, EntryFields
<1> QED
  BY <1>1, <1>2, <1>3, GotoInside

LEMMA BrKept ==
  ASSUME NEW c, Before(c), NEW l \in Nat
  PROVE  Kept(prog, c, Br(d, l))
<1>1. /\ prog \in Programs /\ Inside(prog, c, d)
      /\ Inside(prog, c, Next1(d)) /\ Len(d.blocks) \in Nat
  BY Next1Inside, BlockFacts DEF Before
<1>2. CASE l >= Len(d.blocks)
  <2>1. Br(d, l) = Raise(Next1(d), "BLOCK_STACK_UNDER_RUN")
    BY <1>2 DEF Br
  <2> QED
    BY <1>1, <2>1, ErrorNames, FailKept
<1>3. CASE ~(l >= Len(d.blocks))
  <2>1. Br(d, l) = Leave(Branch1(d, l), {"stack", "pc"})
    BY <1>3 DEF Br
  <2>2. l < Len(d.blocks)
    BY <1>1, <1>3
  <2>3. Inside(prog, c, Branch1(d, l))
    BY <1>1, <2>2, Branch1Inside
  <2> QED
    BY <1>1, <2>1, <2>3, LeaveKept
<1> QED
  BY <1>2, <1>3

LEMMA BrIfKept ==
  ASSUME NEW c, Before(c), NEW l \in Nat
  PROVE  Kept(prog, c, BrIf(d, l))
<1> DEFINE m == Next1(Pop(d))
<1>1. /\ prog \in Programs /\ Inside(prog, c, m) /\ m.blocks = d.blocks
      /\ Len(d.blocks) \in Nat
  <2>1. /\ prog \in Programs /\ Inside(prog, c, Pop(d)) /\ Pop(d).pc = d.pc
        /\ Pop(d).blocks = d.blocks /\ Pop(d).pc < Nof(prog)
    BY PopInside DEF Before
  <2> QED
    BY <2>1, Next1Inside, BlockFacts
<1>2. BrIf(d, l) =
        IF l >= Len(d.blocks) THEN Raise(m, "BLOCK_STACK_UNDER_RUN")
        ELSE Leave(IF Top(d) # 0 THEN Branch1(m, l) ELSE m, {"stack", "pc"})
  BY DEF BrIf
<1> HIDE DEF m
<1>3. CASE l >= Len(d.blocks)
  BY <1>1, <1>2, <1>3, ErrorNames, FailKept
<1>4. CASE ~(l >= Len(d.blocks))
  <2>1. l < Len(m.blocks)
    BY <1>1, <1>4
  <2>2. Inside(prog, c, Branch1(m, l))
    BY <1>1, <2>1, Branch1Inside
  <2>3. Inside(prog, c, IF Top(d) # 0 THEN Branch1(m, l) ELSE m)
    BY <1>1, <2>2
  <2> QED
    BY <1>1, <1>2, <1>4, <2>3, LeaveKept
<1> QED
  BY <1>3, <1>4

LEMMA BrTableKept ==
  ASSUME NEW c, Before(c), NEW labels, Len(labels) \in Nat \ {0},
         \A i \in 1..Len(labels) : labels[i] \in Nat
  PROVE  Kept(prog, c, BrTable(d, labels))
<1> DEFINE m == Next1(Pop(d))
           i == Top(d)
           l == IF i < Len(labels) - 1 THEN labels[i + 1] ELSE Last(labels)
<1>1. /\ prog \in Programs /\ Inside(prog, c, m) /\ m.blocks = d.blocks
      /\ Len(d.blocks) \in Nat /\ i \in Nat
  <2>1. /\ prog \in Programs /\ Inside(prog, c, Pop(d)) /\ Pop(d).pc = d.pc
        /\ Pop(d).blocks = d.blocks /\ Pop(d).pc < Nof(prog)
    BY PopInside DEF Before
  <2>2. Top(d) \in Nat
    BY Reads DEF Before, Inside
  <2> QED
    BY <2>1, <2>2, Next1Inside, BlockFacts
<1>2. BrTable(d, labels) =
        IF l >= Len(d.blocks) THEN Raise(m, "BLOCKSTACK_UNDERFLOW")
        ELSE Leave(Branch1(m, l), {"pc"})
  BY DEF BrTable
<1> HIDE DEF m, i
<1>3. l \in Nat
  <2>1. CASE i < Len(labels) - 1
    <3>1. i + 1 \in 1..Len(labels)
      BY <1>1, <2>1
    <3> QED
      BY <2>1, <3>1
  <2>2. CASE ~(i < Len(labels) - 1)
    <3>1. Len(labels) \in 1..Len(labels)
      OBVIOUS
    <3> QED
      BY <2>2, <3>1 DEF Last
  <2> QED
    BY <2>1, <2>2
<1> HIDE DEF l
<1>4. CASE l >= Len(d.blocks)
  BY <1>1, <1>2, <1>4, ErrorNames, FailKept
<1>5. CASE ~(l >= Len(d.blocks))
  <2>1. l < Len(m.blocks)
    BY <1>1, <1>3, <1>5
  <2>2. Inside(prog, c, Branch1(m, l))
    BY <1>1, <1>3, <2>1, Branch1Inside
  <2> QED
    BY <1>1, <1>2, <1>5, <2>2, LeaveKept
<1> QED
  BY <1>4, <1>5

(* The topmost entry of a function is found: the lowest one is one. *)
LEMMA GreatestNumber ==
  ASSUME NEW n \in Nat, NEW T \in SUBSET (1..n), T # {}
  PROVE  \E x \in T : \A y \in T : y <= x
<1> DEFINE S == {n - y : y \in T}
<1>1. S \in SUBSET Nat /\ S # {}
  <2>1. \A y \in T : y \in 1..n /\ n - y \in Nat
    OBVIOUS
  <2> QED
    BY <2>1
<1>2. PICK z \in S : \A y \in S : z <= y
  BY <1>1, LeastNumber
<1>3. PICK x \in T : z = n - x
  BY <1>2
<1>4. ASSUME NEW y \in T PROVE y <= x
  <2>1. n - x <= n - y
    BY <1>2, <1>3
  <2> QED
    BY <2>1
<1> QED
  BY <1>4

LEMMA ReturnKept ==
  ASSUME NEW c, Before(c)
  PROVE  Kept(prog, c, ReturnOp(d))
<1> DEFINE P(i) == /\ d.blocks[i].kind = "func"
                   /\ \A j \in i + 1..Len(d.blocks) :
                        d.blocks[j].kind # "func"
           n == CHOOSE i \in 1..Len(d.blocks) : P(i)
           l == Len(d.blocks) - n
           m == PopBlocks(d, l)
           T == {i \in 1..Len(d.blocks) : d.blocks[i].kind = "func"}
<1>1. /\ prog \in Programs /\ Inside(prog, c, d)
      /\ Len(d.blocks) \in Nat /\ Len(d.blocks) >= 1
      /\ Bottom(prog, c, d.blocks[1])
  BY BlockFacts DEF Before, Inside, Held
<1>2. 1 \in T
  BY <1>1 DEF Bottom
<1>3. PICK x \in T : \A y \in T : y <= x
  BY <1>1, <1>2, GreatestNumber
<1>4. x \in 1..Len(d.blocks) /\ P(x)
  <2>1. ASSUME NEW j \in x + 1..Len(d.blocks)
        PROVE  d.blocks[j].kind # "func"
    <3>1. j \in 1..Len(d.blocks) /\ ~(j <= x)
      BY <1>1
    <3> QED
      BY <1>3, <3>1
  <2> QED
    BY <2>1
<1>5. n \in 1..Len(d.blocks) /\ P(n)
  <2> HIDE DEF P
  <2> QED
    BY <1>4
<1>6. ReturnOp(d) =
        Leave(Goto(m, Internal(prog, Block(m).addr).end_addr),
              {"stack", "pc"})
  BY DEF ReturnOp
<1>7. d.blocks[n].kind = "func"
  BY <1>5
<1> HIDE DEF n, P
<1>8. l \in Nat /\ l < Len(d.blocks) /\ Len(d.blocks) - l = n
  BY <1>1, <1>5
<1> HIDE DEF l
<1>9. /\ Inside(prog, c, m) /\ Len(m.blocks) = n
      /\ m.blocks[n] = d.blocks[n]
  <2>1. /\ Inside(prog, c, m)
        /\ Len(m.blocks) = Len(d.blocks) - l
        /\ \A i \in 1..Len(m.blocks) : m.blocks[i] = d.blocks[i]
    BY <1>1, <1>8, PopBlocksInside
  <2>2. Len(m.blocks) = n /\ n \in 1..n
    BY <1>5, <1>8, <2>1
  <2> QED
    BY <2>1, <2>2
<1> HIDE DEF m
<1>10. Block(m).kind = "func" /\ Proper(prog, Block(m))
  BY <1>1, <1>7, <1>9, BlockFacts DEF Block, Last
<1>11. Internal(prog, Block(m).addr).end_addr \in 0..Nof(prog)
  <2>1. Block(m).addr \in NofImported(prog)..TotalNof(prog) - 1
    BY <1>10 DEF Proper
  <2>2. NofImported(prog) \in Nat /\ TotalNof(prog) \in Nat /\ Nof(prog) \in Nat
    BY <1>1, ProgramFacts
  <2>3. Block(m).addr \in Functions(prog) /\ ~IsImported(prog, Block(m).addr)
    BY <2>1, <2>2 DEF Functions, IsImported
  <2>4. Internal(prog, Block(m).addr).end_addr \in Addresses(prog)
    BY <1>1, <2>3, FunctionFacts
  <2> QED
    BY <2>2, <2>4 DEF Addresses
<1>12. Inside(prog, c, Goto(m, Internal(prog, Block(m).addr).end_addr))
  BY <1>1, <1>9, <1>11, GotoInside
<1> QED
  BY <1>1, <1>6, <1>12, LeaveKept

-----------------------------------------------------------------------------
(* Calls *)

(* The entry a call pushes, when the machine is m and the parameters begin *)
(* above "base"                                                            *)
FuncEntry(m, f, base) ==
  [Entry("func", Internal(prog, f).type, f, base)
     EXCEPT !.frame_pointer = m.fp, !.return_addr = m.pc]

LEMMA FuncEntryFacts ==
  ASSUME prog \in Programs, NEW m, Sized(prog, m), NEW base \in Slot,
         NEW f \in Functions(prog), ~IsImported(prog, f)
  PROVE  LET b == FuncEntry(m, f, base) IN
         /\ b \in Entries(prog) /\ Proper(prog, b)
         /\ b.kind = "func" /\ b.type = FuncTypeIdx(prog, f)
         /\ b.stack_pointer = base /\ b.frame_pointer = m.fp
<1> DEFINE b == FuncEntry(m, f, base)
<1>1. /\ m.fp \in Slot /\ m.pc \in 0..Nof(prog) /\ 0 \in 0..Nof(prog)
      /\ f \in 0..Nof(prog)
      /\ f \in NofImported(prog)..TotalNof(prog) - 1
      /\ HasType(prog, Internal(prog, f).type)
      /\ FuncTypeIdx(prog, f) = Internal(prog, f).type
  BY MachineFields, ProgramFacts, FunctionFacts DEF Sized
<1>2. Internal(prog, f).type \in Int /\ "func" \in Kinds
  BY <1>1, TypeFacts DEF Kinds
<1> DEFINE e == Entry("func", Internal(prog, f).type, f, base)
<1>3. b = [e EXCEPT !.frame_pointer = m.fp, !.return_addr = m.pc]
  BY DEF FuncEntry
<1>7. 0 \in Slot
  BY Constants
<1>8. e \in Entries(prog)
  BY <1>1, <1>2, <1>7 DEF Entry, Entries
<1>9. /\ e.kind = "func" /\ e.type = Internal(prog, f).type /\ e.addr = f
      /\ e.stack_pointer = base
  BY DEF Entry
<1> HIDE DEF b, e
<1>4. /\ b.kind = "func" /\ b.type = Internal(prog, f).type /\ b.addr = f
      /\ b.stack_pointer = base /\ b.frame_pointer = m.fp
  BY <1>3, <1>8, <1>9 DEF Entries
<1>5. b \in Entries(prog)
  BY <1>1, <1>3, <1>8 DEF Entries
<1>6. Proper(prog, b)
  BY <1>1, <1>4 DEF Proper
<1> QED
  BY <1>1, <1>4, <1>5, <1>6 DEF b

(* What dwac_setup_function_call leaves: a failure, or the machine at the  *)
(* first instruction with the entry on the block stack.                    *)
LEMMA SetupDoes ==
  ASSUME prog \in Programs, NEW m, Sized(prog, m), m.result \notin Errors,
         NEW f \in Functions(prog)
  PROVE  LET k == SetupFunctionCall(m, f)
             base == Wrap(m.sp - FuncType(prog, FuncTypeIdx(prog, f)).params)
             b == FuncEntry(m, f, base)
         IN \/ Broken(prog, k)
            \/ /\ Sized(prog, k) /\ ~IsImported(prog, f) /\ base \in Slot
               /\ k.blocks = Append(m.blocks, b)
               /\ k.pc < Nof(prog) /\ k.result = m.result /\ k.gas = m.gas
               /\ k.exception = m.exception
<1> DEFINE fn == Internal(prog, f)
           t == FuncType(prog, fn.type)
           base == Wrap(m.sp - t.params)
           b == FuncEntry(m, f, base)
           g == PushBlock(m, b)
           fp == Wrap(base + 1)
           sp == Wrap(m.sp + fn.nof_local)
           k == [g EXCEPT !.fp = fp, !.sp = sp, !.pc = fn.start_addr]
<1>1. CASE IsImported(prog, f)
  <2>1. SetupFunctionCall(m, f) = Give(m, "CAN_NOT_CALL_IMPORTED_HERE")
    BY <1>1 DEF SetupFunctionCall
  <2> QED
    BY <2>1, GiveBroken, ErrorNames
<1>2. CASE ~IsImported(prog, f) /\ LessThan(Signed(m.sp + 1), t.params)
  <2>1. SetupFunctionCall(m, f) = Raise(m, "INSUFFICIENT_PARAMETERS")
    BY <1>2 DEF SetupFunctionCall
  <2> QED
    BY <2>1, GiveBroken, ErrorNames
<1>3. CASE ~IsImported(prog, f) /\ ~LessThan(Signed(m.sp + 1), t.params)
  <2>1. SetupFunctionCall(m, f) = k
    BY <1>3 DEF SetupFunctionCall, FuncEntry
  <2>2. /\ fn.nof_local \in Nat /\ fn.start_addr \in Addresses(prog)
        /\ FuncTypeIdx(prog, f) = fn.type /\ HasType(prog, fn.type)
    BY <1>3, FunctionFacts
  <2>3. t.params \in Nat /\ m.sp \in Int /\ m.blocks \in Seq(Entries(prog))
    BY <2>2, TypeFacts, MachineFields DEF Sized
  <2>4. m.sp - t.params \in Int /\ m.sp + fn.nof_local \in Int
    BY <2>2, <2>3
  <2>5. base \in Slot /\ sp \in Slot
    BY <2>4, WrapSlot
  <2>6. fp \in Slot
    <3>1. base + 1 \in Int
      BY <2>5 DEF Slot
    <3> QED
      BY <3>1, WrapSlot
  <2>7. /\ fn.start_addr \in 0..Nof(prog) /\ fn.start_addr < Nof(prog)
    BY <2>2, ProgramFacts DEF Addresses
  <2>0. base = Wrap(m.sp - FuncType(prog, FuncTypeIdx(prog, f)).params)
    BY <2>2
  <2> DEFINE a == fn.start_addr
             s == Append(m.blocks, b)
             h == [m EXCEPT !.blocks = s]
  <2> HIDE DEF base
  <2>8. b \in Entries(prog)
    BY <1>3, <2>5, FuncEntryFacts
  <2>9. /\ Sized(prog, g)
        /\ \/ g.result = "ABORT"
           \/ g = h /\ s \in Seq(Entries(prog))
    BY <2>8, PushBlockSized
  <2> HIDE DEF b, fp, sp, a, g, s
  <2>10. k = [g EXCEPT !.fp = fp, !.sp = sp, !.pc = a]
    BY DEF a
  <2>11. /\ Sized(prog, k) /\ k.result = g.result /\ k.blocks = g.blocks
         /\ k.pc = a /\ k.gas = g.gas /\ k.exception = g.exception
    <3>1. g \in Machines(prog) /\ a \in 0..Nof(prog)
      BY <2>7, <2>9 DEF Sized, a
    <3>2. /\ k.result = g.result /\ k.blocks = g.blocks
          /\ k.pc = a /\ k.gas = g.gas /\ k.exception = g.exception
      BY <3>1, <2>10 DEF Machines
    <3>3. Sized(prog, k)
      BY <3>1, <2>5, <2>6, <2>9, <2>10 DEF Sized, Machines
    <3> QED
      BY <3>2, <3>3
  <2> HIDE DEF k
  <2>12. CASE g.result = "ABORT"
    <3>1. Broken(prog, k)
      BY <2>11, <2>12, ErrorNames DEF Broken
    <3> QED
      BY <2>1, <3>1
  <2>13. CASE g.result # "ABORT"
    <3>1. g = h
      BY <2>9, <2>13
    <3>2. /\ h.blocks = s /\ h.result = m.result /\ h.gas = m.gas
          /\ h.exception = m.exception
      BY DEF Sized, Machines
    <3> HIDE DEF h
    <3>3. /\ Sized(prog, k) /\ k.blocks = s /\ k.pc < Nof(prog)
          /\ k.result = m.result /\ k.gas = m.gas
          /\ k.exception = m.exception
      BY <2>7, <2>11, <3>1, <3>2 DEF a
    <3> QED
      BY <1>3, <2>0, <2>1, <2>5, <3>3 DEF s, b
  <2> QED
    BY <2>12, <2>13
<1> QED
  BY <1>1, <1>2, <1>3

LEMMA SetupInside ==
  ASSUME prog \in Programs, NEW c, NEW m, Inside(prog, c, m),
         NEW f \in Functions(prog)
  PROVE  LET k == SetupFunctionCall(m, f)
         IN Broken(prog, k) \/ Inside(prog, c, k)
<1> DEFINE k == SetupFunctionCall(m, f)
           base == Wrap(m.sp - FuncType(prog, FuncTypeIdx(prog, f)).params)
           b == FuncEntry(m, f, base)
           s == Append(m.blocks, b)
<1>1. m.result \notin Errors /\ Sized(prog, m)
  BY DEF Inside, Errors
<1>2. \/ Broken(prog, k)
      \/ /\ Sized(prog, k) /\ ~IsImported(prog, f) /\ base \in Slot
         /\ k.blocks = s
         /\ k.pc < Nof(prog) /\ k.result = m.result /\ k.gas = m.gas
         /\ k.exception = m.exception
  BY <1>1, SetupDoes
<1> HIDE DEF k, base
<1>3. ASSUME ~Broken(prog, k) PROVE Inside(prog, c, k)
  <2>1. /\ Sized(prog, k) /\ k.blocks = s /\ k.result = m.result
        /\ k.gas = m.gas
    BY <1>2, <1>3
  <2>2. b \in Entries(prog) /\ Proper(prog, b)
    BY <1>1, <1>2, <1>3, FuncEntryFacts
  <2> HIDE DEF b
  <2>3. /\ m.blocks \in Seq(Entries(prog)) /\ Len(m.blocks) \in Nat
        /\ Len(m.blocks) >= 1
    BY MachineFields DEF Inside, Sized, Held
  <2>4. /\ s # <<>> /\ Len(s) = Len(m.blocks) + 1
        /\ \A i \in 1..Len(m.blocks) : s[i] = m.blocks[i]
        /\ s[Len(m.blocks) + 1] = b
    BY <2>2, <2>3, AppendProperties
  <2> HIDE DEF s
  <2>5. ASSUME NEW i \in 1..Len(s) PROVE Proper(prog, s[i])
    <3>1. i \in 1..Len(m.blocks) \/ i = Len(m.blocks) + 1
      BY <2>3, <2>4
    <3>2. \A j \in 1..Len(m.blocks) : Proper(prog, m.blocks[j])
      BY DEF Inside, Held
    <3> QED
      BY <2>2, <2>4, <3>1, <3>2
  <2>6. Bottom(prog, c, s[1])
    <3>1. 1 \in 1..Len(m.blocks)
      BY <2>3
    <3>2. s[1] = m.blocks[1]
      BY <2>4, <3>1
    <3> QED
      BY <3>2 DEF Inside, Held
  <2>7. Held(prog, c, k)
    BY <2>1, <2>4, <2>5, <2>6 DEF Held
  <2> QED
    BY <2>1, <2>7 DEF Inside
<1> QED
  BY <1>3 DEF k

LEMMA ImportedInside ==
  ASSUME prog \in Programs, NEW c, NEW m, Inside(prog, c, m),
         NEW f \in Functions(prog), IsImported(prog, f)
  PROVE  LET k == CallImportedFunction(m, f)
         IN Broken(prog, k) \/ Inside(prog, c, k)
<1> DEFINE t == FuncType(prog, Imported(prog, f).type)
           base == Wrap(m.sp - t.params)
           fp == Wrap(base + 1)
           inside == [m EXCEPT !.fp = fp]
           results == {Wrap(base + i) : i \in 1..t.results}
           stack == [s \in Slot |-> IF s \in results THEN 1 ELSE m.stack[s]]
           sp == Wrap(base + t.results)
           k == [m EXCEPT !.sp = sp, !.stack = stack]
<1>1. t.params \in Nat /\ t.results \in Nat
  BY FunctionFacts, TypeFacts
<1>2. m.sp \in Int /\ m.stack \in [Slot -> Word] /\ m \in Machines(prog)
  BY MachineFields DEF Inside, Sized
<1>3. base \in Slot /\ base \in Int
  <2>1. m.sp - t.params \in Int
    BY <1>1, <1>2
  <2> QED
    BY <2>1, WrapSlot DEF Slot
<1>4. sp \in Slot /\ fp \in Slot
  <2>1. base + t.results \in Int /\ base + 1 \in Int
    BY <1>1, <1>3
  <2> QED
    BY <2>1, WrapSlot
<1> HIDE DEF base, results, fp, sp
<1>5. stack \in [Slot -> Word]
  BY <1>2, Constants
<1>6. CallImportedFunction(m, f) =
        IF LessThan(Signed(m.sp + 1), t.params)
        THEN Raise(m, "INSUFFICIENT_PARAMETERS")
        ELSE CASE Imported(prog, f).does = "return"
                    /\ base + t.results < Capacity -> k
               [] Imported(prog, f).does = "raise" ->
                    Raise(inside, "EXCEPTION_FROM_IMPORTED_FUNCTION")
               [] OTHER -> Raise(inside, "EXTERNAL_STACK_MISMATCH")
  BY DEF CallImportedFunction, base, results, fp, sp
<1> HIDE DEF stack, t
<1>7. Inside(prog, c, k)
  <2>1. Inside(prog, c, [m EXCEPT !.sp = sp])
    BY <1>4, SpInside
  <2>2. k = [[m EXCEPT !.sp = sp] EXCEPT !.stack = stack]
    BY <1>2 DEF Machines
  <2> QED
    BY <1>5, <2>1, <2>2, StackInside
<1>8. Sized(prog, inside)
  BY <1>2, <1>4 DEF Inside, Sized, Machines
<1> HIDE DEF inside, k
<1>9. /\ Broken(prog, Raise(m, "INSUFFICIENT_PARAMETERS"))
      /\ Broken(prog, Raise(inside, "EXCEPTION_FROM_IMPORTED_FUNCTION"))
      /\ Broken(prog, Raise(inside, "EXTERNAL_STACK_MISMATCH"))
  BY <1>8, GiveBroken, ErrorNames DEF Inside
<1> QED
  BY <1>6, <1>7, <1>9

LEMMA CallInside ==
  ASSUME prog \in Programs, NEW c, NEW m, Inside(prog, c, m),
         NEW f \in Functions(prog)
  PROVE  LET k == CallFunction(m, f)
         IN Broken(prog, k) \/ Inside(prog, c, k)
BY SetupInside, ImportedInside DEF CallFunction

LEMMA CallKept ==
  ASSUME NEW c, Before(c), NEW f \in Functions(prog)
  PROVE  Kept(prog, c, CallOp(d, f))
<1> DEFINE k == CallFunction(Next1(d), f)
<1>1. prog \in Programs /\ Inside(prog, c, Next1(d))
  BY Next1Inside DEF Before
<1>2. Broken(prog, k) \/ Inside(prog, c, k)
  BY <1>1, CallInside
<1>3. CallOp(d, f) = Leave(k, {"stack", "pc"})
  BY DEF CallOp
<1> HIDE DEF k
<1> QED
  BY <1>1, <1>2, <1>3, LeaveKept, LeaveBroken

LEMMA CallIndirectKept ==
  ASSUME NEW c, Before(c), NEW type
  PROVE  Kept(prog, c, CallIndirect(d, type))
<1> DEFINE m == Next1(Pop(d))
           f == prog.table[Top(d) + 1]
           k == CallFunction(m, f)
<1>1. prog \in Programs /\ Inside(prog, c, m) /\ Top(d) \in Nat
  <2>1. /\ prog \in Programs /\ Inside(prog, c, Pop(d)) /\ Pop(d).pc = d.pc
        /\ Pop(d).pc < Nof(prog)
    BY PopInside DEF Before
  <2>2. Top(d) \in Nat
    BY Reads DEF Before, Inside
  <2> QED
    BY <2>1, <2>2, Next1Inside
<1>2. CallIndirect(d, type) =
        IF Top(d) >= Len(prog.table) THEN Raise(m, "OUT_OF_RANGE_IN_TABLE")
        ELSE IF FuncTypeIdx(prog, f) # type
        THEN Raise(m, "WRONG_FUNCTION_TYPE")
        ELSE IF FuncType(prog, type).params > m.sp + 1 - m.fp
        THEN Raise(m, "INDIRECT_CALL_INSUFFICIENT_NOF_PARAM")
        ELSE IF ~IsImported(prog, f) /\ Failed(k) /\ k.result # "ABORT"
        THEN Give(k, "INDIRECT_CALL_FAILED")
        ELSE Leave(k, {"stack", "pc"})
  BY DEF CallIndirect
<1> HIDE DEF m
<1>3. /\ Kept(prog, c, Raise(m, "OUT_OF_RANGE_IN_TABLE"))
      /\ Kept(prog, c, Raise(m, "WRONG_FUNCTION_TYPE"))
      /\ Kept(prog, c, Raise(m, "INDIRECT_CALL_INSUFFICIENT_NOF_PARAM"))
  BY <1>1, FailKept, ErrorNames
<1>4. CASE Top(d) >= Len(prog.table)
  BY <1>2, <1>3, <1>4
<1>5. CASE ~(Top(d) >= Len(prog.table))
  <2>1. Top(d) + 1 \in 1..Len(prog.table)
    BY <1>1, <1>5, ProgramFacts
  <2>2. f \in Functions(prog)
    BY <1>1, <2>1, ProgramsAssumption DEF IndicesFit
  <2> HIDE DEF f
  <2>3. Broken(prog, k) \/ Inside(prog, c, k)
    BY <1>1, <2>2, CallInside
  <2> HIDE DEF k
  <2>4. Kept(prog, c, Leave(k, {"stack", "pc"}))
    BY <1>1, <2>3, LeaveKept, LeaveBroken
  <2>5. Kept(prog, c, Give(k, "INDIRECT_CALL_FAILED"))
    <3>1. Sized(prog, k)
      BY <2>3 DEF Broken, Inside
    <3> QED
      BY <1>1, <3>1, GiveBroken, BrokenKept, ErrorNames
  <2> QED
    BY <1>2, <1>3, <1>5, <2>4, <2>5
<1> QED
  BY <1>4, <1>5

-----------------------------------------------------------------------------
(* Operands and locals *)

LEMMA AddWord ==
  ASSUME NEW x \in Nat, NEW y \in Nat
  PROVE  Add(x, y) \in Word
<1> DEFINE n == 2^Width
           s == x + y
<1>1. n \in Nat /\ n > 0
  BY Powers, ConstantsAssumption
<1>2. s \in Int
  OBVIOUS
<1>3. Add(x, y) = s % n /\ Value = 0..n - 1
  BY DEF Add, Value
<1> HIDE DEF n, s
<1>4. PICK q \in Int, r \in Int :
        s = n * q + r /\ 0 <= r /\ r < n /\ s % n = r
  BY <1>1, <1>2, Remainder
<1>5. r \in 0..n - 1
  BY <1>1, <1>4
<1> QED
  BY <1>3, <1>4, <1>5 DEF Word

(* Data instructions leave the machine inside, at the same instruction.    *)
LEMMA DataInside ==
  ASSUME NEW c, Before(c)
  PROVE  LET Good(m) == Inside(prog, c, m) /\ m.pc = d.pc IN
         /\ Good(Pop(d))
         /\ \A v \in Word : Good(Push(d, v))
         /\ Good(Select(d)) /\ Good(AddOp(d))
         /\ \A i \in Nat : /\ Good(LocalGet(d, i)) /\ Good(LocalSet(d, i))
                           /\ Good(LocalTee(d, i))
<1> DEFINE Good(m) == Inside(prog, c, m) /\ m.pc = d.pc
           m1 == Pop(d)
           m2 == Pop(Pop(d))
<1>0. prog \in Programs /\ Good(d)
  BY DEF Before
<1>1. ASSUME NEW m, Good(m)
      PROVE  /\ Good(Pop(m)) /\ m.sp \in Slot /\ m.stack \in [Slot -> Word]
             /\ \A v \in Word : Good(Push(m, v))
             /\ \A i \in Slot : \A v \in Word :
                  Good([m EXCEPT !.stack[i] = v])
  <2>1. Inside(prog, c, m) /\ m.pc = d.pc
    BY <1>1
  <2>2. Good(Pop(m)) /\ m.sp \in Slot /\ m.stack \in [Slot -> Word]
    BY <1>0, <2>1, PopInside, MachineFields DEF Inside, Sized
  <2>3. ASSUME NEW v \in Word PROVE Good(Push(m, v))
    BY <1>0, <2>1, PushInside
  <2>4. ASSUME NEW i \in Slot, NEW v \in Word
        PROVE  Good([m EXCEPT !.stack[i] = v])
    BY <1>0, <2>1, StoreInside
  <2> QED
    BY <2>2, <2>3, <2>4
<1>2. /\ Top(d) \in Word /\ Top(d) \in Nat
      /\ \A n \in Int : Below(d, n) \in Word
      /\ \A i \in Nat : Local(d, i) \in Slot /\ d.stack[Local(d, i)] \in Word
  BY <1>0, Reads DEF Inside
<1> HIDE DEF Good
<1>3. Good(m1) /\ Good(m2)
  BY <1>0, <1>1
<1>4. Good(Select(d))
  <2>1. /\ m2.sp \in Slot /\ Below(d, 1) \in Word
    BY <1>1, <1>2, <1>3
  <2>2. Good([m2 EXCEPT !.stack[m2.sp] = Below(d, 1)])
    BY <1>1, <1>3, <2>1
  <2>3. Select(d) = IF Top(d) # 0 THEN m2
                    ELSE [m2 EXCEPT !.stack[m2.sp] = Below(d, 1)]
    BY DEF Select
  <2> QED
    BY <1>3, <2>2, <2>3
<1>5. Good(AddOp(d))
  <2>1. Top(m1) \in Nat
    <3>1. Inside(prog, c, m1)
      BY <1>3 DEF Good
    <3> QED
      BY <1>0, <3>1, Reads DEF Inside
  <2>2. m1.sp \in Slot /\ Add(Top(m1), Top(d)) \in Word
    BY <1>1, <1>2, <1>3, <2>1, AddWord
  <2>3. AddOp(d) = [m1 EXCEPT !.stack[m1.sp] = Add(Top(m1), Top(d))]
    BY DEF AddOp
  <2> HIDE DEF m1
  <2> QED
    BY <1>1, <1>3, <2>2, <2>3
<1>6. ASSUME NEW i \in Nat
      PROVE  Good(LocalGet(d, i)) /\ Good(LocalSet(d, i)) /\ Good(LocalTee(d, i))
  <2> DEFINE l == Local(d, i)
  <2>1. l \in Slot /\ d.stack[l] \in Word
    BY <1>2
  <2>2. /\ LocalGet(d, i) = Push(d, d.stack[l])
        /\ LocalSet(d, i) = [m1 EXCEPT !.stack[l] = Top(d)]
        /\ LocalTee(d, i) = [d EXCEPT !.stack[l] = Top(d)]
    BY DEF LocalGet, LocalSet, LocalTee
  <2> HIDE DEF l, m1
  <2> QED
    BY <1>0, <1>1, <1>2, <1>3, <2>1, <2>2
<1>7. /\ Good(Pop(d)) /\ \A v \in Word : Good(Push(d, v))
  BY <1>0, <1>1
<1> QED
  BY <1>4, <1>5, <1>6, <1>7 DEF Good

-----------------------------------------------------------------------------
(* Every instruction *)

LEMMA StepKept ==
  ASSUME IInv, Step
  PROVE  Kept(prog, call, d')
<1> DEFINE op == Op(prog, d.pc)
           imm == Imm(prog, d.pc)
<1>0. prog \in Programs /\ HostCall(prog, call) /\ Kept(prog, call, d)
  BY DEF IInv
<1>1. d.result = "ticking"
  BY DEF Step, At, Ticking, Unreachable, Nop, BlockStep, LoopStep, IfStep,
         ElseStep, EndStep, BrStep, BrIfStep, BrTableStep, ReturnStep,
         CallStep, CallIndirectStep, DropStep, SelectStep, LocalGetStep,
         LocalSetStep, LocalTeeStep, ConstStep, AddStep
<1>2. Before(call)
  <2>1. Inside(prog, call, d) /\ d.pc < Nof(prog)
    BY <1>0, <1>1 DEF Kept, Inside
  <2>2. d.pc \in Nat /\ Nof(prog) \in Nat
    BY <1>0, <2>1, MachineFields, ProgramFacts DEF Inside, Sized
  <2> QED
    BY <1>0, <2>1, <2>2 DEF Before, Addresses
<1>3. /\ op \in Openers => imm \in Int
      /\ op = "const" => imm \in Value
      /\ op \in {"local.get", "local.set", "local.tee", "br", "br_if"} =>
           imm \in Nat
      /\ op = "br_table" => /\ Len(imm) \in Nat \ {0}
                            /\ \A i \in 1..Len(imm) : imm[i] \in Nat
      /\ op = "call" => imm \in Functions(prog)
  <2>1. CodeFits(prog) /\ d.pc \in Addresses(prog)
    BY <1>0, <1>2, ProgramsAssumption DEF Before
  <2> QED
    BY <2>1 DEF CodeFits
<1>4. op # "end" => d.pc < Nof(prog) - 1
  BY <1>2, NotLast DEF Before, Addresses
<1>5. Inside(prog, call, Next1(d))
  BY <1>2, Next1Inside DEF Before
<1> HIDE DEF op, imm
<1>6. CASE Unreachable
  <2>1. d' = Raise(Next1(d), "OP_CODE_ZERO")
    BY <1>6 DEF Unreachable, Becomes
  <2> QED
    BY <1>0, <1>5, <2>1, FailKept, ErrorNames
<1>7. CASE Nop
  <2>1. d' = Leave(Next1(d), {}) /\ op = "nop"
    BY <1>7 DEF Nop, Becomes, At, op
  <2>2. Next1(d).pc < Nof(prog)
    <3>1. Next1(d).pc = d.pc + 1 /\ d.pc < Nof(prog) - 1
      BY <1>2, <1>4, <2>1, Next1Inside DEF Before
    <3> QED
      BY <1>2, <3>1, ProgramFacts DEF Before
  <2> QED
    BY <1>0, <1>5, <2>1, <2>2, LeaveKept
<1>8. CASE BlockStep
  <2>1. d' = OpenBlock(d, imm) /\ op = "block"
    BY <1>8 DEF BlockStep, Becomes, At, Imm0, op, imm
  <2> QED
    BY <1>2, <1>3, <2>1, OpenBlockKept DEF Openers, op
<1>9. CASE LoopStep
  <2>1. d' = OpenLoop(d, imm) /\ op = "loop"
    BY <1>9 DEF LoopStep, Becomes, At, Imm0, op, imm
  <2> QED
    BY <1>2, <1>3, <2>1, OpenLoopKept DEF Openers
<1>10. CASE IfStep
  <2>1. d' = OpenIf(d, imm) /\ op = "if"
    BY <1>10 DEF IfStep, Becomes, At, Imm0, op, imm
  <2> QED
    BY <1>2, <1>3, <2>1, OpenIfKept DEF Openers, op
<1>11. CASE ElseStep
  BY <1>2, <1>11, ElseKept DEF ElseStep, Becomes
<1>12. CASE EndStep
  BY <1>0, <1>2, <1>12, EndKept DEF EndStep, Becomes
<1>13. CASE BrStep
  <2>1. d' = Br(d, imm) /\ op = "br"
    BY <1>13 DEF BrStep, Becomes, At, Imm0, op, imm
  <2> QED
    BY <1>2, <1>3, <2>1, BrKept
<1>14. CASE BrIfStep
  <2>1. d' = BrIf(d, imm) /\ op = "br_if"
    BY <1>14 DEF BrIfStep, Becomes, At, Imm0, op, imm
  <2> QED
    BY <1>2, <1>3, <2>1, BrIfKept
<1>15. CASE BrTableStep
  <2>1. d' = BrTable(d, imm) /\ op = "br_table"
    BY <1>15 DEF BrTableStep, Becomes, At, Imm0, op, imm
  <2> QED
    BY <1>2, <1>3, <2>1, BrTableKept
<1>16. CASE ReturnStep
  BY <1>2, <1>16, ReturnKept DEF ReturnStep, Becomes
<1>17. CASE CallStep
  <2>1. d' = CallOp(d, imm) /\ op = "call"
    BY <1>17 DEF CallStep, Becomes, At, Imm0, op, imm
  <2> QED
    BY <1>2, <1>3, <2>1, CallKept
<1>18. CASE CallIndirectStep
  BY <1>2, <1>18, CallIndirectKept DEF CallIndirectStep, Becomes
<1>19. ASSUME NEW m, Inside(prog, call, m), m.pc = d.pc, op # "end"
       PROVE  Kept(prog, call, Next1(m))
  BY <1>0, <1>4, <1>19, UnmeteredKept
<1>20. /\ Inside(prog, call, Pop(d)) /\ Pop(d).pc = d.pc
       /\ Inside(prog, call, Select(d)) /\ Select(d).pc = d.pc
       /\ Inside(prog, call, AddOp(d)) /\ AddOp(d).pc = d.pc
       /\ \A v \in Word :
            Inside(prog, call, Push(d, v)) /\ Push(d, v).pc = d.pc
       /\ \A i \in Nat :
            /\ Inside(prog, call, LocalGet(d, i)) /\ LocalGet(d, i).pc = d.pc
            /\ Inside(prog, call, LocalSet(d, i)) /\ LocalSet(d, i).pc = d.pc
            /\ Inside(prog, call, LocalTee(d, i)) /\ LocalTee(d, i).pc = d.pc
  BY <1>2, DataInside
<1>21. CASE DropStep
  <2>1. d' = Next1(Pop(d)) /\ op = "drop"
    BY <1>21 DEF DropStep, Becomes, At, op
  <2> QED
    BY <1>19, <1>20, <2>1
<1>22. CASE SelectStep
  <2>1. d' = Next1(Select(d)) /\ op = "select"
    BY <1>22 DEF SelectStep, Becomes, At, op
  <2> QED
    BY <1>19, <1>20, <2>1
<1>23. CASE LocalGetStep
  <2>1. d' = Next1(LocalGet(d, imm)) /\ op = "local.get"
    BY <1>23 DEF LocalGetStep, Becomes, At, Imm0, op, imm
  <2> QED
    BY <1>3, <1>19, <1>20, <2>1
<1>24. CASE LocalSetStep
  <2>1. d' = Next1(LocalSet(d, imm)) /\ op = "local.set"
    BY <1>24 DEF LocalSetStep, Becomes, At, Imm0, op, imm
  <2> QED
    BY <1>3, <1>19, <1>20, <2>1
<1>25. CASE LocalTeeStep
  <2>1. d' = Next1(LocalTee(d, imm)) /\ op = "local.tee"
    BY <1>25 DEF LocalTeeStep, Becomes, At, Imm0, op, imm
  <2> QED
    BY <1>3, <1>19, <1>20, <2>1
<1>26. CASE ConstStep
  <2>1. d' = Next1(Push(d, imm)) /\ op = "const"
    BY <1>26 DEF ConstStep, Becomes, At, Imm0, op, imm
  <2>2. imm \in Word
    BY <1>3, <2>1 DEF Word
  <2> QED
    BY <1>19, <1>20, <2>1, <2>2
<1>27. CASE AddStep
  <2>1. d' = Next1(AddOp(d)) /\ op = "add"
    BY <1>27 DEF AddStep, Becomes, At, op
  <2> QED
    BY <1>19, <1>20, <2>1
<1> QED
  BY <1>6, <1>7, <1>8, <1>9, <1>10, <1>11, <1>12, <1>13, <1>14, <1>15, <1>16,
     <1>17, <1>18, <1>21, <1>22, <1>23, <1>24, <1>25, <1>26, <1>27 DEF Step

-----------------------------------------------------------------------------
(* The host *)

(* The arguments are pushed one by one. *)
Pushes(m, args) ==
  LET pushed[i \in 0..Len(args)] ==
        IF i = 0 THEN m ELSE Push(pushed[i - 1], args[i])
  IN pushed

(* A machine that differs from m in its operands only *)
Likes(p, m) ==
  {k \in Machines(p) :
     /\ k.pc = m.pc /\ k.fp = m.fp /\ k.blocks = m.blocks /\ k.gas = m.gas
     /\ k.exception = m.exception /\ k.result = m.result}

LEMMA PushLikes ==
  ASSUME NEW p \in Programs, NEW m, NEW k \in Likes(p, m), NEW v \in Word
  PROVE  Push(k, v) \in Likes(p, m) /\ Push(k, v).sp = Wrap(k.sp + 1)
<1> DEFINE i == Wrap(k.sp + 1)
           s == [k.stack EXCEPT ![i] = v]
           g == [k EXCEPT !.sp = i, !.stack = s]
<1>1. /\ k \in Machines(p) /\ k.pc = m.pc /\ k.fp = m.fp
      /\ k.blocks = m.blocks /\ k.gas = m.gas
      /\ k.exception = m.exception /\ k.result = m.result
  BY DEF Likes
<1>2. k.sp + 1 \in Int /\ k.stack \in [Slot -> Word]
  BY <1>1, MachineFields
<1>3. i \in Slot
  BY <1>2, WrapSlot
<1>4. s \in [Slot -> Word]
  BY <1>2, <1>3
<1>5. Push(k, v) = g
  BY DEF Push
<1> HIDE DEF i, s
<1>6. /\ g.pc = k.pc /\ g.fp = k.fp /\ g.blocks = k.blocks /\ g.gas = k.gas
      /\ g.exception = k.exception /\ g.result = k.result /\ g.sp = i
  BY <1>1 DEF Machines
<1>7. g \in Machines(p)
  BY <1>1, <1>3, <1>4 DEF Machines
<1> HIDE DEF g
<1>8. g \in Likes(p, m)
  BY <1>1, <1>6, <1>7 DEF Likes
<1> QED
  BY <1>5, <1>6, <1>8 DEF i

LEMMA PushAllDoes ==
  ASSUME NEW p \in Programs, NEW m \in Machines(p), NEW n \in Nat,
         NEW args \in [1..n -> Value]
  PROVE  /\ PushAll(m, args) \in Likes(p, m)
         /\ PushAll(m, args).sp = Wrap(m.sp + n)
         /\ Len(args) = n
<1> DEFINE V == Likes(p, m)
           F == [i \in 1..n |-> [k \in V |-> Push(k, args[i])]]
           Eq(g) == g = [i \in 0..n |->
                           IF i = 0 THEN m ELSE Push(g[i - 1], args[i])]
           w == Pushes(m, args)
<1>0. Len(args) = n
  OBVIOUS
<1>1. m \in V
  BY DEF Likes
<1>2. ASSUME NEW i \in 1..n, NEW k \in V
      PROVE  Push(k, args[i]) \in V /\ Push(k, args[i]).sp = Wrap(k.sp + 1)
  <2>1. args[i] \in Word
    BY DEF Word
  <2> QED
    BY <2>1, PushLikes
<1>3. w = CHOOSE g : Eq(g)
  BY <1>0 DEF Pushes
<1> HIDE DEF V
<1>4. /\ Steps(F, n, V)
      /\ \A i \in 1..n : \A k \in V : F[i][k] = Push(k, args[i])
  BY <1>2 DEF Steps
<1>5. PICK g : Runs(g, m, F, n, V)
  <2> HIDE DEF F
  <2> QED
    BY <1>1, <1>4, Recursion
<1>6. Eq(g)
  <2> HIDE DEF F
  <2>1. ASSUME NEW i \in 0..n
        PROVE  g[i] = IF i = 0 THEN m ELSE Push(g[i - 1], args[i])
    <3>1. CASE i = 0
      BY <3>1, <1>5 DEF Runs
    <3>2. CASE i # 0
      <4>1. i \in 1..n /\ i - 1 \in 0..n
        BY <3>2
      <4>2. g[i] = F[i][g[i - 1]] /\ g[i - 1] \in V
        BY <4>1, <1>5 DEF Runs
      <4> QED
        BY <3>2, <4>1, <4>2, <1>4
    <3> QED
      BY <3>1, <3>2
  <2>2. g = [i \in 0..n |-> g[i]]
    BY <1>5 DEF Runs
  <2> QED
    BY <2>1, <2>2
<1>7. Eq(w)
  BY <1>3, <1>6
<1> HIDE DEF w, F
<1>8. w[0] = m
  BY <1>7
<1>9. ASSUME NEW i \in 1..n
      PROVE  w[i] = Push(w[i - 1], args[i])
  <2>1. i \in 0..n /\ i # 0
    OBVIOUS
  <2> QED
    BY <2>1, <1>7
<1>10. \A i \in 0..n : w[i] \in V
  <2>1. \A i \in 1..n : w[i - 1] \in V => w[i] \in V
    BY <1>2, <1>9
  <2> QED
    BY <1>1, <1>8, <2>1, LoopKeeps
<1>11. \A i \in 0..n : w[i].sp = Wrap(m.sp + i)
  <2> DEFINE S == {i \in 0..n : w[i].sp = Wrap(m.sp + i)}
  <2>1. m.sp \in Slot /\ m.sp \in Int /\ m.sp + 0 = m.sp
    BY MachineFields
  <2>2. 0 \in S
    BY <1>8, <2>1, WrapId
  <2>3. ASSUME NEW i \in 0..(n - 1), i \in S
        PROVE  i + 1 \in S
    <3>1. i + 1 \in 1..n /\ i + 1 - 1 = i /\ i \in 0..n
      OBVIOUS
    <3>2. w[i + 1] = Push(w[i], args[i + 1]) /\ w[i] \in V
      BY <1>9, <1>10, <3>1
    <3>3. w[i + 1].sp = Wrap(w[i].sp + 1)
      BY <1>2, <3>1, <3>2
    <3>4. w[i].sp = Wrap(m.sp + i)
      BY <2>3
    <3>5. Wrap(Wrap(m.sp + i) + 1) = Wrap(m.sp + i + 1)
      <4>1. m.sp + i \in Int /\ 1 \in Int
        BY <2>1
      <4> QED
        BY <4>1, WrapAdd
    <3>6. m.sp + i + 1 = m.sp + (i + 1)
      BY <2>1
    <3>7. w[i + 1].sp = Wrap(m.sp + (i + 1))
      BY <3>3, <3>4, <3>5, <3>6
    <3> QED
      BY <3>1, <3>7
  <2> HIDE DEF S
  <2>4. 0..n \subseteq S
    BY <2>2, <2>3, UpTo
  <2> QED
    BY <2>4 DEF S
<1>12. PushAll(m, args) = w[n]
  BY <1>0 DEF PushAll, Pushes, w
<1> QED
  BY <1>0, <1>10, <1>11, <1>12 DEF V

(* dwac_tick up to its loop *)
LEMMA EnterTickKept ==
  ASSUME prog \in Programs, NEW c, NEW m, Sized(prog, m), Held(prog, c, m),
         NEW budget \in Budgets
  PROVE  Kept(prog, c, EnterTick(m, budget))
<1>1. /\ budget \in Nat /\ budget > 0 /\ m \in Machines(prog)
      /\ m.pc \in Nat /\ Nof(prog) \in Nat
  BY Constants, MachineFields, ProgramFacts DEF Sized
<1>2. /\ Kept(prog, c, Give(m, "STACK_OVERFLOW"))
      /\ Kept(prog, c, Give(m, "PC_ADDR"))
      /\ Kept(prog, c, Give(m, "EXCEPTION"))
  BY GiveBroken, BrokenKept, ErrorNames
<1>3. CASE ~Overflown(m) /\ ~(m.pc >= Nof(prog)) /\ ~m.exception
  <2> DEFINE k == [m EXCEPT !.gas = budget, !.result = "ticking"]
  <2>1. EnterTick(m, budget) = k
    BY <1>3 DEF EnterTick
  <2>2. /\ k.gas = budget /\ k.result = "ticking" /\ k.pc = m.pc
        /\ k.blocks = m.blocks
    BY <1>1 DEF Machines
  <2>3. Sized(prog, k)
    <3>1. "ticking" \in Results0
      BY DEF Results0
    <3> QED
      BY <1>1, <3>1 DEF Sized, Machines
  <2> HIDE DEF k
  <2>4. Held(prog, c, k)
    BY <2>2 DEF Held
  <2>5. k.pc < Nof(prog)
    BY <1>1, <1>3, <2>2
  <2> QED
    BY <1>1, <2>1, <2>2, <2>3, <2>4, <2>5 DEF Kept
<1> QED
  BY <1>2, <1>3 DEF EnterTick

LEMMA HostKept ==
  ASSUME IInv, Host
  PROVE  /\ Kept(prog, call', d') /\ HostCall(prog, call')
         /\ prog' = prog /\ calls' \in 0..MaxCalls
<1>0. /\ prog \in Programs /\ HostCall(prog, call) /\ Kept(prog, call, d)
      /\ calls \in 0..MaxCalls /\ MaxCalls \in Nat
  BY Constants DEF IInv
<1>1. /\ d \in Machines(prog) /\ Sized(prog, d)
      /\ d.sp \in Slot /\ d.fp \in Slot /\ d.sp \in Int
  BY <1>0, MachineFields DEF Kept, Sized
<1>2. CASE Resume
  <2>1. PICK budget \in Budgets : Becomes(EnterTick(d, budget))
    BY <1>2 DEF Resume
  <2>2. Held(prog, call, d)
    BY <1>0, <1>2 DEF Resume, Kept
  <2>3. Kept(prog, call, EnterTick(d, budget))
    BY <1>0, <1>1, <2>2, EnterTickKept
  <2> QED
    BY <1>0, <2>1, <2>3 DEF Becomes
<1>3. CASE TakeResults
  <2> DEFINE s == Wrap(d.sp - Results(d))
             k == [d EXCEPT !.sp = s, !.result = "idle"]
  <2>1. s \in Slot
    <3>1. Results(d) \in Nat
      BY <1>0, FunctionFacts, TypeFacts DEF Results, HostCall
    <3>2. d.sp - Results(d) \in Int
      BY <1>1, <3>1
    <3> QED
      BY <3>2, WrapSlot
  <2>2. d' = k /\ d.result = "OK" /\ UNCHANGED <<prog, call, calls>>
    BY <1>3 DEF TakeResults, Becomes
  <2> HIDE DEF s
  <2>3. d.blocks = <<>>
    BY <1>0, <2>2 DEF Kept, Returned
  <2>4. k.blocks = d.blocks /\ k.result = "idle"
    BY <1>1 DEF Machines
  <2>5. Sized(prog, k)
    <3>1. "idle" \in Results0
      BY DEF Results0
    <3> QED
      BY <1>1, <2>1, <3>1 DEF Sized, Machines
  <2>6. Kept(prog, call, k)
    BY <2>3, <2>4, <2>5 DEF Kept
  <2> QED
    BY <1>0, <2>2, <2>6
<1>4. CASE Recover
  <2> DEFINE k == [d EXCEPT !.blocks = <<>>, !.exception = FALSE,
                            !.result = "idle"]
  <2>1. d' = k /\ UNCHANGED <<prog, call, calls>>
    BY <1>4 DEF Recover, Becomes
  <2>2. k.blocks = <<>> /\ k.result = "idle"
    BY <1>1 DEF Machines
  <2>3. Sized(prog, k)
    <3>1. "idle" \in Results0
      BY DEF Results0
    <3>2. /\ <<>> \in Seq(Entries(prog)) /\ Len(<<>>) = 0
          /\ 0 <= MaxBlocks
      BY EmptySeq, Constants
    <3>3. k \in Machines(prog)
      BY <1>1, <3>1, <3>2 DEF Machines
    <3> QED
      BY <2>2, <3>2, <3>3 DEF Sized
  <2>4. Kept(prog, call, k)
    BY <2>2, <2>3 DEF Kept
  <2> QED
    BY <1>0, <2>1, <2>4
<1>5. ASSUME NEW args \in [1..FuncType(prog,
                             FuncTypeIdx(prog, prog.exported)).params
                             -> Value],
             Call(prog.exported, args)
      PROVE  /\ Kept(prog, call', d') /\ HostCall(prog, call')
             /\ prog' = prog /\ calls' \in 0..MaxCalls
  <2> DEFINE f == prog.exported
             n == FuncType(prog, FuncTypeIdx(prog, f)).params
             m == PushAll(d, args)
             k == SetupFunctionCall(m, f)
             c == [func |-> f, args |-> args, sp |-> d.sp, fp |-> d.fp]
             base == Wrap(m.sp - n)
             b == FuncEntry(m, f, base)
  <2>1. f \in Functions(prog) /\ n \in Nat
    BY <1>0, ProgramFacts, FunctionFacts, TypeFacts
  <2>2. /\ d.result = "idle" /\ calls < MaxCalls
        /\ \E budget \in Budgets :
             d' = IF Failed(k) THEN k ELSE EnterTick(k, budget)
        /\ call' = c /\ calls' = calls + 1 /\ prog' = prog
    BY <1>5 DEF Call
  <2>3. d.blocks = <<>>
    BY <1>0, <2>2 DEF Kept
  <2>4. m \in Likes(prog, d) /\ m.sp = Wrap(d.sp + n)
    <3> HIDE DEF n, m
    <3>1. args \in [1..n -> Value]
      BY DEF n
    <3> QED
      BY <1>0, <1>1, <2>1, <3>1, PushAllDoes DEF m
  <2> HIDE DEF m
  <2>5. base = d.sp
    <3>1. -n \in Int /\ d.sp + n \in Int
      BY <1>1, <2>1
    <3>2. Wrap(Wrap(d.sp + n) + (-n)) = Wrap(d.sp + n + (-n))
      BY <3>1, WrapAdd
    <3>3. d.sp + n + (-n) = d.sp /\ m.sp - n = m.sp + (-n)
      <4>1. m.sp \in Int
        BY <2>4, <3>1, WrapSlot DEF Slot
      <4> QED
        BY <1>1, <2>1, <4>1
    <3> QED
      BY <1>1, <2>4, <3>2, <3>3, WrapId
  <2>6. /\ m \in Machines(prog) /\ m.blocks = <<>> /\ m.fp = d.fp
        /\ m.result = "idle" /\ m.result \notin Errors
    BY <2>2, <2>3, <2>4 DEF Likes, Errors
  <2>7. Sized(prog, m)
    <3>1. Len(m.blocks) <= MaxBlocks
      BY <1>1, <2>3, <2>6 DEF Sized
    <3> QED
      BY <2>6, <3>1 DEF Sized
  <2>8. \/ Broken(prog, k)
        \/ /\ Sized(prog, k) /\ ~IsImported(prog, f) /\ base \in Slot
           /\ k.blocks = Append(m.blocks, b)
           /\ k.result = m.result
    BY <1>0, <2>1, <2>6, <2>7, SetupDoes
  <2>9. HostCall(prog, c)
    BY <1>1, <2>1 DEF HostCall
  <2> HIDE DEF k, n
  <2>10. Kept(prog, c, d')
    <3>1. CASE Broken(prog, k)
      <4>1. Failed(k)
        BY <3>1 DEF Broken, Failed, Errors
      <4>2. d' = k
        BY <2>2, <4>1
      <4> QED
        BY <1>0, <3>1, <4>2, BrokenKept
    <3>2. CASE ~Broken(prog, k)
      <4>1. /\ Sized(prog, k) /\ k.blocks = Append(<<>>, b)
            /\ k.result = "idle"
        BY <2>6, <2>8, <3>2
      <4>2. /\ b \in Entries(prog) /\ Proper(prog, b)
            /\ b.kind = "func" /\ b.type = FuncTypeIdx(prog, f)
            /\ b.stack_pointer = base /\ b.frame_pointer = m.fp
        BY <1>0, <2>1, <2>7, <2>8, <3>2, FuncEntryFacts
      <4> HIDE DEF b, base
      <4>3. /\ k.blocks # <<>> /\ Len(k.blocks) = 1 /\ k.blocks[1] = b
        <5>1. <<>> \in Seq(Entries(prog)) /\ Len(<<>>) = 0
          BY EmptySeq
        <5> QED
          BY <4>1, <4>2, <5>1, AppendProperties
      <4>4. Bottom(prog, c, b)
        BY <2>5, <2>6, <4>2 DEF Bottom
      <4>5. Held(prog, c, k)
        BY <4>2, <4>3, <4>4 DEF Held
      <4>6. ~Failed(k)
        BY <4>1 DEF Failed
      <4> HIDE DEF c
      <4>7. PICK budget \in Budgets : d' = EnterTick(k, budget)
        BY <2>2, <4>6
      <4> QED
        BY <1>0, <4>1, <4>5, <4>7, EnterTickKept
    <3> QED
      BY <3>1, <3>2
  <2> HIDE DEF c
  <2> QED
    BY <1>0, <2>2, <2>9, <2>10
<1> QED
  BY <1>2, <1>3, <1>4, <1>5 DEF Host

-----------------------------------------------------------------------------
(* The invariant *)

LEMMA InitIInv == Init => IInv
<1> SUFFICES ASSUME Init PROVE IInv
  OBVIOUS
<1> DEFINE s == [x \in Slot |-> IF x = Sentinel THEN Magic ELSE 0]
<1>1. /\ prog \in Programs /\ calls = 0
      /\ d = [pc |-> 0, sp |-> SpInitial, fp |-> 0, stack |-> s,
              blocks |-> <<>>, gas |-> 0, exception |-> FALSE,
              result |-> "idle"]
      /\ call = [func |-> 0, args |-> <<>>, sp |-> SpInitial, fp |-> 0]
  BY DEF Init
<1>2. s \in [Slot -> Word]
  BY Constants
<1> HIDE DEF s
<1>3. /\ SpInitial \in Slot /\ 0 \in Slot /\ MaxBlocks \in Nat
      /\ MaxCalls \in Nat /\ 0 \in 0..Nof(prog)
  BY <1>1, Constants, ProgramFacts DEF SpInitial, Sentinel
<1>4. 0 \in Functions(prog)
  <2>1. prog.exported \in Functions(prog) /\ TotalNof(prog) \in Nat
    BY <1>1, ProgramFacts
  <2> QED
    BY <2>1 DEF Functions
<1>5. <<>> \in Seq(Entries(prog)) /\ Len(<<>>) = 0
  BY EmptySeq
<1>6. d \in Machines(prog)
  BY <1>1, <1>2, <1>3, <1>5 DEF Machines, Results0
<1>7. d.blocks = <<>> /\ d.result = "idle"
  BY <1>1
<1>8. Kept(prog, call, d)
  BY <1>3, <1>5, <1>6, <1>7 DEF Kept, Sized
<1>9. HostCall(prog, call)
  BY <1>1, <1>3, <1>4 DEF HostCall
<1> QED
  BY <1>1, <1>3, <1>8, <1>9 DEF IInv

LEMMA NextIInv == IInv /\ [Next]_vars => IInv'
<1> SUFFICES ASSUME IInv, [Next]_vars PROVE IInv'
  OBVIOUS
<1>1. CASE Step
  <2>1. Kept(prog, call, d')
    BY <1>1, StepKept
  <2>2. UNCHANGED <<prog, call, calls>>
    BY <1>1
    DEF Step, Becomes, Unreachable, Nop, BlockStep, LoopStep, IfStep,
        ElseStep, EndStep, BrStep, BrIfStep, BrTableStep, ReturnStep,
        CallStep, CallIndirectStep, DropStep, SelectStep, LocalGetStep,
        LocalSetStep, LocalTeeStep, ConstStep, AddStep
  <2> QED
    BY <2>1, <2>2 DEF IInv
<1>2. CASE Host
  <2>1. /\ Kept(prog, call', d') /\ HostCall(prog, call')
        /\ prog' = prog /\ calls' \in 0..MaxCalls
    BY <1>2, HostKept
  <2> QED
    BY <2>1 DEF IInv
<1>3. CASE UNCHANGED vars
  BY <1>3 DEF vars, IInv
<1> QED
  BY <1>1, <1>2, <1>3 DEF Next

LEMMA Inductive == Spec => []IInv
BY InitIInv, NextIInv, PTL DEF Spec

(* Every register keeps its width and every address it goes to is in the  *)
(* program, the block stack keeps to its memory and names only blocks that *)
(* exist, and dwac_tick never works without gas, whatever valid program    *)
(* runs and wherever the gas ends.                                         *)
THEOREM TypeCorrect == Spec => []TypeOK
<1>1. IInv => TypeOK
  <2> SUFFICES ASSUME IInv PROVE TypeOK
    OBVIOUS
  <2>1. /\ prog \in Programs /\ Kept(prog, call, d) /\ Sized(prog, d)
        /\ calls \in 0..MaxCalls
    BY DEF IInv, Kept
  <2>2. d \in Machines(prog) /\ Len(d.blocks) <= MaxBlocks
    BY <2>1 DEF Sized
  <2>3. /\ d.sp \in Slot /\ d.fp \in Slot /\ d.stack \in [Slot -> Word]
        /\ d.gas \in Nat /\ d.exception \in BOOLEAN
        /\ d.result \in Results0
        /\ \A i \in 1..Len(d.blocks) : d.blocks[i] \in Entries(prog)
    BY <2>1, <2>2, MachineFields
  <2>4. d.pc \in 0..Nof(prog)
    BY <2>2 DEF Machines
  <2>5. Ticking(d) => d.gas > 0
    BY <2>1 DEF Kept, Ticking
  <2>6. ASSUME NEW i \in 1..Len(d.blocks)
        PROVE  /\ d.blocks[i].kind \in Kinds
               /\ d.blocks[i].stack_pointer \in Slot
               /\ d.blocks[i].addr \in 0..Nof(prog)
    BY <2>1, <2>3, EntryFields
  <2> QED
    BY <2>1, <2>2, <2>3, <2>4, <2>5, <2>6 DEF TypeOK, Word
<1> QED
  BY <1>1, Inductive, PTL

(* A call that dwac_tick reports as DWAC_OK has left nothing behind: the   *)
(* block stack is empty, the frame of the caller is back and the operand   *)
(* stack has given its arguments for its results, whatever branches,       *)
(* returns and calls, nested ones and those through the table, it took.    *)
THEOREM CallsBalance == Spec => []Balanced
<1>1. IInv => Balanced
  BY DEF IInv, Kept, Returned, Balanced, Results
<1> QED
  BY <1>1, Inductive, PTL
=============================================================================
