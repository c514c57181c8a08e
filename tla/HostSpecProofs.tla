--------------------------- MODULE HostSpecProofs ---------------------------
(***************************************************************************)
(* Theorems about the host functions as a specification, for every value   *)
(* of the constants.  HostCallsProofs says what each call makes of a well- *)
(* formed memory; here the calls are steps: they keep the type of the      *)
(* state, use good pointers only when their ranges were resident, and do   *)
(* what FlatHost promises on one flat array of bytes.                      *)
(***************************************************************************)
EXTENDS HostCallsProofs

(* The inductive invariant: that of the guest memory, and the type of what *)
(* a call leaves.                                                          *)
HostInv ==
  /\ IInv
  /\ fate \in Fates
  /\ sent \in Seq(Contents)
  /\ answer \in Nat \union {-1}

LEMMA HostInitInv ==
  ASSUME HostInit
  PROVE  HostInv
BY InitIInv DEF HostInit, HostInv, Fates

LEMMA ReadyMemory ==
  ASSUME HostInv, Ready
  PROVE  Good(mem) /\ Alive(mem) /\ Fits
BY DEF HostInv, Ready, Running, IInv, Fits, Good

(* A call as a step: either its memory becomes the memory, or the model    *)
(* ends and the content is what it was.                                    *)
LEMMA GiveStep ==
  ASSUME HostInv, NEW c \in Calls, NEW v \in Nat \union {-1}, Give(c, v)
  PROVE  /\ HostInv'
         /\ \/ c.fate # "fine" /\ FlatHosts!Lost
            \/ /\ c.fate = "fine" /\ pages' = pages
               /\ FlatHosts!Answering(View(c.mem), c.sent, v)
<1>1. /\ c.mem \in Memory /\ c.fate \in Fates /\ c.sent \in Seq(Contents)
      /\ c.fate = "fine" => Good(c.mem) /\ Alive(c.mem)
  BY CallFacts
<1>2. Ready
  BY DEF Give
<1>3. CASE c.fate = "fine"
  <2>1. /\ mem' = c.mem /\ sent' = c.sent /\ answer' = v
        /\ UNCHANGED <<pages, ret, fate>>
    BY <1>3 DEF Give
  <2>2. Good(mem') /\ Alive(mem')
    BY <2>1, <1>1, <1>3
  <2>3. IInv'
    BY <2>1, <2>2 DEF HostInv, IInv, MemSize, Alive, Good
  <2>4. HostInv'
    BY <2>1, <2>3, <1>1 DEF HostInv
  <2>5. Ready'
    BY <2>1, <2>2, <1>2 DEF Ready, Running, Good
  <2>6. View(mem)' = View(c.mem)
    BY <2>1 DEF View, InLower, InUpper, InArgs
  <2>7. FlatHosts!Answering(View(c.mem), c.sent, v)
    BY <2>1, <2>5, <2>6, <1>2 DEF FlatHosts!Answering
  <2> QED
    BY <2>1, <2>4, <2>7, <1>3
<1>4. CASE c.fate # "fine"
  <2>1. fate' = c.fate /\ UNCHANGED <<mem, pages, ret, sent, answer>>
    BY <1>4 DEF Give
  <2>2. HostInv'
    BY <2>1, <1>1 DEF HostInv, IInv, MemSize
  <2>3. FlatHosts!Lost
    BY <2>1, <1>2, <1>4 DEF FlatHosts!Lost, Ready
  <2> QED
    BY <2>2, <2>3, <1>4
<1> QED
  BY <1>3, <1>4

-----------------------------------------------------------------------------
(* The calls, one lemma each: the invariant is kept and the flat array is  *)
(* promised the same, or the model ends.                                   *)

LEMMA MemcpyStep ==
  ASSUME HostInv, NEW c \in Copies, CallMemcpy(c[1], c[2], c[3])
  PROVE  HostInv' /\ FlatHosts!HostNext
<1> DEFINE d == MemcpyBig(mem, c[1], c[2], c[3])
           s == [x \in Span(c[1], c[3]) |-> View(mem)[(x - c[1]) + c[2]]]
<1>1. /\ c[1] \in Nat /\ c[2] \in Nat /\ c[3] \in Nat
      /\ \A x \in Span(c[1], c[3]) : (x - c[1]) + c[2] \in Addr
  BY HostAssumption
<1>2. Ready /\ Give(d, 0)
  BY DEF CallMemcpy, Give
<1>3. /\ d \in Calls
      /\ d.fate = "fine" => View(d.mem) = Overwrite(View(mem), s) /\ d.sent = <<>>
  BY <1>1, <1>2, ReadyMemory, MemcpyDoes
<1> HIDE DEF d
<1>4. HostInv' /\ (\/ FlatHosts!Lost
                   \/ /\ d.fate = "fine" /\ pages' = pages
                      /\ FlatHosts!Answering(View(d.mem), d.sent, 0))
  <2>1. 0 \in Nat \union {-1}
    OBVIOUS
  <2> QED
    BY <2>1, <1>2, <1>3, GiveStep
<1>5. Overwrite(View(mem), s)
        = [x \in Addr |-> IF x \in FlatHosts!Span(c[1], c[3])
                            THEN View(mem)[(x - c[1]) + c[2]] ELSE View(mem)[x]]
  BY DEF Overwrite, FlatHosts!Span, Span
<1> HIDE DEF s
<1>6. CASE FlatHosts!Lost
  BY <1>4, <1>6 DEF FlatHosts!HostNext
<1>7. CASE d.fate = "fine" /\ pages' = pages
           /\ FlatHosts!Answering(View(d.mem), d.sent, 0)
  <2>1. FlatHosts!Memcpy(c[1], c[2], c[3])
    BY <1>3, <1>5, <1>7 DEF FlatHosts!Memcpy
  <2> QED
    BY <2>1, <1>4 DEF FlatHosts!HostNext
<1> QED
  BY <1>4, <1>6, <1>7

LEMMA SizesStep ==
  ASSUME WordsAreBytes, HostInv, NEW w \in SizeWords,
         CallArgsSizesGet(w[1], w[2])
  PROVE  HostInv' /\ FlatHosts!HostNext
<1> DEFINE d == ArgsSizesGet(mem, w[1], w[2])
           b == Overwrite(Overwrite(View(mem), Word(w[1], Len(Argv))),
                          Word(w[2], StringsSize))
<1>1. w[1] \in Nat /\ w[2] \in Nat
  BY HostAssumption
<1>2. Ready /\ Give(d, 0)
  BY DEF CallArgsSizesGet, Give
<1>3. /\ d \in Calls
      /\ d.fate = "fine" => View(d.mem) = b /\ d.sent = <<>>
  BY <1>1, <1>2, ReadyMemory, SizesDoes
<1> HIDE DEF d
<1>4. HostInv' /\ (\/ FlatHosts!Lost
                   \/ /\ d.fate = "fine" /\ pages' = pages
                      /\ FlatHosts!Answering(View(d.mem), d.sent, 0))
  <2>1. 0 \in Nat \union {-1}
    OBVIOUS
  <2> QED
    BY <2>1, <1>2, <1>3, GiveStep
<1>5. b = FlatHosts!With(FlatHosts!With(View(mem),
                           FlatHosts!Word(w[1], Len(Argv))),
                         FlatHosts!Word(w[2], FlatHosts!StringsSize))
  BY DEF FlatHosts!With, Overwrite, FlatHosts!Word, Word, FlatHosts!Span, Span,
         FlatHosts!PtrSize, PtrSize, FlatHosts!StringsSize, StringsSize,
         FlatHosts!Sizes, Sizes
<1> HIDE DEF b
<1>6. CASE FlatHosts!Lost
  BY <1>4, <1>6 DEF FlatHosts!HostNext
<1>7. CASE d.fate = "fine" /\ pages' = pages
           /\ FlatHosts!Answering(View(d.mem), d.sent, 0)
  <2>1. FlatHosts!ArgsSizesGet(w[1], w[2])
    BY <1>3, <1>5, <1>7 DEF FlatHosts!ArgsSizesGet
  <2> QED
    BY <2>1, <1>4 DEF FlatHosts!HostNext
<1> QED
  BY <1>4, <1>6, <1>7

(* Calls that only answer, or raise an exception. *)
LEMMA SilentStep ==
  ASSUME HostInv, NEW c, NEW m, Good(m), Alive(m), View(m) = View(mem),
         c = Begin(m) \/ c = Ended(Begin(m), "abort"),
         NEW v \in Nat \union {-1}, Give(c, v)
  PROVE  /\ HostInv'
         /\ \/ FlatHosts!Lost
            \/ FlatHosts!Answering(View(mem), <<>>, v) /\ pages' = pages
<1>1. /\ Begin(m) \in Calls /\ Begin(m).mem = m /\ Begin(m).sent = <<>>
      /\ Ended(Begin(m), "abort") \in Calls
      /\ Ended(Begin(m), "abort").fate = "abort"
  BY BeginCall, EndedCall DEF Fates
<1>2. c \in Calls /\ (c.fate = "fine" => c.mem = m /\ c.sent = <<>>)
  BY <1>1
<1>3. /\ HostInv'
      /\ \/ c.fate # "fine" /\ FlatHosts!Lost
         \/ /\ c.fate = "fine" /\ pages' = pages
            /\ FlatHosts!Answering(View(c.mem), c.sent, v)
  BY <1>2, GiveStep
<1>4. c.fate = "fine" => View(c.mem) = View(mem) /\ c.sent = <<>>
  BY <1>2
<1> QED
  BY <1>3, <1>4

LEMMA RaisedMemory ==
  ASSUME NEW m, Good(m), Alive(m)
  PROVE  LET e == [m EXCEPT !.exception = TRUE]
         IN Good(e) /\ Alive(e) /\ View(e) = View(m)
<1> DEFINE e == [m EXCEPT !.exception = TRUE]
<1>1. /\ e \in Memory /\ e.fault = m.fault
      /\ e.lowCap = m.lowCap /\ e.low = m.low
      /\ e.upBegin = m.upBegin /\ e.upEnd = m.upEnd /\ e.up = m.up
      /\ e.argSize = m.argSize /\ e.args = m.args
  BY DEF Good, Fit, Memory
<1> HIDE DEF e
<1>2. Good(e) /\ Alive(e) /\ View(e) = View(m)
  BY <1>1 DEF Good, Fit, Overrun, Alive, View, InLower, InUpper, InArgs
<1> QED
  BY <1>2 DEF e

LEMMA SilentSteps ==
  ASSUME HostInv,
         \/ \E v \in {answer, 0} : Raise(v)
         \/ \E fd \in Descriptors : CallFdClose(fd)
         \/ MemorySize
         \/ \E n \in Increments : MemoryGrow(n)
  PROVE  HostInv' /\ FlatHosts!HostNext
<1>1. Ready /\ Good(mem) /\ Alive(mem)
  BY ReadyMemory DEF Raise, CallFdClose, MemorySize, MemoryGrow, Give
<1>2. answer \in Nat \union {-1} /\ pages \in Nat
  BY DEF HostInv, IInv
<1>3. ASSUME NEW v \in {answer, 0}, Raise(v)
      PROVE  HostInv' /\ FlatHosts!HostNext
  <2> DEFINE e == [mem EXCEPT !.exception = TRUE]
  <2>1. Good(e) /\ Alive(e) /\ View(e) = View(mem)
    BY <1>1, RaisedMemory
  <2>2. Give(Begin(e), v) /\ v \in Nat \union {-1}
    BY <1>2, <1>3 DEF Raise
  <2> HIDE DEF e
  <2>3. HostInv' /\ (FlatHosts!Lost \/ FlatHosts!Silent(v))
    BY <2>1, <2>2, SilentStep DEF FlatHosts!Silent
  <2> QED
    BY <2>3 DEF FlatHosts!HostNext
<1>4. ASSUME NEW fd \in Descriptors, CallFdClose(fd)
      PROVE  HostInv' /\ FlatHosts!HostNext
  <2>1. HostInv' /\ (FlatHosts!Lost \/ FlatHosts!Silent(0))
    BY <1>1, <1>4, SilentStep DEF CallFdClose, FlatHosts!Silent
  <2> QED
    BY <2>1 DEF FlatHosts!HostNext
<1>5. ASSUME MemorySize
      PROVE  HostInv' /\ FlatHosts!HostNext
  <2>1. HostInv' /\ (FlatHosts!Lost \/ FlatHosts!MemorySize)
    BY <1>1, <1>2, <1>5, SilentStep DEF MemorySize, FlatHosts!MemorySize
  <2> QED
    BY <2>1 DEF FlatHosts!HostNext
<1>6. ASSUME NEW n \in Increments, MemoryGrow(n)
      PROVE  HostInv' /\ FlatHosts!HostNext
  <2>1. HostInv' /\ (FlatHosts!Lost \/ FlatHosts!MemoryGrow(n))
    BY <1>1, <1>2, <1>6, SilentStep DEF MemoryGrow, FlatHosts!MemoryGrow
  <2> QED
    BY <2>1 DEF FlatHosts!HostNext
<1> QED
  BY <1>3, <1>4, <1>5, <1>6

LEMMA GuestStoreStep ==
  ASSUME HostInv, NEW r \in Accesses, NEW c \in [Span(r[1], r[2]) -> Byte],
         GuestStore(r[1], r[2], c)
  PROVE  HostInv' /\ FlatHosts!HostNext
<1>1. /\ Ready /\ Store(r[1], r[2], c) /\ sent' = <<>>
      /\ UNCHANGED <<fate, answer>>
  BY DEF GuestStore
<1>2. /\ IInv' /\ ret' = ret
      /\ \/ ~Running'
         \/ Overrun(mem')
         \/ Running' /\ View(mem') = Overwrite(View(mem), c)
  BY <1>1, StoreStep DEF HostInv
<1>3. HostInv'
  BY <1>1, <1>2 DEF HostInv
<1>4. pages' = pages
  BY <1>1 DEF Store, Abort
<1>4a. View(mem)' = View(mem')
  BY DEF View, InLower, InUpper, InArgs
<1>5. CASE ~Running' \/ Overrun(mem')
  <2>1. FlatHosts!Lost
    BY <1>5 DEF FlatHosts!Lost, Ready
  <2> QED
    BY <2>1, <1>3 DEF FlatHosts!HostNext
<1>6. CASE /\ Running' /\ ~Overrun(mem')
           /\ View(mem') = Overwrite(View(mem), c)
  <2>1. FlatHosts!GuestStore(r[1], r[2], c)
    BY <1>1, <1>2, <1>4, <1>4a, <1>6
    DEF FlatHosts!GuestStore, FlatHosts!Store, Overwrite, Ready
  <2>2. c \in [FlatHosts!Span(r[1], r[2]) -> Byte]
    BY DEF FlatHosts!Span, Span
  <2> QED
    BY <2>1, <2>2, <1>3 DEF FlatHosts!HostNext
<1> QED
  BY <1>2, <1>5, <1>6

LEMMA ResizeStep ==
  ASSUME HostInv, NEW p \in PageCounts, CallResizeHeap(p)
  PROVE  HostInv' /\ FlatHosts!HostNext
<1>1. /\ Ready /\ ResizeHeap(p) /\ sent' = <<>> /\ answer' = pages' * PageSize
      /\ UNCHANGED fate
  BY DEF CallResizeHeap
<1>2. IInv' /\ UNCHANGED <<mem, ret>>
  BY <1>1, ResizeHeapStep DEF HostInv
<1>3. answer' \in Nat
  <2>1. MemSize' \in Nat
    BY <1>2 DEF IInv
  <2> QED
    BY <2>1, <1>1 DEF MemSize
<1>4. HostInv'
  BY <1>1, <1>2, <1>3 DEF HostInv
<1>5. FlatHosts!ResizeHeap(p)
  BY <1>1, <1>2 DEF ResizeHeap, FlatHosts!ResizeHeap, FlatHosts!Answering, Ready, Running
<1> QED
  BY <1>4, <1>5 DEF FlatHosts!HostNext

LEMMA HostClearsStep ==
  ASSUME HostInv, HostClears
  PROVE  HostInv' /\ FlatHosts!HostNext
<1>1. Ready /\ ClearException /\ sent' = <<>> /\ UNCHANGED <<fate, answer>>
  BY DEF HostClears
<1>2. IInv' /\ Keeps(mem, mem') /\ ret' = ret /\ Running'
  BY <1>1, ClearExceptionStep DEF HostInv
<1>3. pages' = pages
  BY <1>1 DEF ClearException
<1>4. HostInv'
  BY <1>1, <1>2 DEF HostInv
<1>5. CASE Overrun(mem')
  <2>1. FlatHosts!Lost
    BY <1>5 DEF FlatHosts!Lost, Ready
  <2> QED
    BY <2>1, <1>4 DEF FlatHosts!HostNext
<1>6. CASE ~Overrun(mem')
  <2>1. View(mem)' = View(mem)
    BY <1>2, <1>6 DEF Keeps, View, InLower, InUpper, InArgs
  <2>2. FlatHosts!Silent(answer)
    BY <1>1, <1>2, <1>3, <1>6, <2>1
    DEF FlatHosts!Silent, FlatHosts!Answering, Ready
  <2> QED
    BY <2>2, <1>4 DEF FlatHosts!HostNext
<1> QED
  BY <1>5, <1>6
LEMMA VectorFacts ==
  ASSUME NEW v \in Vectors
  PROVE  /\ v[1] \in Nat /\ v[2] \in Nat /\ v[3] \in Nat
         /\ Tracked(v[1], v[2])
<1>1. v \in Nat \X Nat \X Nat
  BY HostAssumption
<1>2. \A i \in 0..(v[2] - 1) : v[1] + EntrySize * i \in Addr
  BY HostAssumption
<1> QED
  BY <1>1, <1>2 DEF Tracked, EntryAt

LEMMA SameWord ==
  ASSUME NEW b, NEW a, NEW v
  PROVE  FlatHosts!With(b, FlatHosts!Word(a, v)) = Overwrite(b, Word(a, v))
BY DEF FlatHosts!With, Overwrite, FlatHosts!Word, Word, FlatHosts!Span, Span,
       FlatHosts!PtrSize, PtrSize

LEMMA FdWriteStep ==
  ASSUME WordsAreBytes, HostInv, NEW v \in Vectors, NEW fd,
         CallFdWrite(fd, v[1], v[2], v[3])
  PROVE  HostInv' /\ FlatHosts!HostNext
<1> DEFINE d == FdWrite(mem, fd, v[1], v[2], v[3])
           b == View(mem)
           n == Total(b, v[1], v[2])[v[2]]
           s == SentBuffers(b, v[1], v[2])
<1>1. Ready /\ Give(d, 0)
  BY DEF CallFdWrite, Give
<1>2. /\ d \in Calls
      /\ d.fate = "fine" => View(d.mem) = Overwrite(b, Word(v[3], n)) /\ d.sent = s
  BY <1>1, VectorFacts, ReadyMemory, FdWriteDoes
<1> HIDE DEF d
<1>3. 0 \in Nat \union {-1}
  OBVIOUS
<1>4. /\ HostInv'
      /\ \/ FlatHosts!Lost
         \/ /\ d.fate = "fine" /\ pages' = pages
            /\ FlatHosts!Answering(View(d.mem), d.sent, 0)
  BY <1>1, <1>2, <1>3, GiveStep
<1>5. FlatHosts!Answering(FlatHosts!With(b, FlatHosts!Word(v[3], n)), s, 0)
        /\ pages' = pages
        => FlatHosts!FdWrite(v[1], v[2], v[3])
  BY DEF FlatHosts!FdWrite, FlatHosts!Entry, Total, EntryAt, SentBuffers,
         FlatHosts!Span, Span, FlatHosts!EntrySize, EntrySize
<1>6. Overwrite(b, Word(v[3], n)) = FlatHosts!With(b, FlatHosts!Word(v[3], n))
  BY SameWord
<1> HIDE DEF n, s, b
<1>7. FlatHosts!Lost \/ FlatHosts!FdWrite(v[1], v[2], v[3])
  BY <1>2, <1>4, <1>5, <1>6
<1> QED
  BY <1>4, <1>7 DEF FlatHosts!HostNext

LEMMA FdReadStep ==
  ASSUME WordsAreBytes, HostInv, NEW v \in Vectors,
         NEW filled \in [1..v[2] -> {"all", "half", "fail"}],
         NEW letter \in Byte, CallFdRead(v[1], v[2], v[3], filled, letter)
  PROVE  HostInv' /\ FlatHosts!HostNext
<1> DEFINE d == FdRead(mem, v[1], v[2], v[3], filled, letter)
           a == IF d.failed THEN -1 ELSE 0
           r == AfterFills(View(mem), v[1], v[2], filled, letter)
           failed(i) == /\ filled[i] = "fail"
                        /\ \A j \in 1..(i - 1) : filled[j] # "fail"
                        /\ FlatHosts!Answering(r[i - 1].b, <<>>, -1)
           full == /\ \A i \in 1..v[2] : filled[i] # "fail"
                   /\ FlatHosts!Answering(
                        FlatHosts!With(r[v[2]].b,
                                       FlatHosts!Word(v[3], r[v[2]].n)), <<>>, 0)
<1>1. Ready /\ Give(d, a)
  BY DEF CallFdRead, Give
<1>2. /\ d \in Calls
      /\ d.fate = "fine" =>
           /\ d.sent = <<>>
           /\ \/ \E i \in 1..v[2] :
                   /\ d.failed
                   /\ filled[i] = "fail"
                   /\ ReadsUpTo(filled, i - 1)
                   /\ View(d.mem) = r[i - 1].b
              \/ /\ ~d.failed
                 /\ ReadsUpTo(filled, v[2])
                 /\ View(d.mem) = Overwrite(r[v[2]].b, Word(v[3], r[v[2]].n))
  <2>1. d.fate = "fine" => VectorFilled(d, r, v[2], v[3], filled)
    BY <1>1, VectorFacts, ReadyMemory, FdReadDoes
  <2>2. d \in Calls
    BY <1>1, VectorFacts, ReadyMemory, FdReadDoes
  <2> HIDE DEF d, r
  <2> QED
    BY <2>1, <2>2 DEF VectorFilled
<1> HIDE DEF d
<1>3. a \in Nat \union {-1}
  OBVIOUS
<1>4. /\ HostInv'
      /\ \/ FlatHosts!Lost
         \/ /\ d.fate = "fine" /\ pages' = pages
            /\ FlatHosts!Answering(View(d.mem), d.sent, a)
  <2> HIDE DEF a
  <2> QED
    BY <1>1, <1>2, <1>3, GiveStep
<1>5. pages' = pages /\ ((\E i \in 1..v[2] : failed(i)) \/ full)
        => FlatHosts!FdRead(v[1], v[2], v[3], filled, letter)
  BY DEF FlatHosts!FdRead, FlatHosts!Entry, AfterFills, AfterFill, Share, EntryAt,
         FlatHosts!Span, Span, FlatHosts!EntrySize, EntrySize, FlatHosts!With,
         Overwrite
<1> HIDE DEF r
<1>6. CASE d.fate = "fine" /\ pages' = pages
           /\ FlatHosts!Answering(View(d.mem), d.sent, a)
  <2>1. CASE d.failed
    <3>1. PICK i \in 1..v[2] : /\ filled[i] = "fail"
                               /\ ReadsUpTo(filled, i - 1)
                               /\ View(d.mem) = r[i - 1].b
      BY <2>1, <1>2, <1>6
    <3>2. failed(i)
      BY <3>1, <2>1, <1>2, <1>6 DEF ReadsUpTo
    <3> HIDE DEF failed, full
    <3> QED
      BY <3>2, <1>4, <1>5, <1>6 DEF FlatHosts!HostNext
  <2>2. CASE ~d.failed
    <3>1. /\ ReadsUpTo(filled, v[2]) /\ d.sent = <<>> /\ a = 0
          /\ View(d.mem)
               = FlatHosts!With(r[v[2]].b, FlatHosts!Word(v[3], r[v[2]].n))
      BY <2>2, <1>2, <1>6, SameWord
    <3>2. full
      BY <3>1, <1>6 DEF ReadsUpTo
    <3> HIDE DEF failed, full
    <3> QED
      BY <3>2, <1>4, <1>5, <1>6 DEF FlatHosts!HostNext
  <2> QED
    BY <2>1, <2>2
<1> QED
  BY <1>4, <1>6 DEF FlatHosts!HostNext

LEMMA ArgsGetStep ==
  ASSUME WordsAreBytes, HostInv, NEW w \in ArgvAreas, CallArgsGet(w[1], w[2])
  PROVE  HostInv' /\ FlatHosts!HostNext
<1> DEFINE argv == w[1]
           buf == w[2]
           d == ArgsGet(mem, argv, buf)
           b == View(mem)
           Args == 1..Len(Argv)
           f == [x \in Addr |->
                   IF \E i \in Args : x \in PointerSpan(argv, i)
                     THEN Coded(StringAt(buf,
                            (CHOOSE i \in Args : x \in PointerSpan(argv, i)) - 1))
                   ELSE IF \E i \in Args : x \in StringSpan(buf, i)
                     THEN Argv[CHOOSE i \in Args :
                                 x \in StringSpan(buf, i)].letter
                   ELSE b[x]]
<1>0. argv \in Nat /\ buf \in Nat /\ AreasApart(argv, buf)
  BY HostAssumption DEF AreasApart
<1>1. Ready /\ Give(d, 0)
  BY DEF CallArgsGet, Give
<1>2. /\ d \in Calls
      /\ d.fate = "fine" => /\ Copied(b, View(d.mem), argv, buf, Len(Argv))
                            /\ d.sent = <<>>
  BY <1>0, <1>1, ReadyMemory, ArgsGetDoes
<1> HIDE DEF d
<1>3. 0 \in Nat \union {-1}
  OBVIOUS
<1>4. /\ HostInv'
      /\ \/ FlatHosts!Lost
         \/ /\ d.fate = "fine" /\ pages' = pages
            /\ FlatHosts!Answering(View(d.mem), d.sent, 0)
  BY <1>1, <1>2, <1>3, GiveStep
<1>5. FlatHosts!Answering(f, <<>>, 0) /\ pages' = pages
        => FlatHosts!ArgsGet(argv, buf)
  BY DEF FlatHosts!ArgsGet, PointerSpan, StringSpan, FlatHosts!Span, Span,
         FlatHosts!PtrSize, PtrSize, FlatHosts!StringAt, StringAt,
         FlatHosts!Sizes, Sizes
<1>6. ASSUME d.fate = "fine"
      PROVE  View(d.mem) = f
  <2> DEFINE e == View(d.mem)
  <2>1. Copied(b, e, argv, buf, Len(Argv))
    BY <1>2, <1>6
  <2>2. ASSUME NEW x \in Addr
        PROVE  e[x] = f[x]
    <3>1. CASE \E i \in Args : x \in PointerSpan(argv, i)
      <4> DEFINE i == CHOOSE i \in Args : x \in PointerSpan(argv, i)
      <4>1. i \in Args /\ x \in PointerSpan(argv, i)
        BY <3>1
      <4>2. f[x] = Coded(StringAt(buf, i - 1))
        BY <3>1
      <4> HIDE DEF i, e
      <4>3. e[x] = Coded(StringAt(buf, i - 1))
        BY <4>1, <2>1 DEF Copied
      <4> QED
        BY <4>2, <4>3
    <3>2. CASE /\ ~\E i \in Args : x \in PointerSpan(argv, i)
               /\ \E i \in Args : x \in StringSpan(buf, i)
      <4> DEFINE i == CHOOSE i \in Args : x \in StringSpan(buf, i)
      <4>1. i \in Args /\ x \in StringSpan(buf, i)
        BY <3>2
      <4>2. f[x] = Argv[i].letter
        BY <3>2
      <4> HIDE DEF i, e
      <4>3. e[x] = Argv[i].letter
        BY <4>1, <2>1 DEF Copied
      <4> QED
        BY <4>2, <4>3
    <3>3. CASE /\ ~\E i \in Args : x \in PointerSpan(argv, i)
               /\ ~\E i \in Args : x \in StringSpan(buf, i)
      <4>1. f[x] = b[x]
        BY <3>3
      <4> HIDE DEF e
      <4>2. e[x] = b[x]
        BY <3>3, <2>1 DEF Copied
      <4> QED
        BY <4>1, <4>2
    <3> QED
      BY <3>1, <3>2, <3>3
  <2>3. e = [x \in Addr |-> e[x]]
    BY <2>1 DEF Copied
  <2>4. f = [x \in Addr |-> f[x]]
    OBVIOUS
  <2> HIDE DEF e, f
  <2>5. e = f
    BY <2>2, <2>3, <2>4
  <2> QED
    BY <2>5 DEF e
<1> HIDE DEF f, b
<1>7. FlatHosts!Lost \/ FlatHosts!ArgsGet(argv, buf)
  BY <1>2, <1>4, <1>5, <1>6
<1> QED
  BY <1>4, <1>7 DEF FlatHosts!HostNext

LEMMA SystemFacts ==
  ASSUME NEW s \in SystemCalls
  PROVE  /\ AreasGiven(s.areas) /\ AreasGiven(s.report)
         /\ s.raises \in BOOLEAN /\ s.returns \in Nat \union {-1}
BY HostAssumption DEF AreasGiven

(* What FlatHost calls written. *)
LEMMA SameWritten ==
  ASSUME NEW s, AreasGiven(s.areas), AreasGiven(s.report)
  PROVE  LET areas == s.areas \o s.report IN
         AllWritten(s)
           = UNION {Span(areas[k].at, areas[k].used) :
                      k \in {j \in DOMAIN areas : areas[j].writes}}
<1> DEFINE A == s.areas
           R == s.report
           C == A \o R
           n == Len(A)
           U == UNION {Span(C[k].at, C[k].used) :
                         k \in {j \in DOMAIN C : C[j].writes}}
<1>1. /\ A \in Seq(Areas) /\ R \in Seq(Areas) /\ n \in Nat /\ Len(R) \in Nat
  BY LenProperties DEF AreasGiven
<1>2. /\ C \in Seq(Areas) /\ Len(C) = n + Len(R) /\ DOMAIN C = 1..(n + Len(R))
      /\ \A k \in 1..n : C[k] = A[k]
      /\ \A k \in 1..Len(R) : C[n + k] = R[k]
  <2>1. /\ C \in Seq(Areas) /\ Len(C) = n + Len(R)
        /\ \A k \in 1..(n + Len(R)) : C[k] = IF k <= n THEN A[k] ELSE R[k - n]
    BY <1>1, ConcatProperties
  <2>2. DOMAIN C = 1..(n + Len(R))
    BY <2>1, LenProperties
  <2> HIDE DEF C, A, R, n
  <2>3. ASSUME NEW k \in 1..n
        PROVE  C[k] = A[k]
    <3>1. k \in 1..(n + Len(R)) /\ k <= n
      BY <1>1
    <3> QED
      BY <3>1, <2>1
  <2>4. ASSUME NEW k \in 1..Len(R)
        PROVE  C[n + k] = R[k]
    <3>1. n + k \in 1..(n + Len(R)) /\ ~(n + k <= n) /\ (n + k) - n = k
      BY <1>1
    <3> QED
      BY <3>1, <2>1
  <2> QED
    BY <2>1, <2>2, <2>3, <2>4
<1> HIDE DEF C
<1>3. ASSUME NEW x, x \in AllWritten(s)
      PROVE  x \in U
  <2>1. CASE x \in WrittenBy(A, n)
    <3>1. PICK j \in 1..n : A[j].writes /\ x \in Span(A[j].at, A[j].used)
      BY <2>1 DEF WrittenBy
    <3>2. j \in DOMAIN C /\ C[j] = A[j]
      <4> HIDE DEF n, A, R
      <4> QED
        BY <1>1, <1>2
    <3> QED
      BY <3>1, <3>2
  <2>2. CASE x \in WrittenBy(R, Len(R))
    <3>1. PICK j \in 1..Len(R) : R[j].writes /\ x \in Span(R[j].at, R[j].used)
      BY <2>2 DEF WrittenBy
    <3>2. n + j \in DOMAIN C /\ C[n + j] = R[j]
      <4> HIDE DEF n, A, R
      <4> QED
        BY <1>1, <1>2
    <3> HIDE DEF n, R, A
    <3> QED
      BY <3>1, <3>2
  <2> QED
    BY <2>1, <2>2, <1>3 DEF AllWritten
<1>4. ASSUME NEW x, x \in U
      PROVE  x \in AllWritten(s)
  <2>1. PICK k \in DOMAIN C : C[k].writes /\ x \in Span(C[k].at, C[k].used)
    BY <1>4
  <2>2. CASE k \in 1..n
    <3>1. x \in WrittenBy(A, n)
      BY <2>1, <2>2, <1>2 DEF WrittenBy
    <3> QED
      BY <3>1 DEF AllWritten
  <2>3. CASE k \notin 1..n
    <3>1. k - n \in 1..Len(R) /\ n + (k - n) = k
      <4> HIDE DEF n, A, R
      <4> QED
        BY <2>3, <1>1, <1>2
    <3>2. C[k] = R[k - n]
      <4> HIDE DEF n, A, R
      <4> QED
        BY <3>1, <1>2
    <3> DEFINE i == k - n
    <3>3. i \in 1..Len(R) /\ R[i].writes /\ x \in Span(R[i].at, R[i].used)
      BY <2>1, <3>1, <3>2
    <3> HIDE DEF i
    <3>4. x \in WrittenBy(R, Len(R))
      BY <3>3 DEF WrittenBy
    <3> QED
      BY <3>4 DEF AllWritten
  <2> QED
    BY <2>2, <2>3
<1>5. AllWritten(s) = U
  <2> HIDE DEF U
  <2> QED
    BY <1>3, <1>4
<1> QED
  BY <1>5 DEF C

LEMMA SystemStep ==
  ASSUME HostInv, NEW s \in SystemCalls, NEW letter \in Byte,
         CallSystem(s, letter)
  PROVE  HostInv' /\ FlatHosts!HostNext
<1> DEFINE c == System(mem, s, letter)
           d == IF s.raises THEN [c EXCEPT !.mem.exception = TRUE] ELSE c
           a == IF s.raises THEN answer ELSE Result(s)
           b == View(mem)
           W == AllWritten(s)
           f == Lettered(b, W, letter)
<1>1. Ready /\ Give(d, a)
  BY DEF CallSystem, Give
<1>2. c \in Calls /\ (c.fate = "fine" => View(c.mem) = f /\ c.sent = <<>>)
  BY <1>1, SystemFacts, ReadyMemory, SystemDoes
<1> HIDE DEF c, f
<1>3. d \in Calls /\ (d.fate = "fine" => View(d.mem) = f /\ d.sent = <<>>)
  <2>1. CASE ~s.raises
    BY <2>1, <1>2
  <2>2. CASE s.raises
    <3> DEFINE m == [c.mem EXCEPT !.exception = TRUE]
    <3>1. d = [c EXCEPT !.mem = m]
      BY <2>2
    <3>2. m \in Memory
      BY <1>2, CallFacts DEF Memory
    <3>3. c.fate = "fine" => Good(m) /\ Alive(m) /\ View(m) = View(c.mem)
      BY <1>2, CallFacts, RaisedMemory
    <3> HIDE DEF m, d
    <3>4. /\ d \in CallRecords /\ d.mem = m /\ d.fate = c.fate
          /\ d.sent = c.sent
      BY <3>1, <3>2, <1>2 DEF Calls, CallRecords
    <3> QED
      BY <3>3, <3>4, <1>2 DEF Calls
  <2> QED
    BY <2>1, <2>2
<1> HIDE DEF d
<1>4. a \in Nat \union {-1}
  BY SystemFacts DEF Result, HostInv
<1>5. /\ HostInv'
      /\ \/ FlatHosts!Lost
         \/ /\ d.fate = "fine" /\ pages' = pages
            /\ FlatHosts!Answering(View(d.mem), d.sent, a)
  <2> HIDE DEF a
  <2> QED
    BY <1>1, <1>3, <1>4, GiveStep
<1>6. W = UNION {Span((s.areas \o s.report)[k].at, (s.areas \o s.report)[k].used) :
                   k \in {j \in DOMAIN (s.areas \o s.report) :
                            (s.areas \o s.report)[j].writes}}
  BY SystemFacts, SameWritten
<1>7. f = FlatHosts!With(b, [x \in W |-> letter])
  BY DEF f, Lettered, FlatHosts!With
<1> HIDE DEF W
<1>8. FlatHosts!Answering(f, <<>>, a) /\ pages' = pages
        => FlatHosts!SystemCall(s, letter)
  BY <1>6, <1>7 DEF FlatHosts!SystemCall, FlatHosts!Span, Span,
     FlatHosts!Result, Result
<1> HIDE DEF b
<1>9. FlatHosts!Lost \/ FlatHosts!SystemCall(s, letter)
  BY <1>3, <1>5, <1>8
<1> QED
  BY <1>5, <1>9 DEF FlatHosts!HostNext
-----------------------------------------------------------------------------
(* The specification *)

LEMMA HostStep ==
  ASSUME WordsAreBytes, HostInv, HostNext
  PROVE  HostInv' /\ FlatHosts!HostNext
<1>1. ASSUME LoopFree
      PROVE  HostInv' /\ FlatHosts!HostNext
  BY <1>1, GuestStoreStep, MemcpyStep, SizesStep, SilentSteps, ResizeStep,
     HostClearsStep DEF LoopFree
<1>2. ASSUME Loops
      PROVE  HostInv' /\ FlatHosts!HostNext
  BY <1>2, FdWriteStep, FdReadStep, ArgsGetStep, SystemStep DEF Loops
<1> QED
  BY <1>1, <1>2 DEF HostNext

LEMMA HostStutter ==
  ASSUME HostInv, UNCHANGED hostVars
  PROVE  HostInv' /\ UNCHANGED FlatHosts!hostVars
<1>1. UNCHANGED <<mem, pages, ret, fate, sent, answer>>
  BY DEF hostVars
<1>2. HostInv'
  BY <1>1 DEF HostInv, IInv, MemSize
<1>3. View(mem)' = View(mem)
  BY <1>1 DEF View, InLower, InUpper, InArgs
<1> QED
  BY <1>1, <1>2, <1>3 DEF FlatHosts!hostVars, Ready, Running

LEMMA HostInductive ==
  ASSUME WordsAreBytes
  PROVE  HostSpec => []HostInv
<1>1. HostInit => HostInv
  BY HostInitInv
<1>2. HostInv /\ [HostNext]_hostVars => HostInv'
  BY HostStep, HostStutter
<1> QED
  BY <1>1, <1>2, PTL DEF HostSpec

(* Whatever the guest stores and which host functions it calls, the state  *)
(* keeps its type.                                                         *)
THEOREM HostTypeCorrect ==
  ASSUME WordsAreBytes
  PROVE  HostSpec => []HostTypeOK
<1>1. HostInv => HostTypeOK
  <2> SUFFICES ASSUME HostInv
               PROVE  HostTypeOK
    OBVIOUS
  <2>1. TypeOK /\ fate \in Fates /\ answer \in Nat \union {-1}
    BY DEF HostInv, IInv, Fit, TypeOK
  <2>2. ASSUME NEW i \in DOMAIN sent
        PROVE  \E S \in SUBSET Addr : sent[i] \in [S -> Byte]
    <3>1. sent[i] \in Contents
      <4>1. sent \in Seq(Contents) /\ i \in 1..Len(sent)
        BY LenProperties DEF HostInv
      <4> QED
        BY <4>1, ElementOfSeq
    <3> QED
      BY <3>1 DEF Contents
  <2> QED
    BY <2>1, <2>2 DEF HostTypeOK
<1> QED
  BY <1>1, HostInductive, PTL

(* Whatever the guest has called before: memcpy_big and args_sizes_get     *)
(* never use a pointer whose array has moved, nor reach beyond it, when    *)
(* the range they translate last was resident before the call.             *)
THEOREM CopiesSafe ==
  ASSUME WordsAreBytes
  PROVE  HostSpec => []PreparedCopiesSafe
<1>1. HostInv => PreparedCopiesSafe
  <2> SUFFICES ASSUME HostInv, Ready
               PROVE  PreparedCopiesSafe
    BY DEF PreparedCopiesSafe
  <2>1. Good(mem) /\ Alive(mem) /\ Fits
    BY ReadyMemory
  <2>2. ASSUME NEW c \in Copies, Resident(mem, c[2], c[3])
        PROVE  Safe(MemcpyBig(mem, c[1], c[2], c[3]))
    <3>1. /\ c[1] \in Nat /\ c[2] \in Nat /\ c[3] \in Nat
          /\ \A x \in Span(c[1], c[3]) : (x - c[1]) + c[2] \in Addr
      BY HostAssumption
    <3>2. Unharmed(MemcpyBig(mem, c[1], c[2], c[3]))
      BY <2>1, <2>2, <3>1, MemcpyDoes
    <3> QED
      BY <3>2 DEF Unharmed, Safe
  <2>3. ASSUME NEW w \in SizeWords, Resident(mem, w[2], 4)
        PROVE  Safe(ArgsSizesGet(mem, w[1], w[2]))
    <3>1. w[1] \in Nat /\ w[2] \in Nat
      BY HostAssumption
    <3>2. Unharmed(ArgsSizesGet(mem, w[1], w[2]))
      BY <2>1, <2>3, <3>1, SizesDoes
    <3> QED
      BY <3>2 DEF Unharmed, Safe
  <2> QED
    BY <2>2, <2>3 DEF PreparedCopiesSafe
<1> QED
  BY <1>1, HostInductive, PTL

(* Nor do fd_write, fd_read and args_get ever use a pointer                *)
(* whose array has moved, nor reach beyond it, when the vector, all its    *)
(* buffers and the count, or the area of the strings, were resident before *)
(* the call - for every number of buffers and of strings.                  *)
THEOREM VectorsSafe ==
  ASSUME WordsAreBytes
  PROVE  HostSpec => []PreparedVectorsSafe
<1>1. HostInv => PreparedVectorsSafe
  <2> SUFFICES ASSUME HostInv, Ready
               PROVE  PreparedVectorsSafe
    BY DEF PreparedVectorsSafe
  <2>1. Good(mem) /\ Alive(mem) /\ Fits
    BY ReadyMemory
  <2>2. ASSUME NEW w \in ArgvAreas, Resident(mem, w[2], StringsSize)
        PROVE  Safe(ArgsGet(mem, w[1], w[2]))
    <3>1. w[1] \in Nat /\ w[2] \in Nat /\ AreasApart(w[1], w[2])
      BY HostAssumption DEF AreasApart
    <3>2. Unharmed(ArgsGet(mem, w[1], w[2]))
      BY <2>1, <2>2, <3>1, ArgsGetDoes
    <3> QED
      BY <3>2 DEF Unharmed, Safe
  <2>3. ASSUME NEW v \in Vectors, VectorResident(mem, v[1], v[2], v[3])
        PROVE  /\ Safe(FdWrite(mem, 1, v[1], v[2], v[3]))
               /\ \A letter \in Byte :
                    Safe(FdRead(mem, v[1], v[2], v[3],
                                [i \in 1..v[2] |-> "all"], letter))
    <3>1. Unharmed(FdWrite(mem, 1, v[1], v[2], v[3]))
      BY <2>1, <2>3, VectorFacts, FdWriteDoes
    <3>2. ASSUME NEW letter \in Byte, NEW filled
          PROVE  Unharmed(FdRead(mem, v[1], v[2], v[3], filled, letter))
      BY <2>1, <2>3, VectorFacts, FdReadDoes
    <3> QED
      BY <3>1, <3>2 DEF Unharmed, Safe
  <2> QED
    BY <2>2, <2>3 DEF PreparedVectorsSafe, VectorResident
<1> QED
  BY <1>1, HostInductive, PTL

LEMMA HostInitFlat ==
  ASSUME HostInit
  PROVE  FlatHosts!HostInit
<1>1. Init /\ fate = "fine" /\ sent = <<>> /\ answer = 0
  BY DEF HostInit
<1>2. Flat!Init
  BY <1>1, InitFlat
<1>4. pages = InitPages
  BY <1>1 DEF Init
<1> QED
  BY <1>1, <1>2, <1>4
  DEF FlatHosts!HostInit, FlatHosts!Init, Flat!Init, Ready

(* Every host function does, through its host pointers, what it promises   *)
(* on the one flat array, as long as no pointer goes bad and no address is *)
(* in two arrays: the bytes it reads are those last stored, those it       *)
(* writes are read back, counts and answers are right - for every number   *)
(* of buffers, strings and areas.                                          *)
THEOREM HostRefinesFlat ==
  ASSUME WordsAreBytes
  PROVE  HostSpec => HostImplementsFlat
<1>1. HostInit => FlatHosts!HostInit
  BY HostInitFlat
<1>2. HostInv /\ [HostNext]_hostVars
        => [FlatHosts!HostNext]_(FlatHosts!hostVars)
  BY HostStep, HostStutter
<1>3. HostSpec => FlatHosts!HostSpec
  BY <1>1, <1>2, HostInductive, PTL DEF HostSpec, FlatHosts!HostSpec
<1> QED
  BY <1>3 DEF HostImplementsFlat
=============================================================================
