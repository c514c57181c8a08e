----------------------------- MODULE FlatHost ------------------------------
(***************************************************************************)
(* What the guest is promised of the host functions: each reads and writes *)
(* the one flat array of bytes and pushes an answer.                       *)
(***************************************************************************)
EXTENDS FlatMemory, HostInterface

CONSTANTS PageCounts, PageSize, InitPages

VARIABLES
  size,    \* of the memory, in pages
  sent,    \* the contents of the buffers given to the latest write
  answer   \* the latest value pushed for the guest

hostVars == <<bytes, ret, gone, size, sent, answer>>

HostInit ==
  /\ Init
  /\ size = InitPages
  /\ sent = <<>>
  /\ answer = 0

(* The array after the bytes of c have been stored. *)
With(b, c) == [x \in Addr |-> IF x \in DOMAIN c THEN c[x] ELSE b[x]]

Word(a, v) == [x \in Span(a, PtrSize) |-> Coded(v)]

(* Buffer i, from 0, of the vector at iovs. *)
Entry(b, iovs, i) == Buffers[b[iovs + EntrySize * i]]

Answering(b, s, v) ==
  /\ ~gone
  /\ bytes' = b
  /\ sent' = s
  /\ answer' = v
  /\ UNCHANGED <<ret, gone>>

Memcpy(dest, src, num) ==
  /\ Answering([x \in Addr |-> IF x \in Span(dest, num)
                                 THEN bytes[(x - dest) + src] ELSE bytes[x]],
               <<>>, 0)
  /\ UNCHANGED size

FdWrite(iovs, len, nwritten) ==
  LET total[i \in 0..len] ==
        IF i = 0 THEN 0 ELSE total[i - 1] + Entry(bytes, iovs, i - 1)[2]
  IN
  /\ Answering(With(bytes, Word(nwritten, total[len])),
               [i \in 1..len |->
                  LET e == Entry(bytes, iovs, i - 1)
                  IN [x \in Span(e[1], e[2]) |-> bytes[x]]],
               0)
  /\ UNCHANGED size

(* A share of every buffer is filled, in order, until a read fails.        *)
FdRead(iovs, len, nread, filled, letter) ==
  LET got(b, i) == LET n == Entry(b, iovs, i - 1)[2]
                   IN IF filled[i] = "all" THEN n ELSE n \div 2
      after[i \in 0..len] ==
        IF i = 0 THEN [b |-> bytes, n |-> 0]
        ELSE LET a == after[i - 1]
                 from == Entry(a.b, iovs, i - 1)[1]
             IN [b |-> With(a.b, [x \in Span(from, got(a.b, i)) |-> letter]),
                 n |-> a.n + got(a.b, i)]
  IN
  /\ \/ \E i \in 1..len :
            /\ filled[i] = "fail"
            /\ \A j \in 1..(i - 1) : filled[j] # "fail"
            /\ Answering(after[i - 1].b, <<>>, -1)
     \/ /\ \A i \in 1..len : filled[i] # "fail"
        /\ Answering(With(after[len].b, Word(nread, after[len].n)), <<>>, 0)
  /\ UNCHANGED size

ArgsSizesGet(argc, argvBufSize) ==
  /\ Answering(With(With(bytes, Word(argc, Len(Argv))),
                    Word(argvBufSize, StringsSize)), <<>>, 0)
  /\ UNCHANGED size

(* The pointers, and the strings one after the other. *)
ArgsGet(argv, buf) ==
  LET pointer(i) == Span(argv + PtrSize * (i - 1), PtrSize)
      string(i)  == Span(StringAt(buf, i - 1), Argv[i].len)
      Args == 1..Len(Argv)
  IN
  /\ Answering(
       [x \in Addr |->
          IF \E i \in Args : x \in pointer(i)
            THEN Coded(StringAt(buf, (CHOOSE i \in Args : x \in pointer(i)) - 1))
          ELSE IF \E i \in Args : x \in string(i)
            THEN Argv[CHOOSE i \in Args : x \in string(i)].letter
          ELSE bytes[x]],
       <<>>, 0)
  /\ UNCHANGED size

(* Any other call: what it writes is the host's choice, here one letter.   *)
SystemCall(call, letter) ==
  LET areas == call.areas \o call.report
      written == UNION {Span(areas[k].at, areas[k].used) :
                          k \in {j \in DOMAIN areas : areas[j].writes}}
  IN /\ Answering(With(bytes, [x \in written |-> letter]), <<>>,
                  IF call.raises THEN answer ELSE Result(call))
     /\ UNCHANGED size

ResizeHeap(p) ==
  /\ size' = IF p * PageSize <= ArgsBase THEN p ELSE ArgsBase \div PageSize
  /\ Answering(bytes, <<>>, size' * PageSize)

MemorySize == Answering(bytes, <<>>, size) /\ UNCHANGED size

(* WebAssembly promises the increment or the answer -1.  The runtime gives *)
(* neither: the memory keeps its size.                                     *)
MemoryGrow(increment) == Answering(bytes, <<>>, size) /\ UNCHANGED size

(* Nothing the guest sees: an exception is raised or cleared. *)
Silent(v) == Answering(bytes, <<>>, v) /\ UNCHANGED size

GuestStore(a, n, c) ==
  /\ Store(a, n, c)
  /\ sent' = <<>>
  /\ UNCHANGED <<size, answer>>

HostNext ==
  \/ \E r \in Accesses : \E c \in [Span(r[1], r[2]) -> Byte] :
       GuestStore(r[1], r[2], c)
  \/ \E c \in Copies : Memcpy(c[1], c[2], c[3])
  \/ \E v \in Vectors : FdWrite(v[1], v[2], v[3])
  \/ \E v \in Vectors : \E filled \in [1..v[2] -> {"all", "half", "fail"}] :
       \E letter \in Byte : FdRead(v[1], v[2], v[3], filled, letter)
  \/ \E w \in SizeWords : ArgsSizesGet(w[1], w[2])
  \/ \E w \in ArgvAreas : ArgsGet(w[1], w[2])
  \/ \E s \in SystemCalls : \E letter \in Byte : SystemCall(s, letter)
  \/ \E p \in PageCounts : ResizeHeap(p)
  \/ MemorySize
  \/ \E n \in Increments : MemoryGrow(n)
  \/ \E v \in {answer, 0} : Silent(v)
  \/ Lost

HostSpec == HostInit /\ [][HostNext]_hostVars

=============================================================================
