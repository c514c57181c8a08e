----------------------------- MODULE HostCalls -----------------------------
(***************************************************************************)
(* The host functions of drekkar_wa_env.c on the guest memory of           *)
(* GuestMemory.  Most of them translate several guest addresses into host  *)
(* pointers before they use the first: each translation may make an array  *)
(* grow or merge, which moves it (dwac_st_resize takes a new block and     *)
(* frees the old one), so that a pointer taken before is stale.  What C    *)
(* leaves undefined ends the model, and so does a memory in which an       *)
(* address may be in two arrays: "fate" says why, and nothing is possible  *)
(* any more.                                                               *)
(***************************************************************************)
EXTENDS GuestMemory, HostInterface

Slots == 1..3   \* the pointers a call keeps

(* Entries of vectors and the bytes copied are tracked; what is copied     *)
(* does not overlap, as memcpy demands, nor do the two areas a guest gives *)
(* args_get.                                                               *)
ASSUME HostAssumption ==
  /\ Copies \subseteq Nat \X Nat \X Nat
  /\ \A c \in Copies :
       /\ \A x \in Span(c[1], c[3]) : (x - c[1]) + c[2] \in Addr
       /\ c[1] + c[3] <= c[2] \/ c[2] + c[3] <= c[1]
  /\ SizeWords \subseteq Nat \X Nat
  /\ Argv \in Seq([len : Nat, letter : Byte])
  /\ ArgvAreas \subseteq Nat \X Nat
  /\ \A w \in ArgvAreas :
       \/ w[1] + PtrSize * Len(Argv) <= w[2]
       \/ w[2] + StringsSize <= w[1]
  /\ Vectors \subseteq Nat \X Nat \X Nat
  /\ \A v \in Vectors : \A i \in 0..(v[2] - 1) : v[1] + EntrySize * i \in Addr
  /\ Buffers \in [Byte -> Nat \X Nat]
  /\ \A s \in SystemCalls :
       /\ s \in [areas : Seq(Areas), report : Seq(Areas),
                  returns : Nat \union {-1}, raises : BOOLEAN]
       /\ DOMAIN s.areas \subseteq Slots /\ DOMAIN s.report \subseteq Slots

VARIABLES
  fate,    \* what the latest call did with its pointers
  sent,    \* the contents of the buffers given to the latest write
  answer   \* the latest value pushed for the guest

hostVars == <<mem, pages, ret, fate, sent, answer>>

(* A pointer was used after its array had moved; or beyond its array; an   *)
(* assertion failed or the memory faulted; a translation made an array     *)
(* grow over another.                                                      *)
Fates == {"fine", "stale", "outside", "abort", "overrun"}

Ready == Running /\ ~Overrun(mem) /\ fate = "fine"

-----------------------------------------------------------------------------
(* Pointers.  An array is known by its bounds: it never moves without      *)
(* changing them.  (The argument area may keep its place while its size    *)
(* grows; a pointer into it is taken as stale then as well.)               *)

Identity(m, seg) ==
  CASE seg = "lower"     -> <<m.lowCap>>
    [] seg = "upper"     -> <<m.upBegin, m.upEnd>>
    [] seg = "arguments" -> <<m.argSize>>
    [] OTHER             -> <<>>

Pointer(m, seg) == [seg |-> seg, id |-> Identity(m, seg)]

Fresh(m, p) == p.id = Identity(m, p.seg)

(* A call under way: the memory, what became of it, the pointers it keeps  *)
(* and what it has counted and sent so far.                                *)
Begin(m) ==
  [mem |-> m, fate |-> "fine", kept |-> [k \in Slots |-> Pointer(m, "none")],
   count |-> 0, sent |-> <<>>, failed |-> FALSE]

Ended(c, how) == [c EXCEPT !.fate = how]

(* Pointer k is what a translation gave, if it gave one. *)
Kept(c, k, t) ==
  IF t.seg = "none" THEN Ended(c, "abort")
  ELSE IF Overrun(t.mem) THEN Ended(c, "overrun")
  ELSE [c EXCEPT !.mem = t.mem, !.kept[k] = Pointer(t.mem, t.seg)]

(* Pointer k is taken: n bytes from a are translated. *)
Take(c, k, a, n) ==
  IF c.fate # "fine" THEN c
  ELSE Kept(c, k, Translate(c.mem, a, n, MemSize))

(* Pointer k is used for n bytes from a. *)
Use(c, k, a, n) ==
  LET p == c.kept[k] IN
  IF c.fate # "fine" THEN c
  ELSE IF ~Fresh(c.mem, p) THEN Ended(c, "stale")
  ELSE IF ~Holds(c.mem, p.seg, a, n) THEN Ended(c, "outside")
  ELSE c

(* What is found at x through pointer k. *)
Cell(c, k, x) == ArrayOf(c.mem, c.kept[k].seg)[x]

(* The bytes of b are stored through pointer k, n bytes from a. *)
Put(c, k, a, n, b) ==
  LET u == Use(c, k, a, n) IN
  IF u.fate # "fine" THEN u
  ELSE [u EXCEPT !.mem = Written(u.mem, u.kept[k].seg, b)]

Word(a, v) == [x \in Span(a, PtrSize) |-> Coded(v)]

-----------------------------------------------------------------------------
(* The calls: each is what becomes of Begin(m). *)

(* memcpy_big: dest first, then src. *)
MemcpyBig(m, dest, src, num) ==
  LET both == Take(Take(Begin(m), 1, dest, num), 2, src, num)
      read == Use(both, 2, src, num)
  IN Put(read, 1, dest, num,
         [x \in Span(dest, num) |-> Cell(read, 2, (x - dest) + src)])

(* The pointers to the vector of buffers and to the count: of the vector   *)
(* only the first 4 bytes are asked for.                                   *)
VectorTaken(m, iovs, count) ==
  Take(Take(Begin(m), 1, iovs, 4), 2, count, 4)

(* Mutant of BufferTaken: address and length change places. *)
BufferTakenSwapped(c, iovs, i) ==
  LET at   == iovs + EntrySize * i
      read == Use(c, 1, at, EntrySize)
      e    == Buffers[Cell(read, 1, at)]
  IN Use(Take(read, 3, e[2], e[1]), 1, at, EntrySize)

(* Entry i of the vector, read through the kept pointer; its buffer        *)
(* translated; the entry read again for the length.                        *)
BufferTaken(c, iovs, i) ==
  LET at   == iovs + EntrySize * i
      read == Use(c, 1, at, EntrySize)
      e    == Buffers[Cell(read, 1, at)]
  IN Use(Take(read, 3, e[1], e[2]), 1, at, EntrySize)

(* Mutant of Sent: what is counted is the buffers, not their bytes. *)
SentCountsBuffers(c, iovs, i) ==
  LET b == BufferTaken(c, iovs, i)
      e == Buffers[Cell(c, 1, iovs + EntrySize * i)]
      u == Use(b, 3, e[1], e[2])
  IN IF u.fate # "fine" THEN u
     ELSE [u EXCEPT !.count = @ + 1,
                    !.sent = Append(@, [x \in Span(e[1], e[2]) |->
                                          Cell(u, 3, x)])]

(* One turn of the loop of fd_write.  The result of write is not looked at. *)
Sent(c, iovs, i) ==
  LET b == BufferTaken(c, iovs, i)
      e == Buffers[Cell(c, 1, iovs + EntrySize * i)]
      u == Use(b, 3, e[1], e[2])
  IN IF u.fate # "fine" THEN u
     ELSE [u EXCEPT !.count = @ + e[2],
                    !.sent = Append(@, [x \in Span(e[1], e[2]) |->
                                          Cell(u, 3, x)])]

FdWrite(m, fd, iovs, len, nwritten) ==
  LET start == VectorTaken(m, iovs, nwritten)
      loop[i \in 0..len] ==
        IF i = 0 THEN start ELSE Sent(loop[i - 1], iovs, i - 1)
      done == loop[len]
  IN IF start.fate = "fine" /\ fd \notin 1..2 THEN Ended(start, "abort")
     ELSE Put(done, 2, nwritten, 4, Word(nwritten, done.count))

(* One turn of the loop of fd_read: the share of the buffer that is filled *)
(* with what the letter stands for, or a failure, which ends the loop.     *)
Filled(c, iovs, i, share, letter) ==
  LET b == BufferTaken(c, iovs, i)
      e == Buffers[Cell(c, 1, iovs + EntrySize * i)]
      n == IF share = "all" THEN e[2] ELSE e[2] \div 2
  IN IF b.fate # "fine" THEN b
     ELSE IF share = "fail" THEN [b EXCEPT !.failed = TRUE]
     ELSE [Put(b, 3, e[1], n, [x \in Span(e[1], n) |-> letter])
             EXCEPT !.count = @ + n]

FdRead(m, iovs, len, nread, filled, letter) ==
  LET start == VectorTaken(m, iovs, nread)
      loop[i \in 0..len] ==
        IF i = 0 THEN start
        ELSE IF loop[i - 1].failed THEN loop[i - 1]
        ELSE Filled(loop[i - 1], iovs, i - 1, filled[i], letter)
      done == loop[len]
  IN IF done.failed THEN done
     ELSE Put(done, 2, nread, 4, Word(nread, done.count))

ArgsSizesGet(m, argc, argvBufSize) ==
  LET both == Take(Take(Begin(m), 1, argc, 4), 2, argvBufSize, 4)
  IN Put(Put(both, 1, argc, 4, Word(argc, Len(Argv))),
         2, argvBufSize, 4, Word(argvBufSize, StringsSize))

(* One turn of the loop of args_get: the pointer stored through the kept   *)
(* one, then the string, whose terminating zero is left to the memory.     *)
ArgCopied(c, argv, buf, i) ==
  LET at == argv + PtrSize * i
      s  == StringAt(buf, i)
      n  == Argv[i + 1].len
      c1 == Put(c, 1, at, PtrSize, Word(at, s))
  IN Put(Take(c1, 3, s, n), 3, s, n, [x \in Span(s, n) |-> Argv[i + 1].letter])

ArgsGet(m, argv, buf) ==
  LET loop[i \in 0..Len(Argv)] ==
        IF i = 0 THEN Take(Begin(m), 1, argv, PtrSize * Len(Argv))
        ELSE ArgCopied(loop[i - 1], argv, buf, i - 1)
  IN loop[Len(Argv)]

(* A stage of a system call: all areas translated, then all used.          *)
Stage(c, areas, letter) ==
  LET n == Len(areas)
      taken[k \in 0..n] ==
        IF k = 0 THEN c
        ELSE Take(taken[k - 1], k, areas[k].at, areas[k].asked)
      used[k \in 0..n] ==
        IF k = 0 THEN taken[n]
        ELSE IF areas[k].writes
          THEN Put(used[k - 1], k, areas[k].at, areas[k].used,
                   [x \in Span(areas[k].at, areas[k].used) |-> letter])
        ELSE Use(used[k - 1], k, areas[k].at, areas[k].used)
  IN used[n]

System(m, call, letter) ==
  Stage(Stage(Begin(m), call.areas, letter), call.report, letter)

-----------------------------------------------------------------------------
(* The operations.  A call whose pointers are not good is given up as it   *)
(* was when it began.                                                      *)

Give(c, v) ==
  /\ Ready
  /\ \/ /\ c.fate = "fine"
        /\ mem' = c.mem
        /\ sent' = c.sent
        /\ answer' = v
        /\ UNCHANGED <<pages, ret, fate>>
     \/ /\ c.fate # "fine"
        /\ fate' = c.fate
        /\ UNCHANGED <<mem, pages, ret, sent, answer>>

CallMemcpy(dest, src, num) == Give(MemcpyBig(mem, dest, src, num), 0)

CallFdWrite(fd, iovs, len, nwritten) ==
  Give(FdWrite(mem, fd, iovs, len, nwritten), 0)

CallFdRead(iovs, len, nread, filled, letter) ==
  LET c == FdRead(mem, iovs, len, nread, filled, letter)
  IN Give(c, IF c.failed THEN -1 ELSE 0)

CallArgsSizesGet(argc, size) == Give(ArgsSizesGet(mem, argc, size), 0)

CallArgsGet(argv, buf) == Give(ArgsGet(mem, argv, buf), 0)

CallSystem(call, letter) ==
  LET c == System(mem, call, letter) IN
  Give(IF call.raises THEN [c EXCEPT !.mem.exception = TRUE] ELSE c,
       IF call.raises THEN answer ELSE Result(call))

(* A wrong number of parameters (is_param_ok); and the functions that are  *)
(* "Not implemented", which raise and answer 0.                            *)
Raise(v) == Give(Begin([mem EXCEPT !.exception = TRUE]), v)

(* assert(fd == 3), close *)
CallFdClose(fd) ==
  Give(IF fd = 3 THEN Begin(mem) ELSE Ended(Begin(mem), "abort"), 0)

(* emscripten_resize_heap answers in bytes. *)
CallResizeHeap(p) ==
  /\ Ready
  /\ ResizeHeap(p)
  /\ sent' = <<>>
  /\ answer' = pages' * PageSize
  /\ UNCHANGED fate

(* memory.size and memory.grow, which leaves the size and answers it. *)
MemorySize == Give(Begin(mem), pages)
MemoryGrow(increment) == Give(Begin(mem), pages)

GuestStore(a, n, c) ==
  /\ Ready
  /\ Store(a, n, c)
  /\ sent' = <<>>
  /\ UNCHANGED <<fate, answer>>

HostClears ==
  /\ Ready
  /\ ClearException
  /\ sent' = <<>>
  /\ UNCHANGED <<fate, answer>>

HostInit == Init /\ fate = "fine" /\ sent = <<>> /\ answer = 0

(* What guest and host do without a loop over several pointers. *)
LoopFree ==
  \/ \E r \in Accesses : \E c \in [Span(r[1], r[2]) -> Byte] :
       GuestStore(r[1], r[2], c)
  \/ \E c \in Copies : CallMemcpy(c[1], c[2], c[3])
  \/ \E w \in SizeWords : CallArgsSizesGet(w[1], w[2])
  \/ \E v \in {answer, 0} : Raise(v)
  \/ \E fd \in Descriptors : CallFdClose(fd)
  \/ \E p \in PageCounts : CallResizeHeap(p)
  \/ MemorySize
  \/ \E n \in Increments : MemoryGrow(n)
  \/ HostClears

Loops ==
  \/ \E v \in Vectors : \E fd \in Descriptors :
       CallFdWrite(fd, v[1], v[2], v[3])
  \/ \E v \in Vectors : \E filled \in [1..v[2] -> {"all", "half", "fail"}] :
       \E letter \in Byte : CallFdRead(v[1], v[2], v[3], filled, letter)
  \/ \E w \in ArgvAreas : CallArgsGet(w[1], w[2])
  \/ \E s \in SystemCalls : \E letter \in Byte : CallSystem(s, letter)

HostNext == LoopFree \/ Loops

HostSpec == HostInit /\ [][HostNext]_hostVars

-----------------------------------------------------------------------------
FlatHosts ==
  INSTANCE FlatHost WITH bytes <- View(mem), gone <- ~Ready, size <- pages

(* The type of the state beyond GuestMemory's: what a call did, sent and   *)
(* answered.                                                               *)
HostTypeOK ==
  /\ TypeOK
  /\ fate \in Fates
  /\ \A i \in DOMAIN sent : \E S \in SUBSET Addr : sent[i] \in [S -> Byte]
  /\ answer \in Nat \union {-1}

(* As long as no pointer goes bad every host function does, through its    *)
(* host pointers, what it promises on the one flat array: the bytes it     *)
(* reads are those last stored, those it writes are read back, the counts  *)
(* and answers are right - until an address may be in two arrays.          *)
HostImplementsFlat == FlatHosts!HostSpec

Safe(c) == c.fate \notin {"stale", "outside"}

BuffersResident(m) ==
  \A b \in Byte : Resident(m, Buffers[b][1], Buffers[b][2])

(* The condition under which a copy is safe: its source, or the second     *)
(* word args_sizes_get writes, was resident before the call.  Code:        *)
(* memcpy_big and dwae_args_sizes_get keep the pointer they take first     *)
(* over the second translation.                                            *)
PreparedCopiesSafe ==
  Ready =>
    /\ \A c \in Copies :
         Resident(mem, c[2], c[3]) => Safe(MemcpyBig(mem, c[1], c[2], c[3]))
    /\ \A w \in SizeWords :
         Resident(mem, w[2], 4) => Safe(ArgsSizesGet(mem, w[1], w[2]))

(* The same for the calls with a loop: all ranges but the first were       *)
(* resident; of a vector all of it, because only its first bytes are       *)
(* translated.  Code: dwae_fd_write, dwae_fd_read and dwae_args_get keep   *)
(* the pointer to the vector over the translation of each buffer.          *)
PreparedVectorsSafe ==
  Ready =>
    /\ \A w \in ArgvAreas :
         Resident(mem, w[2], StringsSize) => Safe(ArgsGet(mem, w[1], w[2]))
    /\ \A v \in Vectors :
         /\ Resident(mem, v[1], EntrySize * v[2])
         /\ Resident(mem, v[3], 4)
         /\ BuffersResident(mem)
         => /\ Safe(FdWrite(mem, 1, v[1], v[2], v[3]))
            /\ \A letter \in Byte :
                 Safe(FdRead(mem, v[1], v[2], v[3],
                             [i \in 1..v[2] |-> "all"], letter))

=============================================================================
