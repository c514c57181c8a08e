---------------------------- MODULE GuestMemory ----------------------------
(***************************************************************************)
(* The guest's linear memory as drekkar_wa_core.c keeps it: instead of one *)
(* array of current_size_in_pages pages the runtime holds three            *)
(* host arrays that are created and grown when the guest first touches     *)
(* them,                                                                   *)
(*    lower_mem   addresses 0 .. capacity-1          (linear_storage_8)    *)
(*    upper_mem   addresses begin .. end-1           (virtual_storage)     *)
(*    arguments   addresses ArgsBase .. +size-1      (linear_storage_8)    *)
(* and translate_addr_grow_if_needed decides, at every load and store,     *)
(* which of them an address range belongs to, growing or merging them.     *)
(*                                                                         *)
(* A host array is a function on Addr, the byte addresses this model       *)
(* tracks; only its values inside the segment mean anything.  A failed     *)
(* assert, an allocation the host refuses and a NULL dereference all end   *)
(* the process: "fault" says which, and no action is enabled any more.     *)
(***************************************************************************)
EXTENDS Integers

CONSTANTS
  Addr,        \* the byte addresses whose content is tracked
  Byte,        \* the values of a byte; 0 is one of them
  Accesses,    \* <<address, number of bytes>> of the accesses guests make
  PageCounts,  \* the sizes, in pages, a guest asks emscripten_resize_heap for
  ArgSizes,    \* sizes of the command line area the host may provide
  InitPages,   \* initial size from the memory section
  FirstSegments, \* where the first data segment may go, with its size;
               \* <<0, 0>> if there is none
  InitCap,     \* first capacity of a linear_storage_8, 256 in the code
  Cut,         \* 0xF000: below it only lower memory is used
  FirstInc,    \* 0x1000: first allocation granularity of upper memory
  MaxInc,      \* 0x20000000: the granularity is not doubled beyond it
  PageSize,    \* DWAC_PAGE_SIZE
  ArgsBase,    \* DWAC_ARGUMENTS_BASE, 0xFF000000 in the code
  ArgsLimit,   \* 0x100000000 - DWAC_ARGUMENTS_BASE: arguments must be smaller
  MaxAlloc     \* the largest block the host's malloc grants

ASSUME ConstantsAssumption ==
  /\ Addr \subseteq Nat
  /\ 0 \in Byte
  /\ Accesses \subseteq Nat \X Nat
  /\ PageCounts \subseteq Nat
  /\ ArgSizes \subseteq Nat
  /\ FirstSegments \subseteq Nat \X Nat
  /\ {InitPages, Cut, ArgsLimit} \subseteq Nat
  /\ {InitCap, FirstInc, MaxInc, PageSize, ArgsBase, MaxAlloc}
       \subseteq Nat \ {0}

VARIABLES
  mem,    \* dwac_memory: the three segments, and the exception flag
  pages,  \* memory.current_size_in_pages
  ret     \* the bytes the latest load delivered

vars == <<mem, pages, ret>>

(* Why the process is gone: an assertion of merge_memories, of            *)
(* translate_addr_grow_if_needed or of the virtual storage failed, malloc  *)
(* refused, or the NULL returned for a range across ArgsBase was used.     *)
Faults == {"none", "merge", "boundary", "empty", "alloc", "null"}

Memory ==
  [lowCap : Nat, low : [Addr -> Byte],
   upBegin : Nat, upEnd : Nat, upInc : Nat, up : [Addr -> Byte],
   argSize : Nat, args : [Addr -> Byte],
   exception : BOOLEAN, fault : Faults]

Zero == [x \in Addr |-> 0]

Span(a, n) == {x \in Addr : a <= x /\ x < a + n}

MemSize == pages * PageSize

InLower(m, x) == x < m.lowCap
InUpper(m, x) == m.upBegin <= x /\ x < m.upEnd
InArgs(m, x)  == ArgsBase <= x /\ x < ArgsBase + m.argSize

Fault(m, reason) == [m EXCEPT !.fault = reason]
Alive(m) == m.fault = "none"

-----------------------------------------------------------------------------
(* The storages *)

Max2(i, j) == IF i >= j THEN i ELSE j
Min2(i, j) == IF i <= j THEN i ELSE j

RoundDown(i, unit) == (i \div unit) * unit
RoundUp(i, unit)   == ((i + unit - 1) \div unit) * unit

(* "while (capacity < need) capacity *= 2", starting from InitCap. *)
IsFirstCap(c, need) == c >= need /\ (c = InitCap \/ c < 2 * need)

FirstCap(need) ==
  LET doubled[k \in 0..need] == IF k = 0 THEN InitCap ELSE 2 * doubled[k - 1]
  IN doubled[CHOOSE k \in 0..need : IsFirstCap(doubled[k], need)]

(* Mutants of GrownCap: doubled once, whatever is asked for; and four times *)
(* the old capacity instead of twice.                                       *)
GrownCapOnce(cap, need) ==
  IF need <= cap THEN cap ELSE IF cap = 0 THEN InitCap ELSE 2 * cap
GrownCapFourfold(cap, need) ==
  IF need <= cap THEN cap
  ELSE IF cap = 0 THEN FirstCap(need) ELSE Max2(4 * cap, need)

(* Capacity of a linear_storage_8 after it was asked for "need" bytes. *)
GrownCap(cap, need) ==
  IF need <= cap THEN cap
  ELSE IF cap = 0 THEN FirstCap(need)
  ELSE Max2(2 * cap, need)

(* lower_mem made to hold "need" bytes; the bytes added are zeroed. *)
GrowLower(m, need) ==
  LET cap == GrownCap(m.lowCap, need) IN
  IF need <= m.lowCap THEN m
  ELSE IF cap > MaxAlloc THEN Fault(m, "alloc")
  ELSE [m EXCEPT !.lowCap = cap,
                 !.low = [x \in Addr |-> IF InLower(m, x) THEN m.low[x]
                                         ELSE 0]]

(* Mutants of GrowArgs: a growing area is cleared; a shorter request makes *)
(* it smaller.                                                             *)
GrowArgsCleared(m, need) ==
  IF need <= m.argSize THEN m
  ELSE [m EXCEPT !.argSize = need, !.args = Zero]
GrowArgsExactly(m, need) ==
  [m EXCEPT !.argSize = need,
            !.args = [x \in Addr |-> IF InArgs(m, x) THEN m.args[x] ELSE 0]]

(* "arguments" made to hold "need" bytes; its size, not its capacity, *)
(* decides what belongs to it.                                        *)
GrowArgs(m, need) ==
  IF need <= m.argSize THEN m
  ELSE [m EXCEPT !.argSize = need,
                 !.args = [x \in Addr |-> IF InArgs(m, x) THEN m.args[x]
                                          ELSE 0]]

(* upper_mem made to hold [a, a+n), never outside [min, max): both ends    *)
(* go to multiples of the granularity, are clipped to min and max, and     *)
(* never move inwards; the granularity doubles unless a clip was needed.   *)
GrowUpper(m, a, n, min, max) ==
  LET first   == Max2(a, min)
      last    == Min2(a + n, max)
      inc     == IF m.upInc = 0 THEN FirstInc ELSE m.upInc
      begin   == RoundDown(first, inc)
      end     == RoundUp(last, inc)
      clipped == begin < min \/ end > max
      none    == m.upEnd = 0
      newBegin == IF none THEN Max2(begin, min)
                  ELSE Min2(Max2(begin, min), m.upBegin)
      newEnd   == IF none THEN Min2(end, max)
                  ELSE Max2(Min2(end, max), m.upEnd)
  IN
  IF first >= last THEN Fault(m, "empty")             \* assert(begin < end)
  ELSE IF first >= m.upBegin /\ last < m.upEnd THEN m
  ELSE IF newEnd - newBegin > MaxAlloc THEN Fault(m, "alloc")
  ELSE [m EXCEPT !.upBegin = newBegin,
                 !.upEnd = newEnd,
                 !.upInc = IF ~clipped /\ inc < MaxInc THEN 2 * inc ELSE inc,
                 !.up = [x \in Addr |-> IF InUpper(m, x) THEN m.up[x] ELSE 0]]

(* Mutants of Merge: upper memory released without being copied; not       *)
(* released; lower memory grown by the size of upper memory instead of up  *)
(* to its end.                                                             *)
MergeWithoutCopy(m) ==
  [GrowLower(m, m.upEnd) EXCEPT !.upBegin = 0, !.upEnd = 0, !.upInc = 0,
                                !.up = Zero]
MergeUnreleased(m) ==
  LET g == GrowLower(m, m.upEnd) IN
  [g EXCEPT !.low = [x \in Addr |-> IF InUpper(m, x) THEN m.up[x]
                                    ELSE g.low[x]]]
MergeBySize(m) ==
  LET g == GrowLower(m, m.upEnd - m.upBegin) IN
  [g EXCEPT !.low = [x \in Addr |-> IF InUpper(m, x) THEN m.up[x]
                                    ELSE g.low[x]],
            !.upBegin = 0, !.upEnd = 0, !.upInc = 0, !.up = Zero]

(* All of upper_mem copied over lower_mem, which grows to reach its end. *)
Merge(m) ==
  LET g == GrowLower(m, m.upEnd) IN
  IF m.lowCap > m.upBegin
    THEN Fault(m, "merge")                \* assert(capacity <= upper.begin)
  ELSE IF ~Alive(g) THEN g
  ELSE [g EXCEPT !.low = [x \in Addr |-> IF InUpper(m, x) THEN m.up[x]
                                         ELSE g.low[x]],
                 !.upBegin = 0, !.upEnd = 0, !.upInc = 0, !.up = Zero]

-----------------------------------------------------------------------------
(* translate_addr_grow_if_needed: the memory it leaves behind and the      *)
(* segment its pointer points into, "none" when the process is gone.       *)

Resolved(m, seg) == [mem |-> m, seg |-> IF Alive(m) THEN seg ELSE "none"]

(* Mutants of ExpandLower: lower memory grows without looking for upper   *)
(* memory; or merges only when the access itself reaches it.               *)
ExpandLowerBlindly(m, a, n) == Resolved(GrowLower(m, a + n), "lower")
ExpandLowerLate(m, a, n) ==
  LET base == IF m.upEnd # 0 /\ a + n >= m.upBegin THEN Merge(m) ELSE m
  IN Resolved(GrowLower(base, a + n), "lower")

ExpandLower(m, a, n) ==
  LET end   == a + n
      meets == m.upEnd # 0 /\ (end >= m.upBegin \/ 2 * m.lowCap >= m.upBegin)
      base  == IF ~meets THEN m
               ELSE IF end <= m.upEnd THEN Merge(m)
               ELSE Fault(m, "boundary")          \* assert(end <= upper.end)
  IN Resolved(IF Alive(base) THEN GrowLower(base, end) ELSE base, "lower")

(* Mutant of Outside: the length of the access is forgotten. *)
OutsideByStart(m, a, n) ==
  IF a + n <= ArgsBase
  THEN Resolved(GrowUpper(m, a, n, m.lowCap, ArgsBase), "upper")
  ELSE Resolved(GrowArgs(m, a - ArgsBase), "arguments")

(* Outside the memory: the exception is noted, the access still served. *)
Outside(m, a, n) ==
  LET e == [m EXCEPT !.exception = TRUE] IN
  IF a + n <= ArgsBase
    THEN Resolved(GrowUpper(e, a, n, m.lowCap, ArgsBase), "upper")
  ELSE IF a >= ArgsBase
    THEN Resolved(GrowArgs(e, a + n - ArgsBase), "arguments")
  ELSE Resolved(Fault(e, "null"), "none")    \* the NULL pointer is used

(* Mutant of Expand: the bounds of upper memory are swapped. *)
ExpandSwapped(m, a, n, size) ==
  IF a + n <= Cut \/ a <= 2 * m.lowCap THEN ExpandLower(m, a, n)
  ELSE Resolved(GrowUpper(m, a, n, size, m.lowCap), "upper")

Expand(m, a, n, size) ==
  IF ~Alive(m) THEN Resolved(m, "none")
  ELSE IF a + n <= Cut \/ a <= 2 * m.lowCap THEN ExpandLower(m, a, n)
  ELSE IF a + n <= size
    THEN Resolved(GrowUpper(m, a, n, m.lowCap, size), "upper")
  ELSE Outside(m, a, n)

MergeFirst(m, a) ==
  /\ m.upEnd # 0
  /\ m.lowCap >= m.upBegin \/ a > 4 * m.upEnd

(* Mutant of Translate: a range that ends with lower memory is taken to be  *)
(* beyond it.                                                              *)
TranslateStrict(m, a, n, size) ==
  IF a + n < m.lowCap THEN Resolved(m, "lower")
  ELSE IF a >= m.upBegin /\ a + n <= m.upEnd THEN Resolved(m, "upper")
  ELSE IF a >= ArgsBase /\ a + n <= ArgsBase + m.argSize
    THEN Resolved(m, "arguments")
  ELSE Expand(IF MergeFirst(m, a) THEN Merge(m) ELSE m, a, n, size)

Translate(m, a, n, size) ==
  IF a + n <= m.lowCap THEN Resolved(m, "lower")
  ELSE IF a >= m.upBegin /\ a + n <= m.upEnd THEN Resolved(m, "upper")
  ELSE IF a >= ArgsBase /\ a + n <= ArgsBase + m.argSize
    THEN Resolved(m, "arguments")
  ELSE Expand(IF MergeFirst(m, a) THEN Merge(m) ELSE m, a, n, size)

(* The host array behind a segment, and the memory with part of it        *)
(* overwritten by c.                                                      *)
ArrayOf(m, seg) ==
  CASE seg = "lower" -> m.low [] seg = "upper" -> m.up [] OTHER -> m.args

(* Mutant: what is stored is added to what was there. *)
OverwriteAdding(array, c) ==
  [x \in Addr |-> IF x \in DOMAIN c THEN array[x] + c[x] ELSE array[x]]

Overwrite(array, c) ==
  [x \in Addr |-> IF x \in DOMAIN c THEN c[x] ELSE array[x]]

Written(m, seg, c) ==
  CASE seg = "lower" -> [m EXCEPT !.low = Overwrite(@, c)]
    [] seg = "upper" -> [m EXCEPT !.up = Overwrite(@, c)]
    [] OTHER         -> [m EXCEPT !.args = Overwrite(@, c)]

-----------------------------------------------------------------------------
(* The operations *)

Running == Alive(mem)

(* The process is gone: nothing is left to see but the reason. *)
Abort(reason) ==
  /\ mem' = Fault(mem, reason)
  /\ UNCHANGED <<pages, ret>>

(* translate_get_int8 .. int64, and a host function reading guest memory. *)
Load(a, n) ==
  LET t == Translate(mem, a, n, MemSize) IN
  /\ Running
  /\ \/ /\ t.seg = "none"
        /\ Abort(t.mem.fault)
     \/ /\ t.seg # "none"
        /\ mem' = t.mem
        /\ ret' = [x \in Span(a, n) |-> ArrayOf(t.mem, t.seg)[x]]
        /\ UNCHANGED pages

(* translate_set_int8 .. int64, a data segment, or a host function writing *)
(* guest memory; c holds the bytes written.                                *)
Store(a, n, c) ==
  LET t == Translate(mem, a, n, MemSize) IN
  /\ Running
  /\ \/ /\ t.seg = "none"
        /\ Abort(t.mem.fault)
     \/ /\ t.seg # "none"
        /\ mem' = Written(t.mem, t.seg, c)
        /\ UNCHANGED <<pages, ret>>

(* Mutant of ResizeHeap: no upper limit. *)
ResizeHeapUnlimited(p) == Running /\ pages' = p /\ UNCHANGED <<mem, ret>>

(* emscripten_resize_heap: only the size in pages changes, up or down. *)
ResizeHeap(p) ==
  /\ Running
  /\ pages' = IF p * PageSize <= ArgsBase THEN p ELSE ArgsBase \div PageSize
  /\ UNCHANGED <<mem, ret>>

(* dwac_set_command_line_arguments: n bytes, of which c is written. *)
SetArguments(n, c) ==
  /\ Running
  /\ n < ArgsLimit
  /\ mem' = Written(GrowArgs(mem, n), "arguments", c)
  /\ UNCHANGED <<pages, ret>>

(* check_exception of the environment clears the exception and goes on. *)
ClearException ==
  /\ Running
  /\ mem.exception
  /\ mem' = [mem EXCEPT !.exception = FALSE]
  /\ UNCHANGED <<pages, ret>>

(* dwac_data_init: no array yet. *)
NoMemory ==
  [lowCap |-> 0, low |-> Zero,
   upBegin |-> 0, upEnd |-> 0, upInc |-> 0, up |-> Zero,
   argSize |-> 0, args |-> Zero,
   exception |-> FALSE, fault |-> "none"]

(* The first data segment has been stored, wherever it lies; what it       *)
(* stores is 0 here, and later segments are stores like any other.         *)
Init ==
  /\ \E s \in FirstSegments :
       mem = Translate(NoMemory, s[1], s[2], InitPages * PageSize).mem
  /\ pages = InitPages
  /\ ret = [x \in {} |-> 0]

Next ==
  \/ \E r \in Accesses : Load(r[1], r[2])
  \/ \E r \in Accesses : \E c \in [Span(r[1], r[2]) -> Byte] :
       Store(r[1], r[2], c)
  \/ \E p \in PageCounts : ResizeHeap(p)
  \/ \E n \in ArgSizes : \E c \in [Span(ArgsBase, n) -> Byte] :
       SetArguments(n, c)
  \/ ClearException

Spec == Init /\ [][Next]_vars

-----------------------------------------------------------------------------
(* What the guest sees: every address, whether a host array backs it or    *)
(* not, has one content.                                                   *)
Backed(m, x) == InLower(m, x) \/ InUpper(m, x) \/ InArgs(m, x)

View(m) ==
  [x \in Addr |-> IF InLower(m, x) THEN m.low[x]
                  ELSE IF InUpper(m, x) THEN m.up[x]
                  ELSE IF InArgs(m, x) THEN m.args[x]
                  ELSE 0]

(* An address may be in two host arrays: lower memory has grown over the   *)
(* beginning of upper memory, or one of them into the arguments.           *)
Overrun(m) ==
  \/ m.upEnd # 0 /\ m.lowCap > m.upBegin
  \/ m.lowCap > ArgsBase
  \/ m.upEnd > ArgsBase

Flat ==
  INSTANCE FlatMemory WITH bytes <- View(mem), gone <- ~Running \/ Overrun(mem)

(* The type of the state: dwac_memory and what the latest load delivered. *)
TypeOK ==
  /\ mem \in Memory
  /\ pages \in Nat
  /\ \E S \in SUBSET Addr : ret \in [S -> Byte]

(* Upper memory is not empty and begins where lower memory ends or above.  *)
Apart(m) == m.upEnd # 0 => m.lowCap <= m.upBegin /\ m.upBegin < m.upEnd

(* Lower and upper memory never overlap.  Code:                            *)
(* translate_addr_grow_if_needed with the growth rules of both storages,   *)
(* merge_memories' assertion.                                              *)
Separated == Apart(mem)

(* There is lower memory, and it is apart from upper memory.               *)
Based(m) == m.lowCap > 0 /\ Apart(m)

(* Once there is lower memory below upper memory, nothing makes the two    *)
(* overlap: a capacity that is not 0 at least doubles when it grows, and   *)
(* upper memory is merged before the double reaches it.  Only the first    *)
(* array of lower memory is made without that test.                        *)
StaysApart == [][Based(mem) => Based(mem')]_vars

(* Upper memory never reaches into the arguments: neither resize_heap nor  *)
(* an access outside the memory lets it grow beyond their begin.           *)
ArgumentsSpared == mem.upEnd <= ArgsBase

(* merge_memories never meets a lower memory that has grown over the       *)
(* beginning of upper memory (core.c:1552).                                *)
MergeAssertionHolds == mem.fault # "merge"

(* When lower memory has grown up to upper memory, the access that made    *)
(* them meet does not reach beyond upper memory (core.c:1607).             *)
BoundaryAssertionHolds == mem.fault # "boundary"

(* Upper memory is never asked for an empty range (core.c:961).            *)
NonEmptyAssertionHolds == mem.fault # "empty"

(* The host range [a, a+n) of a segment is inside that segment's array. *)
Holds(m, seg, a, n) ==
  CASE seg = "lower" -> a + n <= m.lowCap
    [] seg = "upper" -> m.upBegin <= a /\ a + n <= m.upEnd
    [] OTHER         -> ArgsBase <= a /\ a + n <= ArgsBase + m.argSize

(* Whatever is accessed next, and however the segments have grown and      *)
(* merged before, the pointer translate_addr_grow_if_needed returns leaves *)
(* the whole range inside one host array.                                  *)
TranslationInside ==
  Running =>
    \A r \in Accesses :
      LET t == Translate(mem, r[1], r[2], MemSize) IN
      t.seg # "none" => Holds(t.mem, t.seg, r[1], r[2])

(* An address that a host array backs stays backed: growing, merging and   *)
(* releasing upper_mem lose nothing.  Code: merge_memories, the "never     *)
(* make it smaller" of the virtual storage.                                *)
BackedStaysBacked ==
  [][\A x \in Addr : Backed(mem, x) => Backed(mem', x)]_vars

(* A range that is translated without making anything grow: the three      *)
(* tests at the top of translate_addr_grow_if_needed.                      *)
Resident(m, a, n) ==
  \/ a + n <= m.lowCap
  \/ a >= m.upBegin /\ a + n <= m.upEnd
  \/ a >= ArgsBase /\ a + n <= ArgsBase + m.argSize

(* A range that lies in one host array, so that translating it moves       *)
(* nothing, stays such a range whatever is accessed later and whatever     *)
(* grows and merges for it: a guest that has touched the ranges of a host  *)
(* call need not touch them again.                                         *)
ResidentStaysResident ==
  [][\A r \in Accesses :
       Resident(mem, r[1], r[2]) => Resident(mem', r[1], r[2])]_vars

(* The memory behaves as one flat array until the process is gone or an    *)
(* address may be in two host arrays: a load delivers, for every byte,     *)
(* what was last stored there, and 0 if nothing was.                       *)
ImplementsFlat == Flat!Spec

(* While the guest stays inside its memory, the runtime never holds more   *)
(* than twice that memory (or the first small array).                      *)
FootprintBounded ==
  mem.lowCap + (mem.upEnd - mem.upBegin) <= Max2(2 * MemSize, InitCap)

=============================================================================
