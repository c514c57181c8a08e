# A TLA+ model of drekkar_webasm

drekkar_webasm is a WebAssembly interpreter in C: an engine
(`drekkar_wa_core.c`), an environment that offers host functions to the guest
and drives the engine (`drekkar_wa_env.c`), and an example `main.c`. These
modules model the parts of it that keep state and are hard to get right, check
them with TLC on small instances, and prove with TLAPS, for every value of the
constants, what matters most about the guest memory, the host functions, the
interpreter, the life cycle of the environment and the loader with its hash
lists.

`PROJECT.json` lists components, runs, mutants, findings, hazards and theorems,
and maps every definition to the lines it models. Line numbers below are those
of `src/drekkar_webasm_runtime/src/drekkar_wa_core.c` unless another file is
named.

## The system

| Component | State | Operations | Hard part |
|---|---|---|---|
| Guest memory (1549-1698) | `dwac_memory`: lower_mem, upper_mem, arguments, current_size_in_pages | loads, stores, `emscripten_resize_heap`, `dwac_set_command_line_arguments` | one array seen by the guest, three growing and merging arrays in the host |
| linear_storage_8, virtual_storage (669-801, 931-1091) | array, size/capacity, begin/end/inc | grow | rounding, clipping, copying |
| `dwac_tick` (1928-3924) | pc, sp, fp, operand stack, block stack, gas_meter, exception | one handler per opcode | stack discipline with wrapping 16 bit indices, suspension between instructions |
| Calls (1828-1911, 4733) | block stack entries | internal, imported, indirect and exported calls | frames without zeroed locals, failure in a host function |
| Scans (1701-1818) | none | find the end of a block, the else of an if | nesting |
| Environment (env.c 848-1129) | result of every core call, exception, block and operand stack | init, tick, deinit, check_exception | every step may fail, one wrapper decides what a failure means, nothing restores the operand stack |
| Host functions (env.c 116-805) | guest memory, files | fd_read, fd_write, args_get, memcpy_big, system calls; memory.size and memory.grow of the engine | host pointers kept over another translation |
| Numeric instructions (2507-2781, 2808-3921) | one or two slots of the operand stack | arithmetic, comparison, conversion, loads, stores | widths, signs, boundaries, what is left in the upper half of a slot |
| Section parsers (3934-4669) | dwac_prog, globals, table, memory | two passes over the sections, run_init_expr | limits, sections that refer to each other, what may be refused and what may not |
| Hash list (413-569) | array, capacity, size | put, find | growth with rehashing, free entries for a search to end |
| LEB128 reader (1098-1231), storages 64/size (573-665, 807-925) | position; array and capacity | read; set, get, push, pop | boundaries, sign |
| Allocator wrapper (71-407) | count of allocated blocks | malloc, free, resize | everything is freed once |
| Logging, option parsing | none | | out of scope: text only |

The environment calls the engine (`dwac_parse_*`, `dwac_call_exported_function`,
`dwac_tick`); the engine calls host functions of the environment through
function pointers; both read and write guest memory through
`translate_addr_grow_if_needed`. There are no threads: what interleaves is the
guest with its own suspension (a tick ends when gas runs out and the host may do
anything before the next one), and the accesses of guest and host that make the
memory grow in any order.

## Modules

| Module | Models |
|---|---|
| `FlatMemory` | What the guest is promised: one array of bytes, initially 0 |
| `GuestMemory` | The three host arrays, their growth and merging, and every access to them |
| `GuestMemoryProofs` | Theorems about `GuestMemory` and their proofs |
| `MCGuestMemory` | Sets of accesses for TLC |
| `Bytecode` | A parsed program and the scans over it |
| `WasmReference` | What the WebAssembly core specification says a call does |
| `Interpreter` | `dwac_tick`, calls, gas, and the host that calls, resumes and recovers |
| `MCInterpreter` | A generator of valid function bodies, and written programs |
| `HostInterface` | The calls of host functions, and what in guest memory they are about |
| `FlatHost` | What the guest is promised of the host functions: each works on one flat array (extends `FlatMemory`) |
| `HostCalls`, `MCHostCalls` | The host functions on `GuestMemory`, with the host pointers they hold |
| `HostCallsProofs` | What each host function makes of a well-formed memory: lemmas about `HostCalls` and their proofs (extends `GuestMemoryProofs`) |
| `HostSpecProofs` | Theorems about `HostCalls` as a specification, from those lemmas |
| `InterpreterProofs` | Theorems about `Interpreter` and their proofs |
| `HashList` | The hash list: operators without variables |
| `HashListProofs` | What put and find do to the names of a list, as lemmas |
| `Induction` | Induction and recursive functions in the form the provers can use, and division with remainder |
| `WasmModule` | What the WebAssembly specification says a file stands for, and which files are valid |
| `Loader`, `MCLoader` | Registration of host functions and both passes over the sections, with `HashList` |
| `LoaderProofs` | Theorems about `Loader` and their proofs (extends `HashListProofs`) |
| `Environment`, `MCEnvironment` | `drekkar_wa_env.c` as `main.c` drives it |
| `EnvironmentProofs` | Theorems about `Environment` and their proofs |
| `WasmNumeric` | What the specification says the integer instructions do, bit by bit |
| `Numeric`, `MCNumeric` | The integer instructions on 64 bit slots |

An operator whose comment calls it a *mutant* is not part of a specification. It
is a plausible mistake in the operator it stands before; `PROJECT.json` says
which property finds it.

### GuestMemory

`mem` is `dwac_memory` with the exception flag of `dwac_data`. `Translate` is
`translate_addr_grow_if_needed`: it returns the memory it leaves behind and the
segment its pointer points into. An array is a function on `Addr`, the
addresses a model tracks; the sizes (256, 0xF000, 0x1000, 65536) are the
code's. `fault` says which assertion, refused allocation or NULL ended the
process; after it nothing happens. `Init` is the state after the first data
segment has been stored (one of `FirstSegments`), wherever it lies: below 0xF000
it makes lower memory, above it makes upper memory and leaves lower memory at
capacity 0. Later segments are stores like any other.

The first array of lower memory is made without looking at upper memory (twice a
capacity of 0 is 0, 1599), so with such a segment lower memory can be made over the
beginning of upper memory (`Overrun`). Nor does anything but the allocator keep
lower memory below the arguments. From then on an address is in two arrays and the
promise of `FlatMemory` has ended (`gone`); the model goes on, and the next merge
fails its assertion.

Assumptions of the model: the host grants blocks up to `MaxAlloc` for lower and
upper memory, whatever `MaxAlloc` is, and always grants growth of the argument
area. In the runs the argument area begins at 16 MB instead of 0xFF000000
because TLC's integers have 32 bits; the proofs do not depend on it.

### Interpreter

One address holds one instruction, so the bytes of immediates are abstracted.
`d` is `dwac_data`; `d.result` is "ticking" while `dwac_tick` runs, "idle" when
the host holds no result, otherwise what `dwac_tick` returned. The operand stack
is a cyclic array of `Capacity` slots with a sentinel in the last one; the wrap
of 16 bit indices is `Wrap`, the signed comparisons are `Signed` and `LessThan`.
An instruction is an operator from the machine to the machine its handler leaves
(`OpenIf`, `End`, `Br`, ...) and an action that applies it. Gas is charged where
the code charges it. A host function returns, raises, or leaves the stack
unbalanced. What `br_table` reads its labels into and does not free when a label is
refused (2280) is no state of this module but a block of `Environment`. The host
may call (`Call`), resume a tick that ran out of gas
(`Resume`), take results (`TakeResults`) and recover from a failure (`Recover`).

`WasmReference` computes the outcome of the same call from the WebAssembly
specification: operands as a sequence, zeroed locals, labels that unwind. It
shares no definition with the interpreter except the program.

### HostCalls

Most host functions translate several guest addresses and use the host pointers
afterwards. A growing array always moves (`dwac_st_resize` takes a new block,
325), so a translation can make a pointer stale that was taken before it. A
pointer is the segment and the bounds the segment had (`Pointer`): bounds and
place of an array change together. `Take` is a translation, `Use` and `Put` are
accesses through a pointer. `fate` says what an access met: nothing wrong
("fine"), an array that had moved ("stale"), a place beyond the array
("outside", where only 4 bytes of a vector were translated), an assertion
("abort"), or a translation after which an address is in two arrays ("overrun").
C leaves undefined what follows, so after anything but "fine" the
model stops.

A call is computed from the memory it finds, translation by translation in the
order of the code, and then happens in one step: nothing runs during a host
function. `FlatHost` says what the same call promises on one flat array, and
`HostImplementsFlat` is the refinement. Where the code promises less than
WebAssembly, so does `FlatHost`: memory.grow answers the old size and changes
nothing. What a read brings is one byte value for the whole buffer; a read is
complete, half or failed. Words and entries of vectors are one tracked byte
that stands for them (`Coded`, `Buffers`). A string of the guest is 8 bytes with
its zero. `SystemCalls` are the other functions as the areas they translate,
in their order: open, ioctl, readlink, stat64, getdents64, log_str and
`__assert_fail`; those the code calls not implemented only raise (`Raise`).
The answer is the number the host's own call returns (`returns`), also where a
failure is not reported in errno. A wrong number of parameters raises too; ioctl
with fewer than three raises and goes on all the same (`Short`).

### Loader

A file is a sequence of sections with their contents decoded (the reader of
signed LEB128 is in `Numeric`). A section is one step of a pass; elements of its
vector are parsed until one is refused: `Items` is the loop of every such
section, `Item` what it does with one element. `prog` is `dwac_prog`, `data` what the
sections define of `dwac_data`. The second pass follows also when the first has
refused the file, because `check_exception` turns its result into DWAC_OK.

- A host function is known by its number in `Available`, a guest function by
  its index in `functions_array` and the generation of that array
  (`prog.array`): the function section reallocates it, and a name exported
  before points to the old one.
- The hash list has the code's hash with 16 of its bits, which is enough for
  any capacity of the runs; names are sequences of character codes. A zero ends a
  name in C; to the model it is a character like any other, and no file of the
  runs has one in a name.
- The environment registers each name once (`register_functions`), which
  `LoaderAssumption` says of `Available`.
- `func_idx` of an imported function is never written and 0, as the allocator
  leaves it.
- "abort" is a failing assertion, also that of the allocator when an array is
  reallocated without growing (an import section and an empty function
  section), and an export of an index beyond `functions_array`, where the code
  reads what is there. An import of a type there is not is a null pointer (4166),
  and an element offset that is not a constant pops the sentinel (4339), for which
  a table of 16 GB would be made; both are "abort" too.
- A data segment is copied to a flat memory: lower and upper memory are the
  subject of `GuestMemory`. `lower` says whether lower memory was given out, which
  a second memory section asks; segments above 0xF000 would leave it empty, and
  memories of that size are not in the runs.
- The end of a data segment is a u32 that may wrap around (4614): `AddressSpace`
  is 2^32, 16 in the run. The bytes of a segment that does go to the argument area.
- A function type is its numbers of parameters and results, a body is a sequence
  of bytes nothing looks into but for its last "end" (`ended`).

`WasmModule` shares with it only the form of a file and the limits
(`MaxNof`, which is 16 + size / 16; `MaxName`, 64; `MaxPages`). It calls a file
valid when the specification does and the file keeps within those limits and
the documented restrictions: imports are functions, one table, one memory, a
start function of its own, constant offsets of elements. A function, table or
memory section that is there is not empty.

### Environment

The stages of `dwae_init`, `dwae_tick` and `dwae_deinit` with `check_exception`
between them. A guest function is an amount of metered work and the way it ends:
return, trap, a `br_table` to a label there is not, exit, return with more memory
than the quota, or never. Main takes argc and argv or, as `_start`, nothing
(`MainTypes`). `--function_name` and the arguments it passes on
are left out; main with any other number of parameters is refused as
DWAC_TO_MUCH_ARGUMENTS and not modelled. The block
stack holds the calls not finished, in particular the start function, which is
pushed when the data sections are parsed.

The operand stack is `sp`, the number of operands, and `operands`, what has been
written at a position: an argument or the result of a function. `sp` is -1 when
one more has been popped than was there; a write at position 0, which is the
last slot at 16 bits, destroys the sentinel. A call reserves `Locals` slots
(`nof_local`, at least 10) without writing them, so what they hold is what was
there. Two kinds of files stand for a data segment whose offset expression
fails: nothing looks at that, and the sentinel is popped for the offset. In a
memory of ordinary size the segment is then refused and the stack pointer stays
one too low (`bad_offset`); in one above 1.9 GB it is not (`far_offset`), and
the exception stays. The start function is set up whenever the data sections are
good, so also after a program that was refused behind its exports (`bad_program`).

`heap` names every block: `dwac_data_deinit` and `dwac_prog_deinit` free the ones
they know (`DataBlocks`, `ProgramBlocks`), the array of labels `br_table` leaves
behind is not among them, and the process ends as "end", as "leaked" (the
assertion of `dwac_st_deinit` fails) or as "crashed": a program with too many
functions (`too_many`) is refused between `total_nof` and the array it counts
(4204), and `dwac_prog_deinit` looks at functions that do not exist.

### Numeric

A slot is a number below `2^W64`: the union `dwac_value_type`. `S32`, `U32` and
`S64` are its members as the macros `POP_*` and `TOP_*` read them, `Set` is what
`PUSH_*` and `SET_*` do to all 64 bits. An i32 has only the lower half: a
constant and a signed result are sign extended, an unsigned one is zero
extended, `i32.wrap_i64` clears the upper half, and signed overflow, which is
undefined in C, may leave the wrapped result or the wide one (`Overflowing`). A
constant is read from its LEB128 bytes by `LebReadSigned`; `WasmNumeric` says
which sequences of bytes encode a value (`Encodings`: any number of padding bytes
up to the maximal length), `Group` is the number of bits per byte. The guest executes any valid sequence of instructions on up to two operands, so each
instruction meets every upper half another one can leave. `operands` is what the
specification promises, computed by `WasmNumeric` from sets of bit positions
and integers, never from slots. `access` is what a load, a store or a conversion
to f64 hands on.

## Runs

| Run | Shows | Bounds |
|---|---|---|
| `memory_legal` | Any order of accesses inside the memory: the segments stay apart, merge without an abort, lose nothing, a range inside one array stays inside one, and they implement the flat array; the footprint is at most twice the memory | 2 to 3 pages, six ranges placed at every decision of the code (a power of two, both sides of 0xF000, the second page, the last word); all orders |
| `memory_wild` | Accesses beyond the memory, across `ArgsBase`, in the arguments and empty, with resizing and exceptions, the first data segment in lower memory or in the second page: where lower memory ends below upper memory they stay apart, whatever grows; upper memory never reaches the arguments; pointers stay inside one array, nothing backed is lost, and the flat array holds until the first array of lower memory has been made over upper memory | nine ranges, sizes of 1 and 300 pages; with the segment in the second page the first lower array ends below upper memory, at its beginning or beyond it; the access far above upper memory that merges the segments first is among them |
| `host_calls` | Host functions with several pointers: while no pointer goes bad they do what they promise on the flat array, and none goes bad when every range but the first (of vectors: the whole vector, the count and all buffers) was resident | 2 pages, five tracked bytes: in lower memory, just beyond it, in what merges with upper memory, at the beginning of upper memory and in the second page; copies between all three regions, vectors of one and two buffers, two arguments |
| `loader_modules` | Files with every section, any two places missing, altered or of the wrong length, neighbours exchanged, a section twice, a vector too long: a valid file is loaded as the specification reads it, a name that is found stays found with the same pointer, a hash list keeps free entries | hash lists of 4 entries at first that hold up to 5 names, names of up to 3 characters, vectors of up to 5 elements, pages of 4 bytes, 16 addresses |
| `interpreter_bodies` | Every valid body of up to 7 instructions agrees with the reference, interrupted every 1 or 3 metered instructions | 1814 programs, one bit values, both arguments |
| `interpreter_calls` | Two calls each of written programs with calls, recursion, tables and failing host functions; every tick returns | 2 bit values, 128 stack slots, 6 block stack entries |
| `numeric_integers` | Any sequence of integer instructions: every operand, trap, address, stored bits and converted integer is what the specification says, whatever is in the upper half | the widths 8, 16, 32, 64 scaled to 1, 2, 4, 8; constants at zero, one and both ends of both signed ranges, everything their combination produces (an i64 takes all 256 values, an i32 appears in 65 different slots); LEB128 bytes of 3 bits instead of 7, all encodings of each constant; two operands |
| `environment_run` | One life with every kind of file and every mix of guest functions, main with argc and argv or without: a quiet guest is run completely, main gets its arguments when what runs before it returns in time, exit is final, the host returns | work of up to 4 steps with 3 steps of gas, so that every function can end before, at and after the end of its gas; 2 locals, as many as main has parameters |

The bounds of the generated bodies are the smallest at which every control
instruction occurs in combination with every other, nested once; the
mutants of `PROJECT.json` (a scan that ignores nesting, a comparison off by one,
results that are not moved) are all found within them. `memory_legal` contains an order
of accesses for every branch of `Translate`, which its mutants confirm too.

Bodies in the passing interpreter runs keep to what compilers for C emit: no
operands under an `if`, no branch to the label of the function, blocks
typed by index, one result at most. The violation runs show what happens outside.

The widths of `numeric_integers` keep the proportions the code depends on: each is
a power of two, so that masking a count is taking it modulo the width, and i64
is twice i32. Guests in it keep shift counts below the width and do not ask for
the leading or trailing zeros of 0: both are undefined in C (3193-3215,
3062-3079), where the specification takes the count modulo the width and counts
all bits. Compilers for C do not emit the first; a processor that masks the
count does the right thing anyway.

The files of `loader_modules` are a module that uses all 13 sections with up to
two changes, so every reference from one section to another is met with either
end changed: a valid file with two imports and a rehash of both lists, overlapping
data and element segments, globals initialised by globals, and every refusal and
abort of both passes are among them.

Deadlock is not checked: a memory whose process is gone, an interpreter whose
host makes no more calls, a loader at its end, a host call that has gone bad and
an environment after `dwae_deinit` have stopped.

### Violations

Each shows a disagreement between the code and its own assertion, comment or
documentation; `PROJECT.json` quotes the line.

| Run | What happens |
|---|---|
| `memory_boundary` | Legal accesses fail the assertion `end <= upper_mem.end` |
| `interpreter_operand` | `if` over an operand computes a wrong result |
| `interpreter_deep` | Deep recursion steps over the sentinel |
| `environment_gas` | A main function that runs out of gas is reported as done |

More disagreements were seen while modelling and have no run of their own. Guest
memory and host functions:

- without a data segment, or with the first one above 0xF000, lower memory has
  capacity 0, its first growth may go over upper memory (1604), and the assertion of
  `merge_memories` (1552) fails: a segment at 0x10000, then accesses at 65520 (upper
  memory moves down) and 40000 (lower memory takes 65536 bytes);
- an access of 0 bytes beyond lower memory (fd_write of an empty buffer) fails
  the assertion of the virtual storage (961);
- an access beyond the memory size raises nothing when it starts below twice the
  capacity of lower memory (1599), although 1624 calls such an access an error;
- memcpy_big, args_sizes_get, fd_write, fd_read and args_get use a host pointer
  after a translation that may have moved its array (env.c 184, 147, 726); the
  properties `PreparedCopiesSafe` and `PreparedVectorsSafe` say when that cannot
  happen;
- of the vector of fd_write and fd_read only 4 bytes are translated (env.c 147,
  442), so its later entries may lie beyond the array;
- args_get leaves out the terminating zeros of the strings (env.c 734), which
  are there only in memory never written;
- fd_write does not look at what `write` returns (env.c 160) and reports all
  bytes as written;
- memory.grow answers as if it had grown the memory (2767) and has not.

Loading and life cycle:

- `check_exception` wipes out the result of `dwac_parse_prog_sections`
  (env.c 918), so `dwae_init` returns DWAC_OK for a refused program, although
  env.c 1027 says "Returns zero (DWAC_OK) if OK", and the second pass follows
  with half a program;
- `br_table` returns without freeing the array of labels it has allocated (2263) when
  a label is refused (2280), so that `assert(alloc_counter == 0)` (98) fails when the
  process ends; in `Environment` the block stays, and the process ends as "leaked";
- `total_nof` is raised before it is compared with the limit and the array made that
  large after it (4204-4206), so for a program refused with
  DWAC_TO_MANY_FUNCTIONS `dwac_prog_deinit` (4836-4845) looks at functions that do
  not exist; the process ends as "crashed";
- the start function of a program that was refused is set up in the second pass all
  the same;
- an imported start function is refused (4657), and an exported import has
  `func_idx` 0 and is refused when called;
- an import section with an empty function section aborts in the allocator
  (4206); a second table section is accepted (4228 looks at a size no table
  section sets); entries of the table no element initialises read as function 0
  instead of as a trap;
- element segments are evaluated before the globals exist (4338), so their
  offsets must be constants; that one is not is noticed by nobody;
- an import whose type does not exist is read through a null pointer (4166), and a
  data segment whose end wraps around passes for one that ends low (4614);
- when the offset expression of a data segment fails the sentinel of the operand
  stack is popped (4610); the stack pointer stays one too low, the arguments of
  main overwrite the sentinel, every tick ends at once, and the host reports OK;
- the start function is pushed, not run, when the data sections have been parsed
  (4664): it runs after the first function the environment calls, although 4653
  says it is invoked when the module is instantiated. When it ends it unwinds
  the operand stack to where it was before the arguments of main were pushed;
  main is then refused for want of operands or called with others, and the host
  reports OK;
- `call_errno` takes a result also from a call that failed (env.c 966): it takes
  a local or an argument of main for the address of errno, and main gets locals
  for arguments.

Interpreter and numeric instructions:

- `br` to the label of the function itself takes the index of the function for
  an address (2212) and ends in "unreachable";
- two results of a block that overlap the place they are moved to (2138-2144)
  overwrite each other;
- a block typed by a value is refused: 0x7f is read as -1, whose negation is
  compared with 0x7f (1447), although 1418 lists the value types "used for
  blocks, loops and ifs";
- shifts by the width or more and the zeros of 0 are undefined, see above;
- `f32.convert_i32_s` stores the bits of the integer (3787) and
  `f32.convert_i32_u` converts all 64 bits of the slot (3793);
- the truncations compare with limits that the float type rounds, and refuse
  fractions beyond the largest integer that truncate to it (3631-3775).

The models have all of these but the last two, which are about floating point;
the properties are conditional where the code deviates, or the guests of the
passing runs keep away from it, and each says so.

### Fairness

`Interpreter` assumes weak fairness of the instructions only: once in
`dwac_tick` the processor executes the next one, and nothing else can happen.
`TickReturns` needs no fairness of the host. `Environment` is one sequential
program and assumes weak fairness of all of it for `HostReturns`. `HostReturns`
depends on the defect `environment_gas` shows: with the loop of
`call_and_run_exported_function` at work, a guest that never ends would keep
the host, one tick after the other. `GuestMemory` states no liveness.

## Proofs

`GuestMemoryProofs` proves for every set of addresses, accesses, page counts and
argument sizes, wherever the first data segment may lie, and for all
sizes that satisfy `ConstantsAssumption`:

- `TypeCorrect`, `PointersInside`, `NothingUnbacked`: the type, soundness of the
  translated pointer and that nothing backed is lost;
- `OnceApart`: where lower memory exists and ends below upper memory, no step makes
  them overlap;
- `RefinesFlat`: `GuestMemory` implements `FlatMemory`, whose content is the
  `View` of the segments, until an address may be in two arrays;
- `UpperNeverEmpty`: the assertion of the virtual storage holds when no access is
  empty, nor a first data segment that is not at 0.

Their invariant `IInv` is a well-formed memory (`Fit`) in which an empty range
alone can have failed that assertion. The lemmas follow the calls: growth of each
storage, `Merge`, the three outcomes of `Expand`, `Translate`, then one step per
action; what each of them keeps is `Keeps`: what was backed is, and the view is the
same unless an address may now be in two arrays.

Two more hold of programs laid out as compilers do, with a first data segment that
is not empty and ends below 0xF000. That is a premise of these theorems
(`FirstSegmentLow`); nothing in the code enforces it, and what happens without it is
in the list above:

- `SegmentsApart`: lower and upper memory never overlap;
- `MergeNeverAborts`: the assertion in `merge_memories` holds.

The invariant `ApartInv` adds to `IInv` that lower memory is never empty
(`Based`). That is what makes the argument work: a non-empty lower memory at
most doubles or grows to exactly what is needed, and the code tests both against
the beginning of upper memory before it grows, so it can never jump over it;
from capacity 0 the first growth goes to a power of two the code does not
test. With these two theorems `RefinesFlat` holds without an end for every such
program for which the host refuses blocks beyond the begin of the arguments.

- `StaysResident`, in `HostCallsProofs`: a range inside one host array stays
  inside one;
- `FootprintStaysBounded`: while the guest stays inside its memory and never
  gives any back, the arrays take at most twice its size, when the first data
  segment is low (`FirstSegmentLow`) and lies inside the memory
  (`FirstSegmentInside`). Its invariant `Slim`
  speaks of the increment the virtual storage has doubled to, which the property
  does not mention.

`HostSpecProofs` proves for every place of the first data segment, every set of
calls, vectors of any length and every answer of the files:

- `HostTypeCorrect`: the memory stays well formed under every host function;
- `CopiesSafe`, `VectorsSafe`: memcpy_big and args_sizes_get, and fd_write,
  fd_read and args_get, never use a bad pointer when what they translate was
  resident before the call - except the range translated first, or the first
  buffer;
- `HostRefinesFlat`: until a pointer goes bad or an address may be in two arrays
  every host function does on the segments what `FlatHost` promises on one flat
  array.

The argument for the pointers is about bounds only: every translation leaves
memory whose bounds are `Wider`, so what was resident is; and the translation of
a resident range changes nothing (`ResidentTranslate`), so a pointer taken before
it is good. For the refinement every access through a pointer that is fine is an
access to the view of the segments (`HostCallsProofs`), and the loops over vectors,
strings and areas are shown to do on both sides what one turn does. The
assumptions are in `HostAssumption`: a copy does not overlap itself (`memcpy`
requires that), the two areas of args_get lie apart, and an entry of a
vector is in a set of tracked addresses. `WordsAreBytes`, a hypothesis of these
theorems, says that the one tracked byte of a word holds whatever number the host
stores there.

`InterpreterProofs` proves for every set of programs that satisfy
`ProgramsAssumption`, every capacity of the operand stack up to 16 bits, every
size of the block stack and all amounts of gas:

- `TypeCorrect`: every register keeps its width, every address is one of the
  program, the block stack keeps to its memory, and `dwac_tick` never works
  without gas;
- `CallsBalance`: a call that ends with OK has left nothing behind, however it
  branched, called and returned and whatever the host did between the ticks.

`ProgramsAssumption` is what validation and parsing give: indices name something,
a function begins and ends in the file, every construct is closed. The property
says nothing of a call under way, so the invariant (`Kept`) does: the first entry
of the block stack is the frame of the host's call (`Bottom`): stack pointer, frame pointer and type are those
of `call`. Every entry has a type that exists, and those of calls name functions
of the file. One lemma per statement of a handler and one per handler carry it.
That results agree with the specification (`ResultsAgree`) needs the operands
themselves and stays with TLC.

`LoaderProofs` proves for every set of files, valid or not, every list of host
functions whose names fit and differ, every initial size of the hash lists and every limit:

- `TypeCorrect`: imports stand before the other functions, the results are at most
  two, and both hash lists are at most half full, so that a search ends;
- `NamesStay`: a name once found is found with the same pointer for good;
- `ValidLoad`: a valid module within the limits is loaded, and no assertion fails;
- `ValidAsWritten`: every part of what is loaded is what the file stands for.

The first two rest on `HashListProofs`, where a list is a map (`PutDoes`, `PutFinds`,
`FindIs`). Its invariant is `Reached`: between the place a key belongs to and the
place it is at there is no free entry and none with the same key. Every growth
enters all entries anew, and the lemma about that loop (`ExpandedDoes`) keeps
the set of entries (`Content`) and this invariant. That the parsers only ever
add to a list (`Grown`) then gives `NamesStay`. A file may hold anything that can
be decoded (`Decoded`).

`ValidModulesLoad` is not inductive: it does not say what is known of a file half
read. `LoadInv` does. Its part `Ready(f, k, c)` is the program after the first `k`
sections of a valid file `f`: which parts are still empty because their section
has not come, the types, how many functions there are and how many of them are
imports, and that every registered name is still found. `DataReady` is the same for the second
pass: memory, globals, and whether lower memory was given out. The steps of the
proof follow the code's checks:

- sections stand in the order of the specification, each at most once
  (`InOrder`, `NotYetSeen`), so what a check wants to be empty is empty, and the
  vector of a section is all the file has of its kind (`OneSection`);
- every item of a valid section meets the conditions of its handler (`ValidTypes`,
  `Provided`, `ValidCode` ...), and what the handler changes is limited to its own
  part (`Steady`, `AfterImports`, `AfterGlobals`, `DataSteady`); the loop over the
  items is `LoopKeeps`;
- the start function is not an import (one of the limits within which `Valid` calls
  a module valid), so `StartSetUp` does not refuse it.

`ValidAsWritten` compares what the parsers build section by section with
`WasmModule`, which decodes the file as a whole. `Ready` counts functions and
says which parts are empty, not what they hold, so the invariant `WriteInv` adds
three things:

- `Built(f, k, c)`: of the sections among the first `k`, the types are written, the
  imports are functions with the host functions of their names, the other functions
  have their types, those with code have their bodies and room for their locals,
  every exported name is found with its function, and the table has its entries; the
  start function is the one named. A
  later section leaves all that as it is (`SectionKeeps`, `FunctionsStay`); the section
  itself makes it true (`TypesWritten`, `CodeWritten`, `ExportsWritten`, `TableWritten`);
- `Filled(f, k, d)`: the same of memory and the second pass. An address that is not in
  the domain of `memory` yet reads as 0 (`Shows`). Segments may overlap, in memory as
  in the table: `Overwritten` is the reference after each of them, and one turn
  of the loop takes one to the next (`OverwrittenSteps`, `SegmentsWritten`);
- `Registered(c)`: in the hash list of the host are only names of `Available`, each with
  the number of a function that has it. Where two had the same joined name the list
  would keep the first, so the proof needs the assumption on `Available`.

A section that is missing has an empty vector in the reference, and what has not been
written is what was there at first; `Whole` and `Loaded` say so at the end of either
pass, and `WrittenLoaded` takes them to the property. TLC checked `WriteInv` on the
30992 states of `loader_modules` before it was proved.

The proof also corrected the model: in `ProgSection` and `DataPassSection` the guard
of the skipped sections overlapped others, which leaves the value of a `CASE` open
although TLC takes the first. The guards are now disjoint, as those of the `switch`.

`EnvironmentProofs` proves for every gas limit, every amount of work and every set
of files and guests:

- `TypeCorrect`: the types, with gas and a block stack under every tick;
- `QuietGuestsComplete`: a guest that does nothing wrong is run completely and in
  order;
- `ArgumentsAlwaysArrive`: when `__errno_location` and the constructors return in
  time and there is no start function, main gets its arguments, if it takes any, and
  errno its address;
- `ExitsAreFinal`: nothing of the guest runs after `proc_exit`.

The invariant `IInv` of that module says which stages a core function is called
from, and that an exit stays visible until `dwae_deinit` (`Staged`); and that a
quiet guest has at most one call under way, with more gas than work left, and has
run exactly the functions of the stages before (`Undisturbed`), over an operand
stack that holds the arguments of main and what each function has taken and
left (`Balance`). That is what `QuietGuestCompletes` lacks to be inductive: it
speaks of the end only. `InOrder` says the same of a guest whose main function
may do anything, until main ends.

### Induction over data

The code loops over vectors, entries and digits. The models write such a loop as a
recursive function over `0..n`, and the induction theorems of the library, which
take a predicate as a parameter, cannot be used. `Induction` proves what is needed
in a form without such parameters: a set of numbers that holds 0 and every
successor of its members holds all (`InductiveSet`, from the well-foundedness of
the naturals), a loop whose steps stay in a set stays in it (`LoopKeeps`), and a
recursion has a solution (`Recursion`).

### Only model-checked

- `ResultsAgree` and `FailuresDue`: the agreement of a whole run of the interpreter
  with the specification. It holds only of programs that validation accepts and that
  keep to what `MCInterpreter` generates (no operands below an `if`, no local read
  before it is set), so a proof would need the height of the operands at every
  address; in the runs the generator knows it.
- Everything about `Numeric`: it uses the recursive operators of `Bitwise`, and its
  arithmetic modulo powers of two is beyond the provers.
- Liveness (`TickReturns`, `HostReturns`), which the prover does not handle.

## Order of the work

The modules were written in the order of what depends on what: guest memory with
its proofs; control instructions and calls; the environment with its proofs;
integer instructions; host functions on the guest memory with their proofs; the
operand stack of the environment; hash list and section parsers; LEB128; proofs
of the footprint, the refinement of `FlatHost`, the interpreter, the hash list and
the loader, and last that what is loaded is what the file holds. What could follow:
globals and the lengths of instructions in `Interpreter`, truncations of floats as scaled
integers, the accounting of the allocator.

## Not modelled

- Floating point: TLC has no reals.
- Formatting and logging, and parsing of command line options: no state.
- Files behind the system calls: a call answers what the host likes.
- The debug lists, headers and footers of the allocator, `dwac_linear_storage_8`
  as a byte queue, `pop` of the storages: not used by a guest.
- global.get and global.set: an array access behind a bounds check. memory.copy,
  memory.fill and all else with the prefix 0xfc are not in the code.
- Locals that are not cleared, and operands left in a loop, are in `Interpreter`
  but not in its guests: the code promises nothing there a property could state.
- The sizes of host memory beyond a largest block.
- Shifts by the width or more and the leading or trailing zeros of 0: undefined in C,
  so nothing can be said of them.
- The options `--function_name` and its arguments.
