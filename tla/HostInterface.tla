--------------------------- MODULE HostInterface ---------------------------
(***************************************************************************)
(* The calls a guest makes of the host functions in drekkar_wa_env.c, and  *)
(* what in guest memory each of them is about.  Shared by FlatHost, which  *)
(* says what such a call promises, and HostCalls, which says what the code *)
(* does.                                                                   *)
(*                                                                         *)
(* One tracked byte stands for a word or an entry of a vector stored at    *)
(* its address: Coded maps a word to the byte, Buffers a byte to the       *)
(* buffer <<address, length>> an entry names.                              *)
(***************************************************************************)
EXTENDS Integers, Sequences

CONSTANTS
  Copies,     \* <<dest, src, num>> of emscripten_memcpy_big
  Vectors,    \* <<iovs, iovs_len, nwritten>> of fd_write and fd_read
  Descriptors,\* the file descriptors guests use
  SizeWords,  \* <<argc, argv_buf_size>> of args_sizes_get
  ArgvAreas,  \* <<argv, argv_buf>> of args_get
  Argv,       \* the host's argument strings: [len, letter], the letter
              \* standing for what the string says
  SystemCalls,\* the other calls, Quiet, Failing or AssertFail
  Increments, \* operands of memory.grow
  Buffers,
  Coded(_)

EntrySize == 8   \* sizeof(wa_ciovec_type)
PtrSize   == 4   \* DWAC_PTR_SIZE
StringSize == 8  \* a string of the guest with its terminating zero
StatSize  == 16  \* sizeof(struct dwae_guest_stat)

(* The first i strings with a byte each for its terminating zero.          *)
Sizes[i \in 0..Len(Argv)] ==
  IF i = 0 THEN 0 ELSE Sizes[i - 1] + Argv[i].len + 1

(* Where the string of argument i (from 0) begins.                         *)
StringAt(buf, i) == buf + Sizes[i]

(* dwae_get_command_line_arguments_string_size *)
StringsSize == Sizes[Len(Argv)]

(* An area a system call is about: where, how many bytes are asked of the  *)
(* translation, how many the call then uses, whether it writes them.       *)
Area(at, asked, used, writes) ==
  [at |-> at, asked |-> asked, used |-> used, writes |-> writes]

Areas == [at : Nat, asked : Nat, used : Nat, writes : BOOLEAN]

(* A system call: the areas it translates, in this order, before it uses   *)
(* them; the error report that may follow; what the host's own system call *)
(* returns; whether it ends in an exception instead of an answer.          *)
Quiet(areas, returns) ==
  [areas |-> areas, report |-> <<>>, returns |-> returns, raises |-> FALSE]
Failing(areas, errnoLocation) ==
  [areas |-> areas, report |-> <<Area(errnoLocation, 4, 4, TRUE)>>,
   returns |-> -1, raises |-> FALSE]
AssertFail(cond, file, func) ==
  [areas |-> <<Area(cond, 256, 32, FALSE), Area(file, 256, 32, FALSE),
               Area(func, 256, 32, FALSE)>>,
   report |-> <<>>, returns |-> 0, raises |-> TRUE]

(* With fewer than three parameters ioctl raises its exception and goes on *)
(* all the same, with what it finds on the operand stack.                  *)
Short(call) == [call EXCEPT !.raises = TRUE]

(* Mutant of Result: the error number negated, as the kernel answers. *)
ResultErrno(call) == IF call.report = <<>> THEN call.returns ELSE -2

(* The number the system call returned is the answer: also where a failure *)
(* is not reported in errno, as in open and readlink.                      *)
Result(call) == call.returns

Open(pathname, mode) ==
  <<Area(mode, 4, 4, FALSE), Area(pathname, 1, StringSize, FALSE)>>
Ioctl(argument, size) == <<Area(argument, 1, size, TRUE)>>
Readlink(pathname, buf, bufsiz) ==
  <<Area(pathname, 1, StringSize, FALSE), Area(buf, bufsiz, bufsiz, TRUE)>>
Stat64(pathname, statbuf) ==
  <<Area(statbuf, StatSize, StatSize, TRUE),
    Area(pathname, 256, StringSize, FALSE)>>
Getdents64(buf, size) == <<Area(buf, size, size, TRUE)>>
LogStr(string) == <<Area(string, 1, StringSize, FALSE)>>

=============================================================================
