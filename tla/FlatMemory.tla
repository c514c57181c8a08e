----------------------------- MODULE FlatMemory -----------------------------
(***************************************************************************)
(* What the guest is promised: one array of bytes, all 0 at first, that    *)
(* keeps what is stored, whatever host arrays stand behind it.  The        *)
(* promise may end at any moment, when the host aborts or its arrays run   *)
(* into each other; what is seen after that is open.                       *)
(***************************************************************************)
EXTENDS Integers

CONSTANTS Addr, Byte, Accesses, ArgSizes, ArgsBase

VARIABLES
  bytes,  \* content of every address
  ret,    \* the bytes the latest load delivered
  gone    \* the promise has ended

vars == <<bytes, ret, gone>>

Span(a, n) == {x \in Addr : a <= x /\ x < a + n}

Init ==
  /\ gone \in BOOLEAN
  /\ ~gone => bytes = [x \in Addr |-> 0]
  /\ ret = [x \in {} |-> 0]

Load(a, n) ==
  /\ ~gone
  /\ ret' = [x \in Span(a, n) |-> bytes[x]]
  /\ UNCHANGED <<bytes, gone>>

Store(a, n, c) ==
  /\ ~gone
  /\ bytes' = [x \in Addr |-> IF x \in DOMAIN c THEN c[x] ELSE bytes[x]]
  /\ UNCHANGED <<ret, gone>>

(* The host writes the command line arguments. *)
SetArguments(n, c) == Store(ArgsBase, n, c)

Lost == gone'

Next ==
  \/ \E r \in Accesses : Load(r[1], r[2])
  \/ \E r \in Accesses : \E c \in [Span(r[1], r[2]) -> Byte] :
       Store(r[1], r[2], c)
  \/ \E n \in ArgSizes : \E c \in [Span(ArgsBase, n) -> Byte] :
       SetArguments(n, c)
  \/ Lost

Spec == Init /\ [][Next]_vars

=============================================================================
