----------------------------- MODULE MCNumeric -----------------------------
(***************************************************************************)
(* Constants for Numeric at the widths 1, 2, 4 and 8: zero, one, a small   *)
(* number, and both ends of the signed range of i32 and of i64.            *)
(***************************************************************************)
EXTENDS Numeric

Boundaries ==
  {0, 1, 3, 2^(W32 - 1), 2^W32 - 1, 2^(W64 - 1), 2^W64 - 1}
Patterns == {0, 2^W8, 2^(W16 - 1) + 2^(W32 - 1), 2^(W64 - 1), 2^W64 - 1}
=============================================================================
