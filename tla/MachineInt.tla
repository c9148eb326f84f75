----------------------------- MODULE MachineInt -----------------------------
(***************************************************************************)
(* Signed integers of a given width, half being 2^(width - 1): what an i64 *)
(* operation yields in a release build, where it wraps, and whether a      *)
(* build with overflow checks panics instead.                              *)
(***************************************************************************)
EXTENDS Integers

InRange(n, half) == -half <= n /\ n < half

\* The result of one addition or subtraction of two numbers in range.
Wrapped(n, half) == IF n >= half THEN n - 2 * half
                    ELSE IF n < -half THEN n + 2 * half ELSE n

\* i64::unsigned_abs
UnsignedAbs(n) == IF n < 0 THEN -n ELSE n
=============================================================================
