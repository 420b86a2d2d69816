------------------------------- MODULE Basics -------------------------------
(***************************************************************************)
(* Python's None and the two-argument max and min, shared by all modules.  *)
(***************************************************************************)
EXTENDS Integers

\* Absence of a time, a day, a price or a mid; every real one is in Nat.
None == -1

Larger(a, b)  == IF a >= b THEN a ELSE b
Smaller(a, b) == IF a <= b THEN a ELSE b

\* The floor at zero of max(0.0, x).
Floor0(x) == Larger(0, x)
=============================================================================
