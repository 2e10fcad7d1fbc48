------------------------------- MODULE Numbers -------------------------------
(***************************************************************************)
(* Arithmetic the modules of the share assembly have in common.  Powers of *)
(* two are a function of their own, so that what is defined with them can  *)
(* be reasoned about step by step.                                         *)
(***************************************************************************)
EXTENDS Integers

Pow2[n \in Nat] == IF n = 0 THEN 1 ELSE 2 * Pow2[n - 1]

CeilDiv(a, b) == (a + b - 1) \div b
Least(a, b)   == IF a <= b THEN a ELSE b
=============================================================================
