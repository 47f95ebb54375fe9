------------------------------- MODULE CeilDiv -------------------------------
(* usize::div_ceil, which cuts messages and files into pieces.             *)
EXTENDS Integers

CeilDiv(a, b) == (a + b - 1) \div b
=============================================================================
