----------------------------- MODULE PowersOfTwo -----------------------------
(***************************************************************************)
(* What bit n of a number is worth.  The function is the library's 2^n,    *)
(* written by its recursion, which the proofs about shifts and products    *)
(* need: the library's exponentiation has no facts of its own.             *)
(***************************************************************************)
EXTENDS Integers

Pow2[n \in Nat] == IF n = 0 THEN 1 ELSE 2 * Pow2[n - 1]
=============================================================================
