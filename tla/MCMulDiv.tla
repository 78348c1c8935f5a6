------------------------------ MODULE MCMulDiv ------------------------------
(***************************************************************************)
(* Execute with words of four bits, the narrowest with halves of two bits, *)
(* and bytes of one.                                                       *)
(***************************************************************************)
EXTENDS Execute

\* As signed words 0, 1, 3, 6, 7, -8, -7, -6, -3 and -1: both zeros of the
\* shortcuts, small and large divisors, quotients and remainders of every sign.
EverySign == {0, 1, 3, 6, 7, 8, 9, 10, 13, 15}

NegativeDividend == {1, 3, 9}

\* Words whose bytes differ from their neighbours, and words whose do not.
FourWords ==
  {[p \in Places |-> p % 2], [p \in Places |-> 1 - (p % 2)],
   [p \in Places |-> 0], [p \in Places |-> 1]}
=============================================================================
