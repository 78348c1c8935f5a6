---------------------------- MODULE MCInstFetch ----------------------------
(***************************************************************************)
(* A program for model checking InstFetch: two stretches of code with a    *)
(* zero line between them, 16-bit and 32-bit instructions in every         *)
(* alignment, and redirects to each place of a line.                       *)
(***************************************************************************)
EXTENDS InstFetch

MixedRvc == {0, 3, 4, 9, 10, 11, 14, 17, 22, 23, 25, 32, 33, 36, 39, 40}
TwoStretches == 0 .. 10 \ {7}

EveryAlignment ==
  {e \in [slow : BOOLEAN, jumps : BOOLEAN, target : {0, 5, 14, 35}] :
     e.jumps \/ e.target = 0}
=============================================================================
