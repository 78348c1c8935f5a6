---------------------------- MODULE ProgramOrder ----------------------------
(***************************************************************************)
(* What the fetch unit promises the execute stage: the instructions of the *)
(* program one after the other, and after one that redirects the fetch,    *)
(* the instruction it redirects to.                                        *)
(***************************************************************************)
EXTENDS Naturals

CONSTANTS
  Rvc,      \* the parcels that begin a 16-bit instruction
  Effects,  \* what an instruction may do once it executes
  Start     \* the first instruction

VARIABLE at  \* the instruction to execute next

Length(a) == IF a \in Rvc THEN 1 ELSE 2

\* Where the program goes on after instruction a with effect e.
After(a, e) == IF e.jumps THEN e.target ELSE a + Length(a)

Init == at = Start
Next == \E e \in Effects : at' = After(at, e)
Spec == Init /\ [][Next]_at
=============================================================================
