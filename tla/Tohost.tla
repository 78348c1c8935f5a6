------------------------------- MODULE Tohost -------------------------------
(***************************************************************************)
(* The single-core simulators sim_coremark, sim_embench and sim_dhrystone: *)
(* the loop of MsiBus with numP = 1 and no end of the program, in which    *)
(* sim_main also is the host of the program's system calls.  The program   *)
(* stores a message's address to tohost and polls fromhost; the host sees  *)
(* the store when it serves it, and answers by writing fromhost's line     *)
(* into the cache behind the bus's back: Shared, whatever was there, and   *)
(* with a word that memory does not hold.                                  *)
(*                                                                         *)
(* What the host prints is left out.  sim_dhrystone answers at the other   *)
(* clock level, and only once while mcycle stands still, which it does as  *)
(* long as the store stalls: a second answer to it changes nothing.        *)
(***************************************************************************)
EXTENDS MsiBus

CONSTANTS
  Tohost, Fromhost,  \* the two words' addresses, <<tag, index, word>>
  Answered           \* the value of the answer's bytes

Addresses == Tags \X Indexes \X Words

ASSUME HostAssumption ==
  /\ NumP = 1 /\ Finishers = {}
  /\ Tohost \in Addresses /\ Fromhost \in Addresses /\ Tohost[2] # Fromhost[2]
  /\ Answered \in Vals

\* The program keeps the lines of fromhost's index to fromhost: no other line
\* of that index is used, and what is stored to it is the cleared flag.
ASSUME FromhostAssumption ==
  \A c \in Cores : \A r \in Programs[c] :
    r.index = Fromhost[2] =>
      r.tag = Fromhost[1] /\ (r.op = "store" => r.val = InitVal)

VARIABLES
  answer_clk,  \* the clock level at which this simulator answers; constant
  answered     \* history: a store to tohost left, none to fromhost's line since

hostVars == <<vars, answer_clk, answered>>

HostInit == Init /\ answer_clk \in {0, 1} /\ answered = FALSE

Accesses(r, op, a) ==
  r.op = op /\ r.tag = a[1] /\ r.index = a[2] /\ r.word = a[3]

\* The request in the execute stage leaves it at the next step.
Leaves == step = "eval" /\ clk[0] = 0 /\ ~stall(0)

Note ==
  /\ answered' =
       IF Leaves /\ Accesses(req[0], "store", Tohost) THEN TRUE
       ELSE IF Leaves /\ req[0].op = "store" /\ req[0].index = Fromhost[2]
       THEN FALSE
       ELSE answered
  /\ UNCHANGED answer_clk

\* Mutant of Answer: the line keeps its state.
AnswerKeepsState(line) ==
  [line EXCEPT !.tag = Fromhost[1],
               !.data[Fromhost[3]] = [b \in Bytes |-> Answered]]

\* The answer in fromhost's line; its other words stay what they were.
Answer(line) ==
  [line EXCEPT !.tag = Fromhost[1], !.valid = Shared,
               !.data[Fromhost[3]] = [b \in Bytes |-> Answered]]

Asked(c) ==
  Accesses(req[c], "store", Tohost) /\ clk[c] = answer_clk

\* A store to tohost that hits is answered after it is written, every time it
\* is served; one that misses is not, until it is served again as a hit.
HostHit(c) ==
  LET r == req[c]
  IN  /\ Serving(c)
      /\ writeHit(r, out_port[c]) /\ Asked(c)
      /\ in_port' = [in_port EXCEPT
           ![c][r.index].data[r.word] = storeData(r, out_port[c]),
           ![c][Fromhost[2]] = Answer(@)]
      /\ Advance
      /\ UNCHANGED <<bus_traffic_last, prosFin_en, coreVars, out_port, memory>>

HostServe(c) ==
  /\ \/ ReadMiss(c)
     \/ WriteMiss(c)
     \/ ~Asked(c) /\ WriteHit(c)
     \/ HostHit(c)
     \/ Pass(c)
  /\ UNCHANGED <<answer_clk, answered>>

HostNext ==
  \/ OwnerTurn /\ Note
  \/ Turn /\ Note
  \/ \E c \in Cores : HostServe(c)

HostSpec == HostInit /\ [][HostNext]_hostVars

-----------------------------------------------------------------------------
\* The poll loop of a system call ends: once the store to tohost has left the
\* pipeline, every load of fromhost returns the answer until the program
\* clears it.  The answer exists in one Shared cache line only, put there
\* while the store that asks for it may still be stalled.
PollSeesAnswer ==
  [][Leaves /\ answered /\ Accesses(req[0], "load", Fromhost)
       => reg'[0] = [b \in Bytes |-> Answered]]_hostVars
=============================================================================
