------------------------------ MODULE MCTohost ------------------------------
(***************************************************************************)
(* The program of a benchmark for model checking Tohost: loads (chained    *)
(* ones too) and stores at tohost's index, of tohost and of another line,  *)
(* and the loads and the clearing stores of fromhost's line.               *)
(***************************************************************************)
EXTENDS MCMsiBus, Tohost

TohostWord == <<0, 0, 0>>
FromhostWord == <<0, 1, 0>>

Benchmark ==
  LET all == Loads(Tags) \cup ChainedLoads(Tags) \cup WordStores(Tags)
  IN  [c \in Cores |->
         {r \in all : r.index = 1 => r.tag = 0 /\ r.val = InitVal}]
=============================================================================
