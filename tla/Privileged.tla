----------------------------- MODULE Privileged -----------------------------
(***************************************************************************)
(* What a program is promised about its traps and its control and status   *)
(* registers: instructions one at a time, each of which either traps or    *)
(* has its own effect.                                                     *)
(*                                                                         *)
(* Three things are left open, since the core does not keep to what one    *)
(* would ask of it; a core that does would keep this promise as well.      *)
(* (1) An illegal access to a register may write it, but for what the trap *)
(* writes.  (2) An instruction that strays into a register may write it,   *)
(* by any operation and, while it stalls, any number of times.  (3) A      *)
(* return may go on at the level mpp names, or at the user level.          *)
(***************************************************************************)
EXTENDS CsrWords

CONSTANTS
  Code,        \* the instructions that may stand at each address
  After,       \* where the program may go on after an address without a trap
  CounterSize  \* a counter counts modulo this

VARIABLES pc, mstatus, csr, minstret
vars == <<pc, mstatus, csr, minstret>>

Init ==
  /\ pc = {}
  /\ mstatus = ResetStatus
  /\ csr = [r \in Registers |-> {}]
  /\ minstret = 0

\* What i may do to the register it names, if it does not trap.
OperationsOf(i) ==
  CASE CsrInstruction(i) -> {OpOf(i.funct)}
    [] Strays(i) -> CsrOps
    [] OTHER -> {"READ"}

\* The registers once i has accessed the one it names by op.
StatusAfter(i, op) ==
  IF op # "READ" /\ i.csr_addr = "mstatus"
  THEN Status(Operate(op, StatusWord(mstatus), i.wdata))
  ELSE mstatus

CsrAfter(i, op) ==
  [r \in Registers |->
     IF op # "READ" /\ i.csr_addr = r
     THEN Operate(op, csr[r], i.wdata) \cap Implemented(r)
     ELSE csr[r]]

Access(i, op) == mstatus' = StatusAfter(i, op) /\ csr' = CsrAfter(i, op)

\* The program goes to the handler, which finds where and why.
Trap(cause, i, op) ==
  /\ pc' = csr["mtvec"]
  /\ csr' = [CsrAfter(i, op) EXCEPT !["mepc"] = pc, !["mcause"] = cause]
  /\ mstatus' = [StatusAfter(i, op) EXCEPT
                   !.mie = FALSE, !.mpie = mstatus.mie, !.mpp = TRUE]

Illegal(i) ==
  /\ Verdict(i, mstatus.mpp)
  /\ \E op \in OperationsOf(i) \cup {"READ"} : Trap(INST_CAUSE, i, op)

Ecall(i) ==
  /\ i.call = "ecall" /\ ~Verdict(i, mstatus.mpp)
  /\ Trap(ECALL_CAUSE, i, "READ")

\* The program goes back to where it trapped.
Mret(i) ==
  /\ i.call = "mret" /\ ~Verdict(i, mstatus.mpp)
  /\ pc' = csr["mepc"]
  /\ \E level \in {mstatus.mpp, FALSE} :
       mstatus' = [mstatus EXCEPT !.mie = mstatus.mpie, !.mpie = TRUE, !.mpp = level]
  /\ UNCHANGED csr

\* Any other instruction.
Plain(i) ==
  /\ i.call = "none" /\ ~Verdict(i, mstatus.mpp)
  /\ pc' \in After[pc]
  /\ \E op \in OperationsOf(i) : Access(i, op)

\* An instruction that strays and stalls.
Stray(i) ==
  /\ Strays(i) /\ i.op \in {"memory", "muldiv"}
  /\ \E op \in OperationsOf(i) : Access(i, op)
  /\ UNCHANGED pc

Executes(i) == Illegal(i) \/ Ecall(i) \/ Mret(i) \/ Plain(i)

Next ==
  \E i \in Code[pc] :
    \/ Executes(i) /\ minstret' = (minstret + 1) % CounterSize
    \/ Stray(i) /\ UNCHANGED minstret

Spec == Init /\ [][Next]_vars
=============================================================================
