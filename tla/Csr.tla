-------------------------------- MODULE Csr --------------------------------
(***************************************************************************)
(* Traps and the control and status registers in the execute stage:        *)
(* rtl/core/cs_registers.sv, the signals of rtl/core/controller.sv that    *)
(* drive it, the redirect of rtl/core/orv32s_top.sv, and the decoder's     *)
(* verdict on an instruction (rtl/core/decode.sv).                         *)
(*                                                                         *)
(* Every action is a rising edge of the clock.  The registers are updated  *)
(* at every edge, whether the instruction in the execute stage leaves it   *)
(* or stalls.                                                              *)
(***************************************************************************)
EXTENDS CsrWords

CONSTANTS
  Code,        \* the instructions that may stand at each address
  After,       \* where the program may go on after an address without a trap
  Vectors,     \* what the program writes to mtvec, and its reset value
  CounterSize  \* a counter counts modulo this: 2^64

Pcs == DOMAIN Code

\* Whatever operation i makes of r, it leaves one of ws in it.
WritesOneOf(i, r, ws) ==
  i.csr_addr = r =>
    /\ i.funct \in {0, 1} => i.wdata \cap Implemented(r) \in ws
    /\ i.funct # 1 => i.rs1_zero

\* What the core asks of a program: no load, store, division, branch or jump is
\* illegal, and no return from a trap; mtvec and mepc are written whole, with
\* addresses of the program.
Disciplined(i) ==
  /\ i.illegal => i.op \in {"system", "other"} /\ i.call # "mret"
  /\ WritesOneOf(i, "mtvec", Vectors)
  /\ WritesOneOf(i, "mepc", Pcs)

ASSUME ProgramAssumption ==
  /\ Code \in [Pcs -> SUBSET Instruction]
  /\ After \in [Pcs -> SUBSET Pcs]
  /\ Pcs \subseteq SUBSET (1 .. 31)
  /\ \A p \in Pcs : \A i \in Code[p] : Disciplined(i)

\* A handler begins with a 32-bit instruction.
ASSUME HandlerAssumption ==
  /\ {} \in Vectors
  /\ Vectors \subseteq Pcs \cap SUBSET (2 .. 31)
  /\ \A v \in Vectors : \A i \in Code[v] : ~i.rvc

ASSUME CounterAssumption == CounterSize \in Nat \ {0}

VARIABLES
  pc,            \* of the instruction in the execute stage, or of the next one
  inst,          \* the instruction in the execute stage
  illegal_inst,  \* the decoder's verdict, a latch
  csr_op,        \* the CSR operation, a latch
  mstatus, csr,
  mcycle, minstret

latchVars == <<illegal_inst, csr_op>>
csrVars == <<mstatus, csr, mcycle, minstret>>
vars == <<pc, inst, latchVars, csrVars>>

\* Zeros, while the execute stage waits for the fetch.
Bubble == [rvc |-> TRUE, op |-> "bubble", call |-> "none", funct |-> 0,
           csr_addr |-> "none", rs1_zero |-> TRUE, wdata |-> {}, illegal |-> FALSE]

Init ==
  /\ pc = {}
  /\ inst = Bubble
  /\ illegal_inst = FALSE
  /\ csr_op = "READ"
  /\ mstatus = ResetStatus
  /\ csr = [r \in Registers |-> {}]
  /\ mcycle = 0
  /\ minstret = 0
-----------------------------------------------------------------------------
(***************************************************************************)
(* The combinational signals.                                              *)
(***************************************************************************)
sys_call_en == inst.call = "ecall"
mret_en == inst.call = "mret"
excep_en == illegal_inst /\ inst # Bubble

\* csrrs and csrrc of x0 or of 0 only read.
csr_op_o == IF csr_op \in {"SET", "CLEAR"} /\ inst.rs1_zero THEN "READ" ELSE csr_op

csr_rdata ==
  IF inst.csr_addr = "mstatus" THEN StatusWord(mstatus) ELSE csr[inst.csr_addr]

writes(r) == csr_op_o # "READ" /\ inst.csr_addr = r
csr_wdata_tmp == Operate(csr_op_o, csr_rdata, inst.wdata)

\* Mutant of mstatus_next: the write overrides the trap.
mstatus_nextWriteLast ==
  IF mret_en
  THEN [mstatus EXCEPT !.mie = mstatus.mpie, !.mpie = TRUE, !.mpp = FALSE]
  ELSE IF writes("mstatus") THEN Status(csr_wdata_tmp)
  ELSE IF sys_call_en \/ excep_en
  THEN [mstatus EXCEPT !.mie = FALSE, !.mpie = mstatus.mie, !.mpp = TRUE]
  ELSE mstatus

\* A write comes first, a trap overrides it, and mret overrides both.
mstatus_next ==
  LET written == IF writes("mstatus") THEN Status(csr_wdata_tmp) ELSE mstatus
      trapped == IF sys_call_en \/ excep_en
                 THEN [written EXCEPT !.mie = FALSE, !.mpie = mstatus.mie, !.mpp = TRUE]
                 ELSE written
  IN  IF mret_en
      THEN [trapped EXCEPT !.mie = mstatus.mpie, !.mpie = TRUE, !.mpp = FALSE]
      ELSE trapped

\* Mutant of csr_next: every write keeps all 32 bits.
csr_nextAllBits ==
  [r \in Registers |->
     CASE r = "mepc" /\ (sys_call_en \/ excep_en) -> pc
       [] r = "mcause" /\ excep_en -> INST_CAUSE
       [] r = "mcause" /\ sys_call_en /\ ~excep_en -> ECALL_CAUSE
       [] OTHER -> IF writes(r) THEN csr_wdata_tmp ELSE csr[r]]

csr_next ==
  [r \in Registers |->
     CASE r = "mepc" /\ (sys_call_en \/ excep_en) -> pc
       [] r = "mcause" /\ excep_en -> INST_CAUSE
       [] r = "mcause" /\ sys_call_en /\ ~excep_en -> ECALL_CAUSE
       [] OTHER -> IF writes(r) THEN csr_wdata_tmp \cap Implemented(r) ELSE csr[r]]

\* Mutant of redirects: an exception does not flush the fetch.
redirectsCalls == sys_call_en \/ mret_en

\* The execute stage sends the fetch to a handler or back from it.
redirects == sys_call_en \/ mret_en \/ excep_en

\* Whether the fetch is flushed.  Only the opcodes that do not jump or branch
\* look at the traps; a branch may be taken or not.
may_flush ==
  CASE inst.op = "jump" -> {TRUE}
    [] inst.op = "branch" -> BOOLEAN
    [] OTHER -> {redirects}

\* Where a flush may send the fetch.
inst_addr_flush ==
  CASE mret_en -> {csr["mepc"]}
    [] ~mret_en /\ (sys_call_en \/ excep_en) -> {csr["mtvec"]}
    [] OTHER -> After[pc]

-----------------------------------------------------------------------------
(***************************************************************************)
(* The clocked registers, and the latches once the signals have settled.   *)
(***************************************************************************)

\* mcycle leaves out the cycles in which a load or store stalls.
cycle_en(stall) == ~(inst.op = "memory" /\ stall) /\ inst # Bubble
instret_en(stall) == ~stall /\ inst # Bubble

\* A rising edge.
RegistersStep(stall) ==
  /\ mstatus' = mstatus_next
  /\ csr' = csr_next
  /\ mcycle' = IF cycle_en(stall) THEN (mcycle + 1) % CounterSize ELSE mcycle
  /\ minstret' = IF instret_en(stall) THEN (minstret + 1) % CounterSize ELSE minstret

\* i is in the execute stage after this edge.  A compressed instruction, and
\* zeros, keep the verdict on the instruction before.
Enter(i) ==
  /\ inst' = i
  /\ illegal_inst' = IF i.rvc THEN illegal_inst ELSE Verdict(i, mstatus'.mpp)
  /\ csr_op' = IF i.funct = 0 THEN csr_op ELSE OpOf(i.funct)

-----------------------------------------------------------------------------
(***************************************************************************)
(* One rising edge.                                                        *)
(***************************************************************************)

\* The execute stage gets an instruction after waiting for it.
Issue ==
  /\ inst = Bubble
  /\ UNCHANGED <<pc, csrVars>>
  /\ \E i \in Code[pc] : Enter(i)

\* A load, a store or a division goes on.
Stall ==
  /\ inst.op \in {"memory", "muldiv"}
  /\ RegistersStep(TRUE)
  /\ Enter(inst)
  /\ UNCHANGED pc

\* The instruction leaves and redirects the fetch, which starts again.
Redirect ==
  /\ inst # Bubble
  /\ TRUE \in may_flush
  /\ RegistersStep(FALSE)
  /\ pc' \in inst_addr_flush
  /\ Enter(Bubble)

\* The instruction leaves, and the next one follows if the fetch has it.
Retire ==
  /\ inst # Bubble
  /\ FALSE \in may_flush
  /\ RegistersStep(FALSE)
  /\ pc' \in After[pc]
  /\ \E i \in Code[pc'] \cup {Bubble} : Enter(i)

Next == Issue \/ Stall \/ Redirect \/ Retire

Spec == Init /\ [][Next]_vars

-----------------------------------------------------------------------------
(***************************************************************************)
(* Properties.                                                             *)
(***************************************************************************)

\* Every variable stays in its domain: in particular each register holds only
\* bits it implements (cs_registers.sv:189-222), and the addresses a trap and
\* its return go to are always addresses of the program.
TypeOK ==
  /\ pc \in Pcs
  /\ inst \in Code[pc] \cup {Bubble}
  /\ illegal_inst \in BOOLEAN /\ csr_op \in CsrOps
  /\ mstatus \in Mstatus
  /\ csr \in [Registers -> Word]
  /\ \A r \in Registers : csr[r] \subseteq Implemented(r)
  /\ csr["mtvec"] \in Vectors /\ csr["mepc"] \in Pcs
  /\ mcycle \in 0 .. CounterSize - 1 /\ minstret \in 0 .. CounterSize - 1

\* No instruction traps for another's sake: although the decoder's verdict is
\* a latch that compressed instructions and empty cycles leave alone
\* (decode.sv:63-78), what it says of the instruction in the execute stage is
\* that instruction's own verdict, at the level the instruction runs at.
OwnVerdict ==
  inst # Bubble => (illegal_inst <=> ~inst.rvc /\ Verdict(inst, mstatus.mpp))

\* A program gets out of the user level only by a trap: the step that raises
\* mpp goes to the handler, saves where the program was and why, and masks
\* interrupts; no CSR instruction does it (libdecode.sv:328).  An instruction
\* that strays into mstatus may.
OnlyTrapsRaise ==
  [][~mstatus.mpp /\ mstatus'.mpp =>
       \/ /\ pc' = csr["mtvec"] /\ csr'["mepc"] = pc
          /\ csr'["mcause"] \in {INST_CAUSE, ECALL_CAUSE}
          /\ ~mstatus'.mie /\ mstatus'.mpie = mstatus.mie
       \/ Strays(inst) /\ inst.csr_addr = "mstatus"]_vars

\* crt.S:180-182 of the benchmarks sets mpp before its mret to "Remain in
\* M-mode after eret": a return for which mpp is set leaves the program at the
\* machine level, as the decoder is told it.
RemainsInMachineMode == [][mret_en /\ mstatus.mpp => mstatus'.mpp]_vars

\* Whatever stalls, empty cycles and latches do, each instruction traps or has
\* its own effect, in one step, and is counted once; what else it may do to the
\* one register it names is what Privileged says.
ISA == INSTANCE Privileged
RefinesPrivileged == ISA!Spec
=============================================================================
