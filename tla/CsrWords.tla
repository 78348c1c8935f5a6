------------------------------ MODULE CsrWords ------------------------------
(***************************************************************************)
(* The control and status registers as values, and the instructions as the *)
(* traps and these registers see them: what rtl/lib/libcsr.sv,             *)
(* rtl/core/cs_registers.sv and rtl/lib/libdecode.sv share.                *)
(*                                                                         *)
(* A 32-bit word is the set of the positions of its ones, so that csrrs is *)
(* a union, csrrc a difference, and zero the empty set.                    *)
(***************************************************************************)
EXTENDS Naturals

Word == SUBSET (0 .. 31)

-----------------------------------------------------------------------------
\* The privileged level is one bit, mpp: the level a trap was taken from, and
\* also the level the decoder is told.
Mstatus == [mie : BOOLEAN, mpie : BOOLEAN, mpp : BOOLEAN, mprv : BOOLEAN]

MIE_BIT == 3
MPIE_BIT == 7
MPP_BITS == {11, 12}
MPRV_BIT == 17

\* mstatus as a CSR instruction reads it, and the mstatus it writes.
StatusWord(s) ==
  (IF s.mie THEN {MIE_BIT} ELSE {}) \cup (IF s.mpie THEN {MPIE_BIT} ELSE {})
    \cup (IF s.mpp THEN MPP_BITS ELSE {}) \cup (IF s.mprv THEN {MPRV_BIT} ELSE {})

Status(w) == [mie |-> MIE_BIT \in w, mpie |-> MPIE_BIT \in w,
              mpp |-> w \cap MPP_BITS # {}, mprv |-> MPRV_BIT \in w]

ResetStatus == [mie |-> FALSE, mpie |-> TRUE, mpp |-> FALSE, mprv |-> FALSE]

Registers == {"mtvec", "mscratch", "mepc", "mcause", "mtval"}

\* The bits each register has.
Implemented(r) ==
  CASE r = "mtvec" -> 2 .. 31
    [] r = "mepc" -> 1 .. 31
    [] r = "mcause" -> {31} \cup 0 .. 4
    [] OTHER -> 0 .. 31

ECALL_CAUSE == {0, 1, 3}   \* 11
INST_CAUSE == {1}          \* 2

-----------------------------------------------------------------------------
(***************************************************************************)
(* An instruction with the value of the register or immediate it gives to  *)
(* a CSR.  call: a system call, a return from a trap, or neither; funct:   *)
(* bits 13:12, which select write, set or clear; csr_addr: the register    *)
(* bits 31:20 name; rs1_zero: bits 19:15; illegal: it is whatever the      *)
(* level.                                                                  *)
(***************************************************************************)
Ops == {"jump", "branch", "memory", "muldiv", "system", "other"}

InstructionFormat ==
  [rvc : BOOLEAN, op : Ops, call : {"ecall", "mret", "none"}, funct : 0 .. 3,
   csr_addr : Registers \cup {"mstatus", "none"}, rs1_zero : BOOLEAN,
   wdata : Word, illegal : BOOLEAN]

CsrInstruction(i) == i.op = "system" /\ i.funct # 0

\* i is no CSR instruction and has the address of a CSR in its bits 31:20, which
\* are those of the next one if i is compressed.  It accesses that CSR, since no
\* opcode is tested.
Strays(i) == i.csr_addr # "none" /\ ~CsrInstruction(i)

\* What holds of any instruction by its encoding.  The decoder gives a verdict
\* on 32-bit instructions only; the CSR instructions that are illegal at every
\* level are writes to counters, which have no register here.
Instruction ==
  {i \in InstructionFormat :
     /\ i.rvc => ~i.illegal /\ i.op # "system"
     /\ i.call # "none" => i.op = "system" /\ i.funct = 0
     /\ i.call # "none" /\ ~i.illegal => i.csr_addr = "none"
     /\ i.illegal /\ CsrInstruction(i) => i.csr_addr = "none"
     /\ i.rs1_zero /\ CsrInstruction(i) => i.wdata = {}}

\* Mutant of Verdict: a user may access mstatus.
VerdictAnyLevel(i, mpp) == i.illegal

\* The decoder's verdict on a 32-bit instruction.
Verdict(i, mpp) ==
  \/ i.illegal
  \/ CsrInstruction(i) /\ i.csr_addr = "mstatus" /\ ~mpp

CsrOps == {"READ", "WRITE", "SET", "CLEAR"}

OpOf(funct) == CASE funct = 1 -> "WRITE" [] funct = 2 -> "SET" [] funct = 3 -> "CLEAR"

\* What operation op makes of a register that holds w.
Operate(op, w, wdata) ==
  CASE op = "SET" -> w \cup wdata
    [] op = "CLEAR" -> w \ wdata
    [] OTHER -> wdata
=============================================================================
