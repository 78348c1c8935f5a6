------------------------------ MODULE CsrProofs ------------------------------
(***************************************************************************)
(* Theorems about Csr, for every disciplined program: its variables stay   *)
(* in their domains, no instruction traps for another's sake, only traps   *)
(* and strays raise the level, and traps and CSR instructions are atomic   *)
(* but for what Privileged leaves open.                                    *)
(***************************************************************************)
EXTENDS Csr, TLAPS

\* The verdict kept through empty cycles is that of an instruction that has
\* just trapped.
VerdictKept == illegal_inst /\ inst = Bubble => pc \in Vectors

\* The operation is that of the instruction, if it has one.
OwnOp == inst # Bubble /\ inst.funct # 0 => csr_op = OpOf(inst.funct)

IInv == TypeOK /\ OwnVerdict /\ VerdictKept /\ OwnOp

-----------------------------------------------------------------------------
(***************************************************************************)
(* Words and instructions.                                                 *)
(***************************************************************************)

\* Reading mstatus and writing what was read changes nothing
\* (cs_registers.sv:83-90, 189-197).
LEMMA StatusRoundTrip ==
  ASSUME NEW s \in Mstatus
  PROVE  Status(StatusWord(s)) = s
<1> DEFINE w == StatusWord(s)
<1>1. /\ 3 \in w <=> s.mie
      /\ 7 \in w <=> s.mpie
      /\ (11 \in w \/ 12 \in w) <=> s.mpp
      /\ 17 \in w <=> s.mprv
  BY DEF StatusWord, MIE_BIT, MPIE_BIT, MPP_BITS, MPRV_BIT
<1>2. w \cap {11, 12} # {} <=> (11 \in w \/ 12 \in w)
  OBVIOUS
<1> HIDE DEF w
<1>3. Status(w) = [mie |-> s.mie, mpie |-> s.mpie, mpp |-> s.mpp, mprv |-> s.mprv]
  <2>1. /\ (3 \in w) = s.mie
        /\ (7 \in w) = s.mpie
        /\ (w \cap {11, 12} # {}) = s.mpp
        /\ (17 \in w) = s.mprv
    BY <1>1, <1>2 DEF Mstatus
  <2> QED BY <2>1, Zenon DEF Status, MIE_BIT, MPIE_BIT, MPP_BITS, MPRV_BIT
<1>4. s = [mie |-> s.mie, mpie |-> s.mpie, mpp |-> s.mpp, mprv |-> s.mprv]
  BY DEF Mstatus
<1> QED BY <1>3, <1>4 DEF w

LEMMA StatusType == \A w : Status(w) \in Mstatus
BY DEF Status, Mstatus

LEMMA StatusWordType == \A s : StatusWord(s) \in Word
BY DEF StatusWord, Word, MIE_BIT, MPIE_BIT, MPP_BITS, MPRV_BIT

\* An instruction of the program is one, and disciplined; zeros are none.
LEMMA CodeFacts ==
  ASSUME NEW p \in Pcs, NEW i \in Code[p]
  PROVE  /\ i \in InstructionFormat /\ i # Bubble /\ Disciplined(i)
         /\ i.rvc => ~i.illegal /\ i.op # "system"
         /\ i.call # "none" => i.op = "system" /\ i.funct = 0
         /\ i.call # "none" /\ ~i.illegal => i.csr_addr = "none"
         /\ i.illegal /\ CsrInstruction(i) => i.csr_addr = "none"
         /\ i.rs1_zero /\ CsrInstruction(i) => i.wdata = {}
         /\ p \in Vectors => ~i.rvc
<1>1. i \in Instruction /\ Disciplined(i) /\ (p \in Vectors => ~i.rvc)
  BY ProgramAssumption, HandlerAssumption
<1>2. i # Bubble
  BY <1>1 DEF Instruction, InstructionFormat, Ops, Bubble
<1> QED BY <1>1, <1>2 DEF Instruction

\* What is said of the instruction in the execute stage in the proofs below: it
\* is one of the program's, it traps exactly if its own verdict says so, and if
\* it is a CSR instruction it operates as its own encoding says.
LEMMA InstFacts ==
  ASSUME IInv, inst # Bubble
  PROVE  /\ pc \in Pcs /\ inst \in Code[pc] /\ inst \in InstructionFormat
         /\ Disciplined(inst) /\ csr_op \in CsrOps
         /\ inst.funct # 0 => csr_op = OpOf(inst.funct)
         /\ CsrInstruction(inst) => inst.call = "none" /\ (inst.rs1_zero => inst.wdata = {})
         /\ excep_en <=> Verdict(inst, mstatus.mpp)
         /\ excep_en => inst.op \in {"system", "other"} /\ ~mret_en
         /\ sys_call_en \/ mret_en =>
              inst.op = "system" /\ (~excep_en => inst.csr_addr = "none")
<1>1. pc \in Pcs /\ inst \in Code[pc] /\ csr_op \in CsrOps
  BY DEF IInv, TypeOK
<1>2. /\ inst \in InstructionFormat /\ Disciplined(inst)
      /\ inst.rvc => ~inst.illegal /\ inst.op # "system"
      /\ inst.call # "none" => inst.op = "system" /\ inst.funct = 0
      /\ inst.call # "none" /\ ~inst.illegal => inst.csr_addr = "none"
      /\ inst.rs1_zero /\ CsrInstruction(inst) => inst.wdata = {}
  BY <1>1, CodeFacts
<1>3. CsrInstruction(inst) => inst.call = "none" /\ inst.op = "system"
  BY <1>2 DEF CsrInstruction
<1>4. inst.funct # 0 => csr_op = OpOf(inst.funct)
  BY DEF IInv, OwnOp
<1>5. excep_en <=> Verdict(inst, mstatus.mpp)
  BY <1>2, <1>3 DEF IInv, OwnVerdict, excep_en, Verdict
<1>6. excep_en => inst.op \in {"system", "other"} /\ ~mret_en
  BY <1>2, <1>3, <1>5 DEF Verdict, mret_en, Disciplined
<1>7. sys_call_en \/ mret_en =>
        inst.op = "system" /\ (~excep_en => inst.csr_addr = "none")
  BY <1>2, <1>5 DEF sys_call_en, mret_en, Verdict
<1> QED BY <1>1, <1>2, <1>3, <1>4, <1>5, <1>6, <1>7

-----------------------------------------------------------------------------
(***************************************************************************)
(* A rising edge.                                                          *)
(***************************************************************************)

\* What an edge leaves in the registers.
LEMMA EdgeType ==
  ASSUME IInv, inst # Bubble
  PROVE  /\ mstatus_next \in Mstatus
         /\ csr_next \in [Registers -> Word]
         /\ \A r \in Registers : csr_next[r] \subseteq Implemented(r)
         /\ csr_next["mtvec"] \in Vectors /\ csr_next["mepc"] \in Pcs
<1> USE InstFacts
<1>1. mstatus_next \in Mstatus
  BY StatusType DEF mstatus_next, Mstatus, IInv, TypeOK
<1>2. /\ pc \in Word /\ pc \subseteq Implemented("mepc") /\ pc \in Pcs
      /\ INST_CAUSE \in Word /\ INST_CAUSE \subseteq Implemented("mcause")
      /\ ECALL_CAUSE \in Word /\ ECALL_CAUSE \subseteq Implemented("mcause")
  <2>1. pc \in Pcs /\ pc \subseteq 1 .. 31
    BY ProgramAssumption
  <2>2. Implemented("mepc") = 1 .. 31 /\ Implemented("mcause") = {31} \cup 0 .. 4
    BY DEF Implemented
  <2> QED BY <2>1, <2>2 DEF Word, INST_CAUSE, ECALL_CAUSE
<1>3. ASSUME NEW r \in Registers, writes(r)
      PROVE  /\ csr_wdata_tmp \in Word
             /\ r = "mtvec" => csr_wdata_tmp \cap Implemented(r) \in Vectors
             /\ r = "mepc" => csr_wdata_tmp \cap Implemented(r) \in Pcs
  <2>1. inst.csr_addr = r /\ csr_op_o # "READ" /\ r # "none" /\ r # "mstatus"
    BY <1>3 DEF writes, Registers
  <2>2. inst.wdata \in Word /\ csr_rdata \in Word /\ inst.funct \in 0 .. 3
    BY <2>1 DEF InstructionFormat, csr_rdata, IInv, TypeOK
  <2>3. csr_wdata_tmp \in Word
    BY <2>2 DEF csr_wdata_tmp, Operate, Word
  <2>4. ASSUME inst.funct # 1 => inst.rs1_zero
        PROVE  csr_wdata_tmp = inst.wdata /\ inst.funct \in {0, 1}
    <3>1. csr_op = "WRITE" /\ csr_op_o = "WRITE"
      <4>1. inst.funct = 1 => csr_op = "WRITE"
        BY DEF OpOf
      <4> QED BY <2>1, <2>4, <4>1 DEF csr_op_o, CsrOps
    <3>2. inst.funct \in {0, 1}
      <4>1. inst.funct \in {2, 3} => csr_op \in {"SET", "CLEAR"}
        BY DEF OpOf
      <4> QED BY <2>2, <3>1, <4>1
    <3> QED BY <3>1, <3>2 DEF csr_wdata_tmp, Operate
  <2> QED BY <2>1, <2>3, <2>4 DEF Disciplined, WritesOneOf
<1>4. ASSUME NEW r \in Registers
      PROVE  csr_next[r] \in Word /\ csr_next[r] \subseteq Implemented(r)
  BY <1>2, <1>3, <1>4 DEF csr_next, Word, IInv, TypeOK
<1>5. csr_next["mtvec"] \in Vectors
  BY <1>3 DEF csr_next, IInv, TypeOK, Registers
<1>6. csr_next["mepc"] \in Pcs
  BY <1>2, <1>3 DEF csr_next, IInv, TypeOK, Registers
<1> QED BY <1>1, <1>4, <1>5, <1>6 DEF csr_next

-----------------------------------------------------------------------------
(***************************************************************************)
(* The inductive invariant.                                                *)
(***************************************************************************)

LEMMA InitIInv == Init => IInv
<1> SUFFICES ASSUME Init PROVE IInv
  OBVIOUS
<1>1. {} \in Pcs /\ {} \in Vectors
  BY HandlerAssumption
<1>2. \A r \in Registers : csr[r] = {}
  BY DEF Init
<1>3. TypeOK
  <2>1. csr["mtvec"] \in Vectors /\ csr["mepc"] \in Pcs
    BY <1>1, <1>2 DEF Registers
  <2>2. csr \in [Registers -> Word] /\ \A r \in Registers : csr[r] \subseteq Implemented(r)
    BY <1>2 DEF Init, Word
  <2>3. mstatus \in Mstatus /\ csr_op \in CsrOps /\ illegal_inst \in BOOLEAN
    BY DEF Init, ResetStatus, Mstatus, CsrOps
  <2>4. mcycle \in 0 .. CounterSize - 1 /\ minstret \in 0 .. CounterSize - 1
    BY CounterAssumption DEF Init
  <2> QED BY <1>1, <2>1, <2>2, <2>3, <2>4 DEF Init, TypeOK
<1>4. OwnVerdict /\ VerdictKept /\ OwnOp
  BY DEF Init, OwnVerdict, VerdictKept, OwnOp
<1> QED BY <1>3, <1>4 DEF IInv

\* The latches once instruction i has come after an edge that leaves no kept
\* verdict, or with one that a 32-bit instruction replaces.
LEMMA EnterInstruction ==
  ASSUME IInv, mstatus' \in Mstatus, pc' \in Pcs,
         NEW i \in Code[pc'], Enter(i), illegal_inst => ~i.rvc
  PROVE  /\ inst' \in Code[pc'] \cup {Bubble}
         /\ illegal_inst' \in BOOLEAN /\ csr_op' \in CsrOps
         /\ OwnVerdict' /\ VerdictKept' /\ OwnOp'
<1>1. i \in InstructionFormat /\ i # Bubble
  BY CodeFacts
<1>2. inst' = i
  BY DEF Enter
<1>3. illegal_inst' \in BOOLEAN /\ csr_op' \in CsrOps
  <2>1. illegal_inst' \in BOOLEAN
    BY <1>1 DEF Enter, IInv, TypeOK, Verdict, InstructionFormat
  <2>2. i.funct \in 0 .. 3 /\ (i.funct # 0 => OpOf(i.funct) \in CsrOps)
    BY <1>1 DEF InstructionFormat, CsrOps, OpOf
  <2> QED BY <2>1, <2>2 DEF Enter, IInv, TypeOK
<1>4. OwnVerdict'
  BY <1>1 DEF Enter, OwnVerdict, Verdict, IInv, TypeOK
<1>5. VerdictKept' /\ OwnOp'
  BY <1>1, <1>2 DEF Enter, VerdictKept, OwnOp
<1> QED BY <1>2, <1>3, <1>4, <1>5

\* The latches in an empty cycle: the verdict is kept.
LEMMA EnterBubble ==
  ASSUME IInv, Enter(Bubble), illegal_inst => pc' \in Vectors
  PROVE  /\ inst' \in Code[pc'] \cup {Bubble}
         /\ illegal_inst' \in BOOLEAN /\ csr_op' \in CsrOps
         /\ OwnVerdict' /\ VerdictKept' /\ OwnOp'
BY DEF Enter, Bubble, IInv, TypeOK, OwnVerdict, VerdictKept, OwnOp

\* The part of the types that an edge of the registers has to keep.
LEMMA RegistersType ==
  ASSUME IInv, inst # Bubble, NEW stall \in BOOLEAN, RegistersStep(stall)
  PROVE  /\ mstatus' \in Mstatus /\ csr' \in [Registers -> Word]
         /\ \A r \in Registers : csr'[r] \subseteq Implemented(r)
         /\ csr'["mtvec"] \in Vectors /\ csr'["mepc"] \in Pcs
         /\ mcycle' \in 0 .. CounterSize - 1
         /\ minstret' \in 0 .. CounterSize - 1
<1>1. mcycle' \in 0 .. CounterSize - 1 /\ minstret' \in 0 .. CounterSize - 1
  BY CounterAssumption DEF RegistersStep, cycle_en, instret_en, IInv, TypeOK
<1> QED BY <1>1, EdgeType DEF RegistersStep

\* A stalled instruction is legal.
LEMMA StallIsLegal ==
  ASSUME IInv, Stall
  PROVE  /\ inst # Bubble /\ inst \in Code[pc] /\ ~illegal_inst
         /\ ~redirects /\ ~CsrInstruction(inst)
<1>1. inst # Bubble /\ inst.op \notin {"system", "other"}
  BY DEF Stall, Bubble
<1>2. inst \in Code[pc] /\ ~excep_en /\ ~sys_call_en /\ ~mret_en
  BY <1>1, InstFacts
<1>3. ~illegal_inst
  BY <1>1, <1>2 DEF excep_en
<1> QED BY <1>1, <1>2, <1>3 DEF redirects, CsrInstruction

\* A flush goes to an address of the program, and to a handler if the
\* instruction is illegal.
LEMMA FlushTarget ==
  ASSUME IInv, Redirect
  PROVE  pc' \in Pcs /\ (illegal_inst => pc' \in Vectors)
<1>1. inst # Bubble /\ pc \in Pcs /\ (excep_en => ~mret_en)
  BY InstFacts DEF Redirect
<1>2. After[pc] \subseteq Pcs /\ csr["mtvec"] \in Vectors /\ csr["mepc"] \in Pcs
  BY <1>1, ProgramAssumption DEF IInv, TypeOK
<1>3. Vectors \subseteq Pcs
  BY HandlerAssumption
<1>4. CASE mret_en
  BY <1>1, <1>2, <1>4 DEF Redirect, inst_addr_flush, excep_en
<1>5. CASE ~mret_en /\ (sys_call_en \/ excep_en)
  BY <1>2, <1>3, <1>5 DEF Redirect, inst_addr_flush
<1>6. CASE ~mret_en /\ ~sys_call_en /\ ~excep_en
  BY <1>1, <1>2, <1>6 DEF Redirect, inst_addr_flush, excep_en
<1> QED BY <1>4, <1>5, <1>6

\* An instruction that leaves without a flush neither traps nor returns.
LEMMA RetireIsLegal ==
  ASSUME IInv, Retire
  PROVE  /\ ~redirects /\ ~illegal_inst
         /\ pc \in Pcs /\ pc' \in After[pc] /\ pc' \in Pcs
<1>1. inst # Bubble /\ FALSE \in may_flush
  BY DEF Retire
<1>2. ~redirects
  BY <1>1, InstFacts DEF may_flush, redirects
<1>3. pc \in Pcs /\ pc' \in After[pc] /\ pc' \in Pcs
  BY <1>1, InstFacts, ProgramAssumption DEF Retire
<1> QED BY <1>1, <1>2, <1>3 DEF redirects, excep_en

LEMMA NextIInv == IInv /\ [Next]_vars => IInv'
<1> SUFFICES ASSUME IInv, [Next]_vars PROVE IInv'
  OBVIOUS
<1>1. CASE Issue
  <2>1. PICK i \in Code[pc] : Enter(i)
    BY <1>1 DEF Issue
  <2>2. inst = Bubble /\ UNCHANGED <<pc, csrVars>>
    BY <1>1 DEF Issue
  <2>3. pc' \in Pcs /\ mstatus' \in Mstatus /\ i \in Code[pc']
    BY <2>2 DEF csrVars, IInv, TypeOK
  <2>4. illegal_inst => ~i.rvc
    BY <2>2, CodeFacts DEF IInv, VerdictKept, TypeOK
  <2>5. /\ inst' \in Code[pc'] \cup {Bubble}
        /\ illegal_inst' \in BOOLEAN /\ csr_op' \in CsrOps
        /\ OwnVerdict' /\ VerdictKept' /\ OwnOp'
    BY <2>1, <2>3, <2>4, EnterInstruction
  <2> QED BY <2>2, <2>3, <2>5 DEF IInv, TypeOK, csrVars
<1>2. CASE Stall
  <2>1. Enter(inst) /\ pc' = pc /\ RegistersStep(TRUE)
    BY <1>2 DEF Stall
  <2>2. inst # Bubble /\ inst \in Code[pc] /\ ~illegal_inst
    BY <1>2, StallIsLegal
  <2>3. pc' \in Pcs /\ mstatus' \in Mstatus /\ inst \in Code[pc']
    BY <2>1, <2>2, RegistersType DEF IInv, TypeOK
  <2>4. /\ inst' \in Code[pc'] \cup {Bubble}
        /\ illegal_inst' \in BOOLEAN /\ csr_op' \in CsrOps
        /\ OwnVerdict' /\ VerdictKept' /\ OwnOp'
    BY <2>1, <2>2, <2>3, EnterInstruction
  <2> QED BY <2>1, <2>2, <2>3, <2>4, RegistersType DEF IInv, TypeOK
<1>3. CASE Redirect
  <2>1. inst # Bubble /\ Enter(Bubble) /\ RegistersStep(FALSE)
    BY <1>3 DEF Redirect
  <2>2. pc' \in Pcs /\ (illegal_inst => pc' \in Vectors)
    BY <1>3, FlushTarget
  <2> QED BY <2>1, <2>2, EnterBubble, RegistersType DEF IInv, TypeOK
<1>4. CASE Retire
  <2>1. inst # Bubble /\ RegistersStep(FALSE)
    BY <1>4 DEF Retire
  <2>2. ~illegal_inst /\ pc' \in Pcs
    BY <1>4, RetireIsLegal
  <2>3. mstatus' \in Mstatus
    BY <2>1, RegistersType
  <2>4. PICK i \in Code[pc'] \cup {Bubble} : Enter(i)
    BY <1>4 DEF Retire
  <2>5. /\ inst' \in Code[pc'] \cup {Bubble}
        /\ illegal_inst' \in BOOLEAN /\ csr_op' \in CsrOps
        /\ OwnVerdict' /\ VerdictKept' /\ OwnOp'
    BY <2>2, <2>3, <2>4, EnterInstruction, EnterBubble
  <2> QED BY <2>1, <2>2, <2>5, RegistersType DEF IInv, TypeOK
<1>5. CASE UNCHANGED vars
  BY <1>5 DEF vars, latchVars, csrVars, IInv, TypeOK, OwnVerdict, VerdictKept, OwnOp
<1> QED BY <1>1, <1>2, <1>3, <1>4, <1>5 DEF Next

-----------------------------------------------------------------------------
(***************************************************************************)
(* The theorems.                                                           *)
(***************************************************************************)

LEMMA Invariant == Spec => []IInv
BY InitIInv, NextIInv, PTL DEF Spec

\* Every variable stays in its domain; registers hold the bits they implement,
\* and traps and returns lead to the program (cs_registers.sv:189-222).
THEOREM CsrTypeCorrect == Spec => []TypeOK
BY Invariant, PTL DEF IInv

\* No instruction traps for another's sake, although the decoder's verdict is
\* a latch (decode.sv:63-78).
THEOREM VerdictIsOwn == Spec => []OwnVerdict
BY Invariant, PTL DEF IInv

-----------------------------------------------------------------------------
(***************************************************************************)
(* An instruction that leaves the execute stage, or stalls there, takes    *)
(* the step of Privileged that is its own.                                 *)
(***************************************************************************)

\* Privileged has its own instance of CsrWords, which is this one.
LEMMA SameWords ==
  /\ \A i, mpp : ISA!Verdict(i, mpp) <=> Verdict(i, mpp)
  /\ \A i : ISA!CsrInstruction(i) <=> CsrInstruction(i)
  /\ \A i : ISA!Strays(i) <=> Strays(i)
  /\ \A w : ISA!Status(w) = Status(w)
  /\ \A s : ISA!StatusWord(s) = StatusWord(s)
  /\ \A funct : ISA!OpOf(funct) = OpOf(funct)
  /\ \A op, w, wdata : ISA!Operate(op, w, wdata) = Operate(op, w, wdata)
  /\ \A r : ISA!Implemented(r) = Implemented(r)
  /\ ISA!Registers = Registers /\ ISA!ResetStatus = ResetStatus
  /\ ISA!INST_CAUSE = INST_CAUSE /\ ISA!ECALL_CAUSE = ECALL_CAUSE
  /\ ISA!CsrOps = CsrOps
<1>1. \A s : ISA!StatusWord(s) = StatusWord(s)
  BY DEF ISA!StatusWord, StatusWord, ISA!MIE_BIT, MIE_BIT, ISA!MPIE_BIT, MPIE_BIT,
         ISA!MPP_BITS, MPP_BITS, ISA!MPRV_BIT, MPRV_BIT
<1>2. \A w : ISA!Status(w) = Status(w)
  BY DEF ISA!Status, Status, ISA!MIE_BIT, MIE_BIT, ISA!MPIE_BIT, MPIE_BIT,
         ISA!MPP_BITS, MPP_BITS, ISA!MPRV_BIT, MPRV_BIT
<1>3. \A i, mpp : ISA!Verdict(i, mpp) <=> Verdict(i, mpp)
  BY DEF ISA!Verdict, Verdict, ISA!CsrInstruction, CsrInstruction
<1>4. \A funct : ISA!OpOf(funct) = OpOf(funct)
  BY DEF ISA!OpOf, OpOf
<1>5. \A op, w, wdata : ISA!Operate(op, w, wdata) = Operate(op, w, wdata)
  BY DEF ISA!Operate, Operate
<1>6. \A r : ISA!Implemented(r) = Implemented(r)
  BY DEF ISA!Implemented, Implemented
<1>7. ISA!Registers = Registers /\ ISA!ResetStatus = ResetStatus
  BY DEF ISA!Registers, Registers, ISA!ResetStatus, ResetStatus
<1>8. ISA!INST_CAUSE = INST_CAUSE /\ ISA!ECALL_CAUSE = ECALL_CAUSE
  BY DEF ISA!INST_CAUSE, INST_CAUSE, ISA!ECALL_CAUSE, ECALL_CAUSE
<1>9. \A i : ISA!CsrInstruction(i) <=> CsrInstruction(i)
  BY DEF ISA!CsrInstruction, CsrInstruction
<1>10. \A i : ISA!Strays(i) <=> Strays(i)
  BY <1>9 DEF ISA!Strays, Strays
<1>11. ISA!CsrOps = CsrOps
  BY DEF ISA!CsrOps, CsrOps
<1> QED BY <1>1, <1>2, <1>3, <1>4, <1>5, <1>6, <1>7, <1>8, <1>9, <1>10, <1>11

\* What the instruction writes, before a trap or a return overrides it, is what
\* the operation of the csr_op latch makes of the register it names.
LEMMA WrittenEdge ==
  ASSUME IInv
  PROVE  /\ (IF writes("mstatus") THEN Status(csr_wdata_tmp) ELSE mstatus)
              = ISA!StatusAfter(inst, csr_op_o)
         /\ \A r \in Registers :
              (IF writes(r) THEN csr_wdata_tmp \cap Implemented(r) ELSE csr[r])
                = ISA!CsrAfter(inst, csr_op_o)[r]
         /\ DOMAIN ISA!CsrAfter(inst, csr_op_o) = Registers
<1>1. (IF writes("mstatus") THEN Status(csr_wdata_tmp) ELSE mstatus)
        = ISA!StatusAfter(inst, csr_op_o)
  BY SameWords DEF writes, csr_wdata_tmp, csr_rdata, ISA!StatusAfter
<1>2. ASSUME NEW r \in Registers
      PROVE  (IF writes(r) THEN csr_wdata_tmp \cap Implemented(r) ELSE csr[r])
               = ISA!CsrAfter(inst, csr_op_o)[r]
  <2>1. r # "mstatus"
    BY DEF Registers
  <2> QED BY <2>1, SameWords DEF writes, csr_wdata_tmp, csr_rdata, ISA!CsrAfter
<1>3. DOMAIN ISA!CsrAfter(inst, csr_op_o) = Registers
  BY SameWords DEF ISA!CsrAfter
<1> QED BY <1>1, <1>2, <1>3

\* An operation on the register of an instruction that names none does nothing.
LEMMA NoRegister ==
  ASSUME IInv, inst.csr_addr = "none", NEW op
  PROVE  ISA!StatusAfter(inst, op) = mstatus /\ ISA!CsrAfter(inst, op) = csr
<1>1. csr \in [Registers -> Word] /\ \A r \in Registers : inst.csr_addr # r
  BY DEF IInv, TypeOK, Registers
<1> QED BY <1>1, SameWords DEF ISA!StatusAfter, ISA!CsrAfter

\* To set or to clear no bit is to read.
LEMMA NoBits ==
  ASSUME IInv, inst.wdata = {}, NEW op \in {"SET", "CLEAR"}
  PROVE  /\ ISA!StatusAfter(inst, op) = ISA!StatusAfter(inst, "READ")
         /\ ISA!CsrAfter(inst, op) = ISA!CsrAfter(inst, "READ")
<1>1. \A w : Operate(op, w, inst.wdata) = w
  BY DEF Operate
<1>2. Status(StatusWord(mstatus)) = mstatus
  BY StatusRoundTrip DEF IInv, TypeOK
<1>3. \A r \in Registers : csr[r] \cap Implemented(r) = csr[r]
  BY DEF IInv, TypeOK
<1> QED BY <1>1, <1>2, <1>3, SameWords DEF ISA!StatusAfter, ISA!CsrAfter

\* The operation of the latch does what one the instruction may do does.
LEMMA PromisedOperation ==
  ASSUME IInv, inst # Bubble
  PROVE  \E op \in ISA!OperationsOf(inst) :
           /\ ISA!StatusAfter(inst, op) = ISA!StatusAfter(inst, csr_op_o)
           /\ ISA!CsrAfter(inst, op) = ISA!CsrAfter(inst, csr_op_o)
<1>1. CASE inst.csr_addr = "none"
  <2>1. PICK op : op \in ISA!OperationsOf(inst)
    BY <1>1, SameWords DEF ISA!OperationsOf, Strays
  <2> QED BY <1>1, <2>1, NoRegister
<1>2. CASE Strays(inst)
  <2>1. csr_op_o \in CsrOps
    BY InstFacts DEF csr_op_o, CsrOps
  <2>2. ISA!OperationsOf(inst) = CsrOps
    BY <1>2, SameWords DEF ISA!OperationsOf, Strays
  <2> QED BY <2>1, <2>2
<1>3. CASE CsrInstruction(inst)
  <2>1. csr_op = OpOf(inst.funct) /\ (inst.rs1_zero => inst.wdata = {})
    BY <1>3, InstFacts DEF CsrInstruction
  <2>2. ISA!OperationsOf(inst) = {csr_op}
    BY <1>3, <2>1, SameWords DEF ISA!OperationsOf, Strays
  <2>3. CASE csr_op_o = csr_op
    BY <2>2, <2>3
  <2>4. CASE csr_op_o # csr_op
    <3>1. csr_op_o = "READ" /\ csr_op \in {"SET", "CLEAR"} /\ inst.rs1_zero
      BY <2>4 DEF csr_op_o
    <3> QED BY <2>1, <2>2, <3>1, NoBits
  <2> QED BY <2>3, <2>4
<1> QED BY <1>1, <1>2, <1>3 DEF Strays

\* The edges at which an instruction does nothing but its access, traps, or
\* returns: what a trap or a return writes overrides the access.
LEMMA AccessEdge ==
  ASSUME IInv, ~redirects
  PROVE  /\ mstatus_next = ISA!StatusAfter(inst, csr_op_o)
         /\ csr_next = ISA!CsrAfter(inst, csr_op_o)
<1>1. ~sys_call_en /\ ~mret_en /\ ~excep_en
  BY DEF redirects
<1>2. mstatus_next = ISA!StatusAfter(inst, csr_op_o)
  BY <1>1, WrittenEdge DEF mstatus_next
<1>3. csr_next = [r \in Registers |-> ISA!CsrAfter(inst, csr_op_o)[r]]
  BY <1>1, WrittenEdge DEF csr_next
<1>4. ISA!CsrAfter(inst, csr_op_o) = [r \in Registers |-> ISA!CsrAfter(inst, csr_op_o)[r]]
  BY SameWords DEF ISA!CsrAfter
<1> QED BY <1>2, <1>3, <1>4

LEMMA TrapEdge ==
  ASSUME IInv, ~mret_en, sys_call_en \/ excep_en,
         NEW cause, cause = IF excep_en THEN INST_CAUSE ELSE ECALL_CAUSE
  PROVE  /\ mstatus_next = [ISA!StatusAfter(inst, csr_op_o) EXCEPT
                               !.mie = FALSE, !.mpie = mstatus.mie, !.mpp = TRUE]
         /\ csr_next = [ISA!CsrAfter(inst, csr_op_o) EXCEPT
                           !["mepc"] = pc, !["mcause"] = cause]
<1> DEFINE A == ISA!CsrAfter(inst, csr_op_o)
<1>1. mstatus_next = [ISA!StatusAfter(inst, csr_op_o) EXCEPT
                        !.mie = FALSE, !.mpie = mstatus.mie, !.mpp = TRUE]
  BY WrittenEdge DEF mstatus_next
<1>2. csr_next = [r \in Registers |-> IF r = "mepc" THEN pc
                                     ELSE IF r = "mcause" THEN cause ELSE A[r]]
  BY WrittenEdge DEF csr_next
<1>3. A = [r \in Registers |-> A[r]]
  BY SameWords DEF ISA!CsrAfter
<1> HIDE DEF A
<1>4. [A EXCEPT !["mepc"] = pc, !["mcause"] = cause]
        = [r \in Registers |-> IF r = "mepc" THEN pc
                              ELSE IF r = "mcause" THEN cause ELSE A[r]]
  BY <1>3 DEF Registers
<1> QED BY <1>1, <1>2, <1>4 DEF A

LEMMA MretEdge ==
  ASSUME IInv, inst # Bubble, mret_en
  PROVE  /\ csr_next = csr /\ ~excep_en /\ ~sys_call_en
         /\ mstatus_next = [mstatus EXCEPT !.mie = mstatus.mpie, !.mpie = TRUE, !.mpp = FALSE]
<1>1. ~excep_en /\ ~sys_call_en /\ inst.csr_addr = "none"
  BY InstFacts DEF sys_call_en, mret_en
<1>2. \A r \in Registers \cup {"mstatus"} : ~writes(r)
  BY <1>1 DEF writes, Registers
<1>3. csr_next = [r \in Registers |-> csr[r]]
  BY <1>1, <1>2 DEF csr_next
<1>4. csr \in [Registers -> Word]
  BY DEF IInv, TypeOK
<1> QED BY <1>1, <1>2, <1>3, <1>4 DEF mstatus_next

\* A flush without a trap goes where the program goes.
LEMMA PlainTarget ==
  ASSUME inst # Bubble, ~redirects, Redirect \/ Retire
  PROVE  pc' \in After[pc]
BY DEF Redirect, Retire, inst_addr_flush, redirects

\* An instruction that leaves traps, returns or is executed, as Privileged says.
LEMMA LeaveStep ==
  ASSUME IInv, Redirect \/ Retire
  PROVE  /\ inst \in Code[pc] /\ ISA!Executes(inst)
         /\ minstret' = (minstret + 1) % CounterSize
<1>1. inst # Bubble /\ RegistersStep(FALSE)
  BY DEF Redirect, Retire
<1>2. /\ mstatus' = mstatus_next /\ csr' = csr_next
      /\ minstret' = (minstret + 1) % CounterSize
  BY <1>1 DEF RegistersStep, instret_en
<1>3. inst \in Code[pc] /\ (excep_en <=> Verdict(inst, mstatus.mpp)) /\ (excep_en => ~mret_en)
  BY <1>1, InstFacts
<1>4. redirects => Redirect
  BY RetireIsLegal
<1>5. PICK op \in ISA!OperationsOf(inst) :
        /\ ISA!StatusAfter(inst, op) = ISA!StatusAfter(inst, csr_op_o)
        /\ ISA!CsrAfter(inst, op) = ISA!CsrAfter(inst, csr_op_o)
  BY <1>1, PromisedOperation
<1>6. CASE excep_en
  <2>1. pc' = csr["mtvec"]
    BY <1>3, <1>4, <1>6 DEF redirects, Redirect, inst_addr_flush
  <2>2. ISA!Trap(INST_CAUSE, inst, op)
    BY <1>2, <1>3, <1>5, <1>6, <2>1, TrapEdge DEF ISA!Trap
  <2> QED BY <1>2, <1>3, <1>6, <2>2, SameWords DEF ISA!Executes, ISA!Illegal
<1>7. CASE sys_call_en /\ ~excep_en
  <2>1. pc' = csr["mtvec"] /\ ~mret_en
    BY <1>4, <1>7 DEF redirects, Redirect, inst_addr_flush, sys_call_en, mret_en
  <2>2. inst.csr_addr = "none"
    BY <1>1, <1>7, InstFacts
  <2>3. ISA!Trap(ECALL_CAUSE, inst, "READ")
    BY <1>2, <1>7, <2>1, <2>2, TrapEdge, NoRegister DEF ISA!Trap
  <2> QED BY <1>2, <1>3, <1>7, <2>3, SameWords DEF ISA!Executes, ISA!Ecall, sys_call_en
<1>8. CASE mret_en
  <2>1. pc' = csr["mepc"]
    BY <1>4, <1>8 DEF redirects, Redirect, inst_addr_flush
  <2>2. \E level \in {mstatus.mpp, FALSE} :
          mstatus' = [mstatus EXCEPT !.mie = mstatus.mpie, !.mpie = TRUE, !.mpp = level]
    BY <1>1, <1>2, <1>8, MretEdge
  <2> QED BY <1>1, <1>2, <1>3, <1>8, <2>1, <2>2, MretEdge, SameWords
          DEF ISA!Executes, ISA!Mret, mret_en
<1>9. CASE ~redirects
  <2>1. inst.call = "none"
    BY <1>1, <1>9, InstFacts DEF redirects, sys_call_en, mret_en, InstructionFormat
  <2>2. ISA!Access(inst, op)
    BY <1>2, <1>5, <1>9, AccessEdge DEF ISA!Access
  <2>3. pc' \in After[pc]
    BY <1>1, <1>9, PlainTarget
  <2>4. ISA!Plain(inst)
    BY <1>3, <1>9, <2>1, <2>2, <2>3, SameWords DEF ISA!Plain, redirects
  <2> QED BY <1>2, <1>3, <2>4 DEF ISA!Executes
<1> QED BY <1>6, <1>7, <1>8, <1>9 DEF redirects

\* An instruction that stalls does nothing, or strays.
LEMMA StallStep ==
  ASSUME IInv, Stall
  PROVE  /\ inst \in Code[pc] /\ UNCHANGED <<pc, minstret>>
         /\ ISA!Stray(inst) \/ UNCHANGED <<mstatus, csr>>
<1>1. /\ inst # Bubble /\ inst \in Code[pc]
      /\ ~redirects /\ ~CsrInstruction(inst)
  BY StallIsLegal
<1>2. /\ mstatus' = mstatus_next /\ csr' = csr_next
      /\ pc' = pc /\ minstret' = minstret /\ inst.op \in {"memory", "muldiv"}
  BY DEF Stall, RegistersStep, instret_en
<1>3. PICK op \in ISA!OperationsOf(inst) : ISA!Access(inst, op)
  BY <1>1, <1>2, AccessEdge, PromisedOperation DEF ISA!Access
<1>4. ASSUME Strays(inst) PROVE ISA!Stray(inst)
  BY <1>2, <1>3, <1>4, SameWords DEF ISA!Stray
<1>5. ASSUME ~Strays(inst) PROVE UNCHANGED <<mstatus, csr>>
  <2>1. inst.csr_addr = "none"
    BY <1>1, <1>5 DEF Strays
  <2> QED BY <1>3, <2>1, NoRegister DEF ISA!Access
<1> QED BY <1>1, <1>2, <1>4, <1>5

LEMMA StepImplements == IInv /\ [Next]_vars => [ISA!Next]_(ISA!vars)
<1> SUFFICES ASSUME IInv, [Next]_vars PROVE [ISA!Next]_(ISA!vars)
  OBVIOUS
<1>1. CASE Issue
  BY <1>1 DEF Issue, csrVars, ISA!vars
<1>2. CASE Stall
  BY <1>2, StallStep DEF ISA!Next, ISA!vars
<1>3. CASE Redirect \/ Retire
  BY <1>3, LeaveStep DEF ISA!Next
<1>4. CASE UNCHANGED vars
  BY <1>4 DEF vars, csrVars, ISA!vars
<1> QED BY <1>1, <1>2, <1>3, <1>4 DEF Next

\* Traps and CSR instructions are atomic, and each instruction counts once,
\* whatever stalls, empty cycles and latches do: the execute stage implements
\* Privileged, which leaves open what an illegal access and a stray may do to
\* the register they name, and the level after a return
\* (cs_registers.sv:179-257, orv32s_top.sv:236-238).
THEOREM CsrImplementsPrivileged == Spec => RefinesPrivileged
<1>1. Init => ISA!Init
  BY SameWords DEF Init, ISA!Init
<1> QED BY <1>1, StepImplements, Invariant, PTL DEF Spec, RefinesPrivileged, ISA!Spec

-----------------------------------------------------------------------------
\* The step that raises the level is a trap, unless an instruction strays.
LEMMA RaiseIsTrap ==
  ASSUME IInv, [Next]_vars, ~mstatus.mpp, mstatus'.mpp
  PROVE  \/ /\ pc' = csr["mtvec"] /\ csr'["mepc"] = pc
            /\ csr'["mcause"] \in {INST_CAUSE, ECALL_CAUSE}
            /\ ~mstatus'.mie /\ mstatus'.mpie = mstatus.mie
         \/ Strays(inst) /\ inst.csr_addr = "mstatus"
<1>1. mstatus' # mstatus /\ mstatus \in Mstatus
  BY DEF IInv, TypeOK
<1>2. \A op : ISA!StatusAfter(inst, op) \in Mstatus
  BY <1>1, StatusType, SameWords DEF ISA!StatusAfter
<1>3. ASSUME NEW op, mstatus' = ISA!StatusAfter(inst, op) PROVE inst.csr_addr = "mstatus"
  BY <1>1, <1>3 DEF ISA!StatusAfter
<1>4. CASE Stall
  <2>1. ISA!Stray(inst)
    BY <1>1, <1>4, StallStep
  <2> QED BY <1>3, <2>1, SameWords DEF ISA!Stray, ISA!Access
<1>5. CASE Redirect \/ Retire
  <2>1. ISA!Executes(inst)
    BY <1>5, LeaveStep
  <2>2. ~ISA!Mret(inst)
    BY <1>1 DEF ISA!Mret, Mstatus
  <2>3. ASSUME NEW cause, NEW op, ISA!Trap(cause, inst, op)
        PROVE  /\ pc' = csr["mtvec"] /\ csr'["mepc"] = pc /\ csr'["mcause"] = cause
               /\ ~mstatus'.mie /\ mstatus'.mpie = mstatus.mie
    <3>1. pc' = csr["mtvec"] /\ csr'["mepc"] = pc /\ csr'["mcause"] = cause
      BY <2>3, SameWords DEF ISA!Trap, ISA!CsrAfter, Registers
    <3>2. ~mstatus'.mie /\ mstatus'.mpie = mstatus.mie
      BY <1>2, <2>3 DEF ISA!Trap, Mstatus
    <3> QED BY <3>1, <3>2
  <2>4. CASE ISA!Illegal(inst)
    BY <2>3, <2>4, SameWords DEF ISA!Illegal
  <2>5. CASE ISA!Ecall(inst)
    BY <2>3, <2>5, SameWords DEF ISA!Ecall
  <2>6. CASE ISA!Plain(inst)
    <3>1. inst.csr_addr = "mstatus"
      BY <1>3, <2>6 DEF ISA!Plain, ISA!Access
    <3>2. ~CsrInstruction(inst)
      BY <2>6, <3>1, SameWords DEF ISA!Plain, Verdict
    <3> QED BY <3>1, <3>2 DEF Strays
  <2> QED BY <2>1, <2>2, <2>4, <2>5, <2>6 DEF ISA!Executes
<1>6. CASE Issue \/ UNCHANGED vars
  BY <1>1, <1>6 DEF Issue, csrVars, vars
<1> QED BY <1>4, <1>5, <1>6 DEF Next

\* A program leaves the user level only by a trap, which goes to the handler and
\* saves where and why, or by an instruction that strays into mstatus
\* (cs_registers.sv:225-246, libdecode.sv:328).
THEOREM LevelRaisedByTraps == Spec => OnlyTrapsRaise
<1>1. IInv /\ [Next]_vars =>
        [~mstatus.mpp /\ mstatus'.mpp =>
           \/ /\ pc' = csr["mtvec"] /\ csr'["mepc"] = pc
              /\ csr'["mcause"] \in {INST_CAUSE, ECALL_CAUSE}
              /\ ~mstatus'.mie /\ mstatus'.mpie = mstatus.mie
           \/ Strays(inst) /\ inst.csr_addr = "mstatus"]_vars
  BY RaiseIsTrap
<1> QED BY <1>1, Invariant, PTL DEF Spec, OnlyTrapsRaise
=============================================================================
