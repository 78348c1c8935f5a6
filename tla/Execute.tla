------------------------------ MODULE Execute ------------------------------
(***************************************************************************)
(* The whole execute stage (rtl/core/ex_stage.sv) as a datapath: the       *)
(* instructions of the M extension between those that take one cycle, with *)
(* what the latter compute in the ALU, the branch comparator and the       *)
(* load/store unit.                                                        *)
(***************************************************************************)
EXTENDS MulDiv, Alu, LoadStore

CONSTANT MemWords   \* the words stores write, and those memory holds

\* Which instruction of two words, and which store, the stage executes: the
\* ALU and the tables of the load/store unit compute for each, so that the
\* operands alone are state.
IntegerInst == [op : {"integer"}, a : Operands, b : Operands]
StoreInst == [op : {"store"}, data : MemWords, line_in : MemWords]
SingleCycle == IntegerInst \cup StoreInst

ASSUME StageAssumption ==
  /\ Others = SingleCycle
  /\ Width = W
  /\ MemWords \subseteq MemWord

\* What the ALU gives the register file.
alu_result_o(aluSel) ==
  CASE aluSel \in {"ADD", "SUB"} -> adder_result(aluSel, inst.a, inst.b)
    [] aluSel \in {"SLT", "SLTU"} -> Flag(rs1_rs2_lt(aluSel, inst.a, inst.b))
    [] aluSel \in {"SLL", "SRL", "SRA"} -> shift_result(aluSel, inst.a, inst.b)

\* Memory after a store.
store_line(length, offset) == Stored(inst.line_in, length, offset, inst.data)

-----------------------------------------------------------------------------
(***************************************************************************)
(* Properties: what the ISA says of each instruction.                      *)
(***************************************************************************)

\* Additions and subtractions wrap around, and the set-less-than instructions,
\* which look at the sign of such a difference, compare what their operands
\* stand for (alu.sv:69-109, 157-185).
SumRight ==
  inst.op = "integer" =>
    /\ alu_result_o("ADD") = IF inst.a + inst.b < Size THEN inst.a + inst.b
                             ELSE inst.a + inst.b - Size
    /\ alu_result_o("SUB") = IF inst.a >= inst.b THEN inst.a - inst.b
                             ELSE inst.a - inst.b + Size
    /\ alu_result_o("SLT") = Flag(AsSigned(inst.a) < AsSigned(inst.b))
    /\ alu_result_o("SLTU") = Flag(inst.a < inst.b)

\* One right shifter does all three shifts, by the low bits of the operand
\* (alu.sv:112-154).
ShiftRight ==
  inst.op = "integer" =>
    LET n == inst.b % Width
    IN  /\ alu_result_o("SLL") = (inst.a * Pow2[n]) % Size
        /\ alu_result_o("SRL") = inst.a \div Pow2[n]
        /\ alu_result_o("SRA") = (AsSigned(inst.a) \div Pow2[n]) % Size

\* A branch compares what its operands stand for, although the comparator
\* looks at the signs and at the other bits apart (branch_compare.sv:14-60,
\* controller.sv:439-472).
BranchRight ==
  inst.op = "integer" =>
    /\ branch_taken("BEQ", inst.a, inst.b) <=> inst.a = inst.b
    /\ branch_taken("BNE", inst.a, inst.b) <=> inst.a # inst.b
    /\ branch_taken("BLT", inst.a, inst.b) <=> AsSigned(inst.a) < AsSigned(inst.b)
    /\ branch_taken("BGE", inst.a, inst.b) <=> AsSigned(inst.a) >= AsSigned(inst.b)
    /\ branch_taken("BLTU", inst.a, inst.b) <=> inst.a < inst.b
    /\ branch_taken("BGEU", inst.a, inst.b) <=> inst.a >= inst.b

\* What a register holds after the low bytes of data are extended.
Extended(length, signed, data) ==
  [p \in Places |->
     IF p < length THEN data[p]
     ELSE IF signed /\ data[length - 1] >= ByteMsb THEN 2 * ByteMsb - 1 ELSE 0]

\* A load of what a store has put in memory, over whatever was there, returns
\* what was stored, extended; a load of other bytes of the word what it returned
\* before.  So the byte lanes a store writes, those it enables and those a load
\* reads agree at every offset (load_store_unit.sv:56-129).
StoreLoadRight ==
  inst.op = "store" =>
    \A length \in Lengths, signed \in BOOLEAN : \A offset \in Offsets(length) :
      /\ result_o(length, offset, signed, store_line(length, offset))
           = Extended(length, signed, inst.data)
      /\ \A other \in Lengths : \A at \in Offsets(other) :
           at + other <= offset \/ offset + length <= at =>
             result_o(other, at, signed, store_line(length, offset))
               = result_o(other, at, signed, inst.line_in)
=============================================================================
