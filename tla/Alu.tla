-------------------------------- MODULE Alu --------------------------------
(***************************************************************************)
(* What the execute stage computes in one cycle: the adder, the comparison *)
(* and the shifter of the ALU (rtl/core/alu.sv), and the branch comparator *)
(* (rtl/core/branch_compare.sv) with the decision the controller makes of  *)
(* it.  A word is a number; bit 31, the code's [31], is worth Msb.         *)
(***************************************************************************)
EXTENDS PowersOfTwo

CONSTANT Width   \* bits of a word

ASSUME ShifterAssumption == Width \in Nat \ {0}

Msb == Pow2[Width - 1]
Size == 2 * Msb
Words == 0 .. Size - 1

Sign(x) == x >= Msb
Low(x) == IF Sign(x) THEN x - Msb ELSE x   \* x[30:0]

\* The number x stands for in a signed instruction.
AsSigned(x) == IF Sign(x) THEN x - Size ELSE x

-----------------------------------------------------------------------------
(***************************************************************************)
(* alu.sv.                                                                 *)
(***************************************************************************)

\* The operations that subtract.
adder_op_b_negate(aluSel) == aluSel \in {"SUB", "SLT", "SLTU"}

\* One bit below the operands carries the 1 of a two's complement in.
adder_result_ext_o(aluSel, x, y) ==
  (2 * x + 1) + IF adder_op_b_negate(aluSel) THEN (2 * Size - 1) - 2 * y ELSE 2 * y

\* Bits 32 to 1: the carry out is dropped.
adder_result(aluSel, x, y) ==
  LET sum == adder_result_ext_o(aluSel, x, y) \div 2
  IN  IF sum >= Size THEN sum - Size ELSE sum

\* Mutant of rs1_rs2_lt: the sign of the difference decides alone.
rs1_rs2_ltOverflows(aluSel, x, y) == Sign(adder_result(aluSel, x, y))

\* rs1_rs2_eqz[0], the result of SLT and SLTU: of words with different signs the
\* signs decide, otherwise that of the difference, which cannot overflow.
rs1_rs2_lt(aluSel, x, y) ==
  LET minus_result == adder_result(aluSel, x, y)
  IN  /\ minus_result # 0
      /\ IF Sign(x) # Sign(y) THEN Sign(IF aluSel = "SLT" THEN x ELSE y)
         ELSE Sign(minus_result)

\* Mutant of shift_result: a left shift by 0 takes the lower half, too.
shift_resultByZero(op, x, y) ==
  LET left == (Width - (y % Width)) % Width
      amt == IF op = "SLL" THEN left ELSE y % Width
      shifted == ((IF op = "SRA" THEN AsSigned(x) ELSE x) * Size) \div Pow2[amt]
  IN  IF op = "SLL" THEN shifted % Size ELSE (shifted \div Size) % Size

\* The word is the upper half of a double word, shifted right.  A left shift by
\* n is the lower half after a shift by Width - n, but for n = 0.
shift_result(op, x, y) ==
  LET left == (Width - (y % Width)) % Width
      amt == IF op = "SLL" THEN left ELSE y % Width
      shifted == ((IF op = "SRA" THEN AsSigned(x) ELSE x) * Size) \div Pow2[amt]
  IN  IF op = "SLL" /\ left # 0 THEN shifted % Size ELSE (shifted \div Size) % Size

-----------------------------------------------------------------------------
(***************************************************************************)
(* branch_compare.sv and the controller's decision.                        *)
(***************************************************************************)

\* Of words with the same sign, the other bits.
same_sign(x, y) ==
  IF Low(x) = Low(y) THEN "EQ" ELSE IF Low(x) > Low(y) THEN "GT" ELSE "LT"

\* Mutant of rs1_rs2_eqz: of two negative words the one of the greater
\* magnitude is the greater.
rs1_rs2_eqzMagnitude(x, y) ==
  IF Sign(x) # Sign(y) THEN IF Sign(x) THEN "LT" ELSE "GT"
  ELSE IF Sign(x) THEN same_sign(y, x) ELSE same_sign(x, y)

rs1_rs2_eqz(x, y) ==
  IF Sign(x) # Sign(y) THEN IF Sign(x) THEN "LT" ELSE "GT" ELSE same_sign(x, y)

rs1_rs2_eqz_u(x, y) ==
  IF Sign(x) # Sign(y) THEN IF Sign(y) THEN "LT" ELSE "GT" ELSE same_sign(x, y)

branch_taken(funct3, x, y) ==
  CASE funct3 = "BEQ"  -> rs1_rs2_eqz(x, y) = "EQ"
    [] funct3 = "BNE"  -> rs1_rs2_eqz(x, y) # "EQ"
    [] funct3 = "BLT"  -> rs1_rs2_eqz(x, y) = "LT"
    [] funct3 = "BLTU" -> rs1_rs2_eqz_u(x, y) = "LT"
    [] funct3 = "BGE"  -> rs1_rs2_eqz(x, y) \in {"GT", "EQ"}
    [] funct3 = "BGEU" -> rs1_rs2_eqz_u(x, y) \in {"GT", "EQ"}

=============================================================================
