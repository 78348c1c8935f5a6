------------------------------- MODULE MulDiv -------------------------------
(***************************************************************************)
(* The M extension: the four-round multiplier (multiplier_fast.sv), the    *)
(* divider the Makefiles build (divider_nonrestoring.sv), the ALU's adder  *)
(* they share, and the stall that holds their instruction in the execute   *)
(* stage (ex_stage.sv, controller.sv).                                     *)
(*                                                                         *)
(* The code's 32 is W: a word is a number below Pow2[W].  Every action is  *)
(* one rising edge of the clock.  The operands are those of the            *)
(* instruction in the execute stage: nothing writes a register while it    *)
(* stalls.                                                                 *)
(***************************************************************************)
EXTENDS PowersOfTwo

CONSTANTS
  W,         \* bits of a word
  Operands,  \* the words instructions are given
  Others     \* the instructions that are not of the M extension

Half == W \div 2
Word == 0 .. Pow2[W] - 1
DoubleWord == 0 .. Pow2[2 * W] - 1
SignBit == Pow2[W - 1]   \* 32'h80000000

ASSUME WidthAssumption == W \in Nat /\ W >= 4 /\ W % 2 = 0
ASSUME OperandAssumption == Operands \subseteq Word

MulOps == {"MULL", "MULH", "MULHSU", "MULHU"}
DivOps == {"DIV", "DIVU", "REM", "REMU"}

\* Zeros, while the execute stage waits for the fetch.
Bubble == [op |-> "bubble"]
Instructions ==
  [op : MulOps \cup DivOps, a : Operands, b : Operands] \cup Others \cup {Bubble}
ASSUME OthersAssumption == \A i \in Others : i.op \notin MulOps \cup DivOps

VARIABLES
  inst,          \* the execute stage's instruction and its source operands
  mul_round,     \* round_record of the multiplier
  mul_product,   \* its product register
  mul_held,      \* product_next[63:32]: no round assigns all of product_next
  div_round,     \* round_record of the divider
  div_product    \* its product register: partial remainder, dividend and quotient

mulVars == <<mul_round, mul_product, mul_held>>
divVars == <<div_round, div_product>>
vars == <<inst, mulVars, divVars>>

mulit_en == inst.op \in MulOps
div_en == inst.op \in DivOps
is_rvmop == mulit_en \/ div_en

-----------------------------------------------------------------------------
(***************************************************************************)
(* Words.                                                                  *)
(***************************************************************************)
Bits(x, hi, lo) == (x \div Pow2[lo]) % Pow2[hi - lo + 1]
SetBits(x, hi, lo, v) == x + (v - Bits(x, hi, lo)) * Pow2[lo]
Negate(x) == (Pow2[W] - x) % Pow2[W]
Negative(x) == x >= SignBit
Magnitude(x) == IF Negative(x) THEN Negate(x) ELSE x
Complement(x) == Pow2[W] - 1 - x
Flag(p) == IF p THEN 1 ELSE 0

\* The bits the units read of the ALU's sum: [33:1] of an addition (the carry
\* included) and [32:1] of a subtraction.
adder_sum(x, y) == x + y
adder_diff(x, y) == (x - y) % Pow2[W]

-----------------------------------------------------------------------------
(***************************************************************************)
(* The multiplier: one 16 by 16 product each round.                        *)
(***************************************************************************)
mul_operand_a ==
  IF inst.op \in {"MULH", "MULHSU"} THEN Magnitude(inst.a) ELSE inst.a
mul_operand_b == IF inst.op = "MULH" THEN Magnitude(inst.b) ELSE inst.b

\* Mutant of partial_product: the halves of b follow those of a.
partial_productSameHalf ==
  LET half(x) == IF mul_round \in {0, 2} THEN Bits(x, Half - 1, 0) ELSE Bits(x, W - 1, Half)
  IN  half(mul_operand_a) * half(mul_operand_b)

partial_product ==
  LET half_a == IF mul_round \in {0, 2} THEN Bits(mul_operand_a, Half - 1, 0)
                                        ELSE Bits(mul_operand_a, W - 1, Half)
      half_b == IF mul_round \in {0, 1} THEN Bits(mul_operand_b, Half - 1, 0)
                                        ELSE Bits(mul_operand_b, W - 1, Half)
  IN  half_a * half_b

\* Mutant of mult_operand_b: the last round leaves out product[48], the carry
\* of the two middle products.
mult_operand_bNoCarry ==
  CASE mul_round = 1 -> Bits(mul_product, W - 1, Half)
    [] mul_round = 2 -> Bits(mul_product, W + Half - 1, Half)
    [] OTHER         -> Bits(mul_product, W + Half - 1, W)

\* What a round adds to its partial product.
mult_operand_b ==
  CASE mul_round = 1 -> Bits(mul_product, W - 1, Half)
    [] mul_round = 2 -> Bits(mul_product, W + Half - 1, Half)
    [] OTHER         -> Bits(mul_product, W + Half, W)

\* The bits a round does not assign are kept, as in a latch: those of the round
\* before, which the product register holds, and in round 0 those of whatever
\* multiplication was the last.
mul_product_next ==
  LET sum == adder_sum(partial_product, mult_operand_b)
  IN  CASE mul_round = 0       -> mul_held * Pow2[W] + partial_product
        [] mul_round \in {1, 2} -> SetBits(mul_product, W + Half, Half, sum)
        [] OTHER -> SetBits(mul_product, 2 * W - 1, W, sum % Pow2[W])

\* Mutant of mul_finish: MUL takes the round it does not need.
mul_finishLate == mul_round = 3

mul_finish == IF inst.op = "MULL" THEN mul_round = 2 ELSE mul_round = 3

mul_result ==
  LET negated == (Pow2[2 * W] - mul_product_next) % Pow2[2 * W]
      result_negate ==
        \/ inst.op = "MULH" /\ (Negative(inst.a) # Negative(inst.b))
        \/ inst.op = "MULHSU" /\ Negative(inst.a)
  IN  IF inst.op = "MULL" THEN Bits(mul_product_next, W - 1, 0)
      ELSE Bits(IF result_negate THEN negated ELSE mul_product_next, 2 * W - 1, W)

MulRegisters ==
  /\ mul_round' = IF mulit_en /\ ~mul_finish THEN mul_round + 1 ELSE 0
  /\ mul_product' = IF mulit_en THEN mul_product_next ELSE 0
  /\ mul_held' = IF mulit_en THEN Bits(mul_product_next, 2 * W - 1, W) ELSE mul_held

-----------------------------------------------------------------------------
(***************************************************************************)
(* The divider: W rounds that subtract the divisor from the doubled        *)
(* partial remainder, or add it when that is negative, and a last round    *)
(* that corrects quotient and remainder.                                   *)
(***************************************************************************)
signed_en == inst.op \in {"DIV", "REM"}
rem_en == inst.op \in {"REM", "REMU"}
operand_a == IF signed_en THEN Magnitude(inst.a) ELSE inst.a
operand_b == IF signed_en THEN Magnitude(inst.b) ELSE inst.b

\* The signed tests look at the bits below the sign.
dividend_zero_signed == Bits(inst.a, W - 2, 0) = 0
divisor_zero_signed == Bits(inst.b, W - 2, 0) = 0
dividend_zero_unsigned == inst.a = 0
divisor_zero_unsigned == inst.b = 0
special_signed == dividend_zero_signed \/ divisor_zero_signed
special_unsigned == dividend_zero_unsigned \/ divisor_zero_unsigned

divu_small_large == ~Negative(operand_a) /\ Negative(operand_b)
divu_large_large == Negative(operand_a) /\ Negative(operand_b)

div_finish == div_round = W + 1 \/ (signed_en /\ special_signed)
divu_finish ==
  divu_small_large \/ divu_large_large \/ (~signed_en /\ special_unsigned)
round_finish == div_finish \/ divu_finish

remainder == Bits(div_product, 2 * W - 1, W)
quotient == Bits(div_product, W - 1, 0)

div_operand_a ==
  IF div_finish THEN (IF rem_en THEN remainder ELSE quotient)
  ELSE IF divu_large_large THEN operand_a
  ELSE Bits(div_product, 2 * W - 2, W - 1)
div_operand_b == IF div_finish /\ ~rem_en THEN Complement(quotient) ELSE operand_b
\* Mutant of div_sub: the first round's subtraction in every round.
div_subAlways == IF div_finish THEN ~rem_en ELSE TRUE

div_sub == IF div_finish THEN ~rem_en
           ELSE divu_large_large \/ ~Negative(remainder)

alu_result ==
  IF div_sub THEN adder_diff(div_operand_a, div_operand_b)
  ELSE adder_sum(div_operand_a, div_operand_b) % Pow2[W]

div_product_next ==
  IF div_round = 0 THEN operand_a
  ELSE alu_result * Pow2[W] + Bits(quotient, W - 2, 0) * 2 + Flag(~Negative(remainder))

quo_result_special ==
  IF divisor_zero_signed THEN Pow2[W] - 1
  ELSE IF dividend_zero_unsigned THEN 0 ELSE SignBit
rem_result_special == IF divisor_zero_signed THEN inst.a ELSE 0

quo_result_signed ==
  LET quo_result_ori == adder_diff(alu_result, Flag(Negative(remainder)))
  IN  IF special_signed THEN quo_result_special
      ELSE IF Negative(inst.a) # Negative(inst.b) THEN Negate(quo_result_ori)
      ELSE quo_result_ori

quo_result_unsigned ==
  IF special_unsigned THEN quo_result_special
  ELSE IF divu_small_large THEN 0
  ELSE IF divu_large_large THEN Flag(~Negative(alu_result))
  ELSE Bits(div_product_next, W - 1, 0)

rem_result_signed ==
  IF special_signed THEN rem_result_special
  ELSE IF Negative(inst.a) THEN Negate(remainder)
  ELSE IF Negative(remainder) THEN alu_result ELSE remainder

\* Mutant of rem_result_unsigned: a negative remainder is not corrected.
rem_result_unsignedRaw ==
  IF special_unsigned THEN rem_result_special
  ELSE IF divu_small_large THEN inst.a
  ELSE IF divu_large_large
       THEN (IF Negative(alu_result) THEN inst.a ELSE alu_result)
  ELSE remainder

rem_result_unsigned ==
  IF special_unsigned THEN rem_result_special
  ELSE IF divu_small_large THEN inst.a
  ELSE IF divu_large_large
       THEN (IF Negative(alu_result) THEN inst.a ELSE alu_result)
  ELSE IF Negative(remainder) THEN alu_result ELSE remainder

div_result ==
  CASE inst.op = "DIV"  -> quo_result_signed
    [] inst.op = "DIVU" -> quo_result_unsigned
    [] inst.op = "REM"  -> rem_result_signed
    [] OTHER            -> rem_result_unsigned

DivRegisters ==
  /\ div_round' = IF div_en /\ ~round_finish THEN div_round + 1 ELSE 0
  /\ div_product' = IF div_en THEN div_product_next ELSE 0

-----------------------------------------------------------------------------
(***************************************************************************)
(* The pipeline.                                                           *)
(***************************************************************************)
multdiv_finish == IF mulit_en THEN mul_finish ELSE round_finish
muldiv_result == IF mulit_en THEN mul_result ELSE div_result
muldiv_stall == is_rvmop /\ ~multdiv_finish

\* The register is written in the cycle the stall ends.
WriteBack == is_rvmop /\ multdiv_finish

Init ==
  /\ inst = Bubble
  /\ mul_round = 0 /\ mul_product = 0 /\ mul_held = 0
  /\ div_round = 0 /\ div_product = 0

Stall ==
  /\ muldiv_stall
  /\ MulRegisters
  /\ DivRegisters
  /\ UNCHANGED inst

Retire ==
  /\ ~muldiv_stall
  /\ MulRegisters
  /\ DivRegisters
  /\ inst' \in Instructions

Next == Stall \/ Retire

Spec == Init /\ [][Next]_vars

-----------------------------------------------------------------------------
(***************************************************************************)
(* What the instructions promise (the RISC-V M extension).                 *)
(***************************************************************************)
Signed(x) == IF Negative(x) THEN x - Pow2[W] ELSE x
Unsigned(i) == i % Pow2[W]

Riscv(op, a, b) ==
  LET x == Signed(a)
      y == Signed(b)
      quo == LET q == Magnitude(a) \div Magnitude(b)
             IN  IF Negative(a) # Negative(b) THEN -q ELSE q
  IN  CASE op = "MULL"   -> Unsigned(a * b)
        [] op = "MULH"   -> Unsigned((x * y) \div Pow2[W])
        [] op = "MULHSU" -> Unsigned((x * b) \div Pow2[W])
        [] op = "MULHU"  -> (a * b) \div Pow2[W]
        [] op = "DIV"    -> IF b = 0 THEN Pow2[W] - 1 ELSE Unsigned(quo)
        [] op = "DIVU"   -> IF b = 0 THEN Pow2[W] - 1 ELSE a \div b
        [] op = "REM"    -> IF b = 0 THEN a ELSE Unsigned(x - quo * y)
        [] OTHER         -> IF b = 0 THEN a ELSE a % b

\* Each stalled cycle is a round, and a unit that is not in use is in round 0: so
\* a stall takes 2 cycles for MUL, 3 for MULH, MULHSU and MULHU, and at most
\* W + 1 for a division, which starts anew for each instruction
\* (controller.sv:400).
RoundsBounded ==
  /\ mul_round \in 0 .. (IF inst.op = "MULL" THEN 2 ELSE 3)
  /\ div_round \in 0 .. W + 1
  /\ ~mulit_en => mul_round = 0
  /\ ~div_en => div_round = 0

\* Every register keeps its width, and the rounds their bounds.
TypeOK ==
  /\ inst \in Instructions
  /\ mul_product \in DoubleWord /\ mul_held \in Word
  /\ div_product \in DoubleWord
  /\ RoundsBounded

\* What a multiplication writes back is the RISC-V product, whatever the
\* instructions before it left in the registers and in the latched bits of
\* product_next (multiplier_fast.sv:134-149, 167-177).
MulResult == WriteBack /\ mulit_en => muldiv_result = Riscv(inst.op, inst.a, inst.b)

\* The bits a round needs of those before it: the sum of the products of halves
\* so far, with the carries out of them.  Above these the register holds what no
\* round of this multiplication assigned (multiplier_fast.sv:109-149).
PartialProduct ==
  LET low_a == mul_operand_a % Pow2[Half]
      low_b == mul_operand_b % Pow2[Half]
      high_b == mul_operand_b \div Pow2[Half]
      up_to_carry == mul_product % Pow2[W + Half + 1]
  IN  /\ mul_round = 1 => mul_product % Pow2[W] = low_a * low_b
      /\ mul_round = 2 => up_to_carry = mul_operand_a * low_b
      /\ mul_round = 3 => up_to_carry = mul_operand_a * low_b + (low_a * high_b) * Pow2[Half]

\* The operands for which the divider's shortcuts and its last round are those
\* of RISC-V.  Left out are REM of a negative dividend (see RemainderSign) and
\* what the shortcuts take for zero when only the sign bit is set
\* (divider_nonrestoring.sv:68-69, 166-178).
Covered ==
  CASE inst.op = "DIV"  -> /\ inst.b # SignBit
                           /\ inst.a = SignBit => inst.b \in {0, 1, Pow2[W] - 1}
    [] inst.op = "DIVU" -> inst.a # 0 \/ inst.b # SignBit
    [] inst.op = "REM"  -> ~Negative(inst.a)
    [] OTHER            -> TRUE

\* What a division writes back is the RISC-V quotient or remainder, by the
\* rounds and by every shortcut that ends before them, also right after another
\* instruction left the registers (divider_nonrestoring.sv:166-203).
DivResult ==
  WriteBack /\ div_en /\ Covered => muldiv_result = Riscv(inst.op, inst.a, inst.b)

\* The invariant of non-restoring division: after n rounds the top n bits of
\* the dividend are the quotient's digits, 1 and -1, times the divisor plus a
\* partial remainder smaller than the divisor; the other bits wait to be
\* shifted in (divider_nonrestoring.sv:50-57, 94-96).
PartialRemainder ==
  div_round > 0 =>
    LET n == div_round - 1
        digits == 2 * (div_product % Pow2[n]) - (Pow2[n] - 1)
    IN  /\ operand_a \div Pow2[W - n] = digits * operand_b + Signed(remainder)
        /\ operand_a % Pow2[W - n] = quotient \div Pow2[n]
        /\ Signed(remainder) \in -operand_b .. operand_b - 1

\* "the sign of remainder is the same as operand_a" (divider_nonrestoring.sv:141).
RemainderSign ==
  WriteBack /\ inst.op = "REM" /\ muldiv_result # 0 =>
    (Negative(muldiv_result) <=> Negative(inst.a))
=============================================================================
