---------------------------- MODULE ExecuteProofs ----------------------------
(***************************************************************************)
(* Theorems about the execute stage's instructions of one cycle, for words *)
(* and bytes of any size, and whatever the multiplier and the divider do   *)
(* before and after them.                                                  *)
(***************************************************************************)
EXTENDS Execute, MulDivProofs, TLAPS

\* The ALU's words are those of the multiplier and the divider.
LEMMA MsbIsSignBit ==
  /\ Msb \in Nat \ {0} /\ Msb = SignBit /\ Size = Pow2[W]
  /\ Words = Word /\ Width = W /\ Width \in Nat \ {0}
<1>1. Width = W
  BY StageAssumption
<1>2. Msb = SignBit
  BY <1>1 DEF Msb, SignBit
<1> QED BY <1>1, <1>2, Powers, ShifterAssumption DEF Size, Words, Word

\* The operands of an integer instruction are words.
LEMMA IntegerOperands ==
  ASSUME InStage, inst.op = "integer"
  PROVE  /\ Msb \in Int /\ Msb > 0 /\ Size = 2 * Msb
         /\ inst.a \in 0 .. 2 * Msb - 1 /\ inst.b \in 0 .. 2 * Msb - 1
         /\ inst.a \in Words /\ inst.b \in Words
<1>1. inst \in IntegerInst
  BY StageAssumption DEF InStage, Instructions, SingleCycle, StoreInst, Bubble, MulOps, DivOps
<1>2. inst.a \in Words /\ inst.b \in Words
  BY <1>1, OperandAssumption, MsbIsSignBit DEF IntegerInst
<1> QED BY <1>2, MsbIsSignBit DEF Words, Size

-----------------------------------------------------------------------------
(***************************************************************************)
(* The adder and the comparisons.                                          *)
(***************************************************************************)

\* The adder with its carry bit, halved: the sum, or the difference plus Size.
LEMMA HalvedSum ==
  ASSUME NEW x \in Words, NEW y \in Words, NEW aluSel
  PROVE  adder_result_ext_o(aluSel, x, y) \div 2 =
           IF adder_op_b_negate(aluSel) THEN x - y + Size ELSE x + y
<1>1. x \in Int /\ y \in Int /\ Size \in Int
  BY MsbIsSignBit DEF Words, Size
<1>2. \A n \in Int : (2 * n + 1) \div 2 = n /\ (2 * n) \div 2 = n
  OBVIOUS
<1>3. adder_result_ext_o(aluSel, x, y) =
        IF adder_op_b_negate(aluSel) THEN 2 * (x - y + Size) ELSE 2 * (x + y) + 1
  BY <1>1 DEF adder_result_ext_o
<1>4. x + y \in Int /\ x - y + Size \in Int
  BY <1>1
<1> QED BY <1>2, <1>3, <1>4

\* Bits 32 to 1 of it.
LEMMA WrappedSum ==
  ASSUME NEW x \in Words, NEW y \in Words, NEW aluSel
  PROVE  adder_result(aluSel, x, y) =
           IF adder_op_b_negate(aluSel) THEN IF x >= y THEN x - y ELSE x - y + Size
           ELSE IF x + y < Size THEN x + y ELSE x + y - Size
<1>1. x \in 0 .. Size - 1 /\ y \in 0 .. Size - 1 /\ Size \in Int
  BY MsbIsSignBit DEF Words, Size
<1> QED BY <1>1, HalvedSum DEF adder_result

\* The sign of a wrapped difference compares words of the same sign.
LEMMA SetLess ==
  ASSUME NEW x \in Words, NEW y \in Words
  PROVE  /\ rs1_rs2_lt("SLT", x, y) <=> AsSigned(x) < AsSigned(y)
         /\ rs1_rs2_lt("SLTU", x, y) <=> x < y
<1>1. /\ Msb \in Int /\ Msb > 0 /\ Size = 2 * Msb
      /\ x \in 0 .. 2 * Msb - 1 /\ y \in 0 .. 2 * Msb - 1
  BY MsbIsSignBit DEF Words, Size
<1>2. ASSUME NEW aluSel \in {"SLT", "SLTU"}
      PROVE  adder_result(aluSel, x, y) = IF x >= y THEN x - y ELSE x - y + 2 * Msb
  BY <1>1, WrappedSum DEF adder_op_b_negate
<1>3. rs1_rs2_lt("SLT", x, y) <=> AsSigned(x) < AsSigned(y)
  BY <1>1, <1>2 DEF rs1_rs2_lt, AsSigned, Sign
<1>4. rs1_rs2_lt("SLTU", x, y) <=> x < y
  BY <1>1, <1>2 DEF rs1_rs2_lt, Sign
<1> QED BY <1>3, <1>4

\* Sums and differences wrap around, and SLT and SLTU compare what their operands
\* stand for (alu.sv:69-109, 157-185).
THEOREM SumCorrect == Spec => []SumRight
<1>1. InStage => SumRight
  <2> SUFFICES ASSUME InStage, inst.op = "integer" PROVE SumRight
    BY DEF SumRight
  <2>1. inst.a \in Words /\ inst.b \in Words
    BY IntegerOperands
  <2>2. /\ adder_result("ADD", inst.a, inst.b) =
             IF inst.a + inst.b < Size THEN inst.a + inst.b
             ELSE inst.a + inst.b - Size
        /\ adder_result("SUB", inst.a, inst.b) =
             IF inst.a >= inst.b THEN inst.a - inst.b ELSE inst.a - inst.b + Size
    BY <2>1, WrappedSum DEF adder_op_b_negate
  <2>3. /\ rs1_rs2_lt("SLT", inst.a, inst.b) <=> AsSigned(inst.a) < AsSigned(inst.b)
        /\ rs1_rs2_lt("SLTU", inst.a, inst.b) <=> inst.a < inst.b
    BY <2>1, SetLess
  <2> QED BY <2>2, <2>3 DEF SumRight, alu_result_o, Flag
<1> QED BY <1>1, StageInvariant, PTL

\* The comparator's two answers.
LEMMA Compare ==
  ASSUME NEW x \in Words, NEW y \in Words
  PROVE  /\ rs1_rs2_eqz(x, y) \in {"GT", "LT", "EQ"}
         /\ rs1_rs2_eqz(x, y) = "EQ" <=> x = y
         /\ rs1_rs2_eqz(x, y) = "LT" <=> AsSigned(x) < AsSigned(y)
         /\ rs1_rs2_eqz_u(x, y) \in {"GT", "LT", "EQ"}
         /\ rs1_rs2_eqz_u(x, y) = "EQ" <=> x = y
         /\ rs1_rs2_eqz_u(x, y) = "LT" <=> x < y
<1>1. /\ Msb \in Int /\ Msb > 0 /\ Size = 2 * Msb
      /\ x \in 0 .. 2 * Msb - 1 /\ y \in 0 .. 2 * Msb - 1
  BY MsbIsSignBit DEF Words, Size
<1>2. /\ rs1_rs2_eqz(x, y) \in {"GT", "LT", "EQ"}
      /\ rs1_rs2_eqz(x, y) = "EQ" <=> x = y
      /\ rs1_rs2_eqz(x, y) = "LT" <=> AsSigned(x) < AsSigned(y)
  BY <1>1 DEF rs1_rs2_eqz, same_sign, Sign, Low, AsSigned
<1>3. /\ rs1_rs2_eqz_u(x, y) \in {"GT", "LT", "EQ"}
      /\ rs1_rs2_eqz_u(x, y) = "EQ" <=> x = y
      /\ rs1_rs2_eqz_u(x, y) = "LT" <=> x < y
  BY <1>1 DEF rs1_rs2_eqz_u, same_sign, Sign, Low
<1> QED BY <1>2, <1>3

\* The branch comparator decides the six branches (branch_compare.sv:14-60,
\* controller.sv:439-472).
THEOREM BranchCorrect == Spec => []BranchRight
<1>1. InStage => BranchRight
  <2> SUFFICES ASSUME InStage, inst.op = "integer" PROVE BranchRight
    BY DEF BranchRight
  <2>1. PICK x \in Words, y \in Words : x = inst.a /\ y = inst.b
    BY IntegerOperands
  <2>2. /\ Msb \in Int /\ Msb > 0 /\ Size = 2 * Msb
        /\ x \in 0 .. 2 * Msb - 1 /\ y \in 0 .. 2 * Msb - 1
    BY <2>1, IntegerOperands
  <2>3. /\ AsSigned(x) \in Int /\ AsSigned(y) \in Int
        /\ AsSigned(x) = AsSigned(y) <=> x = y
    BY <2>2 DEF AsSigned, Sign
  <2>4. /\ branch_taken("BEQ", x, y) <=> x = y
        /\ branch_taken("BNE", x, y) <=> x # y
        /\ branch_taken("BLT", x, y) <=> AsSigned(x) < AsSigned(y)
        /\ branch_taken("BGE", x, y) <=> AsSigned(x) >= AsSigned(y)
        /\ branch_taken("BLTU", x, y) <=> x < y
        /\ branch_taken("BGEU", x, y) <=> x >= y
    BY <2>2, <2>3, Compare DEF branch_taken
  <2> QED BY <2>1, <2>4 DEF BranchRight
<1> QED BY <1>1, StageInvariant, PTL

-----------------------------------------------------------------------------
(***************************************************************************)
(* Loads and stores.                                                       *)
(***************************************************************************)

\* The lanes a store of any length writes at any offset, one by one.
LEMMA StoredLanes ==
  ASSUME NEW length \in Lengths, NEW offset \in Offsets(length),
         NEW data \in MemWord, NEW line \in MemWord, NEW p \in Places
  PROVE  Stored(line, length, offset, data)[p] =
           IF p \in offset .. offset + length - 1 THEN data[p - offset] ELSE line[p]
<1>1. CASE length = 1
  BY <1>1 DEF Stored, byte_enable, data_o, Offsets, Places
<1>2. CASE length = 2
  BY <1>2 DEF Stored, byte_enable, data_o, Offsets, Places
<1>3. CASE length = 4
  BY <1>3 DEF Stored, byte_enable, data_o, Offsets, Places
<1> QED BY <1>1, <1>2, <1>3 DEF Lengths

\* A load of what was just stored returns it, extended.
LEMMA LoadStored ==
  ASSUME NEW length \in Lengths, NEW data \in MemWord, NEW line \in MemWord,
         NEW signed \in BOOLEAN, NEW offset \in Offsets(length)
  PROVE  result_o(length, offset, signed, Stored(line, length, offset, data))
           = Extended(length, signed, data)
<1> DEFINE word == Stored(line, length, offset, data)
<1>1. \A p \in Places : p < length => p + offset \in Places /\ word[p + offset] = data[p]
  BY StoredLanes DEF Lengths, Offsets, Places
<1>2. word[offset + length - 1] = data[length - 1]
  BY <1>1 DEF Lengths, Offsets, Places
<1> HIDE DEF word
<1>3. result_o(length, offset, signed, word) = Extended(length, signed, data)
  BY <1>1, <1>2 DEF result_o, Extended
<1> QED BY <1>3 DEF word

\* A store leaves the loads of other bytes of its word alone.
LEMMA LoadOther ==
  ASSUME NEW length \in Lengths, NEW other \in Lengths,
         NEW data \in MemWord, NEW line \in MemWord, NEW signed \in BOOLEAN,
         NEW offset \in Offsets(length), NEW at \in Offsets(other),
         at + other <= offset \/ offset + length <= at
  PROVE  result_o(other, at, signed, Stored(line, length, offset, data))
           = result_o(other, at, signed, line)
<1> DEFINE word == Stored(line, length, offset, data)
<1>1. \A p \in Places : p < other => p + at \in Places /\ word[p + at] = line[p + at]
  BY StoredLanes DEF Lengths, Offsets, Places
<1>2. word[at + other - 1] = line[at + other - 1]
  BY <1>1 DEF Lengths, Offsets, Places
<1> HIDE DEF word
<1>3. result_o(other, at, signed, word) = result_o(other, at, signed, line)
  BY <1>1, <1>2 DEF result_o
<1> QED BY <1>3 DEF word

\* Loads see the bytes that stores wrote and no others, at every length and
\* offset (load_store_unit.sv:56-129).
THEOREM StoreLoadCorrect == Spec => []StoreLoadRight
<1>1. InStage => StoreLoadRight
  <2> SUFFICES ASSUME InStage, inst.op = "store" PROVE StoreLoadRight
    BY DEF StoreLoadRight
  <2>1. inst \in StoreInst
    BY StageAssumption
    DEF InStage, Instructions, SingleCycle, IntegerInst, Bubble, MulOps, DivOps
  <2>2. PICK data \in MemWord, line \in MemWord : data = inst.data /\ line = inst.line_in
    BY <2>1, StageAssumption DEF StoreInst
  <2> SUFFICES ASSUME NEW length \in Lengths, NEW signed \in BOOLEAN,
                      NEW offset \in Offsets(length)
               PROVE  /\ result_o(length, offset, signed, store_line(length, offset))
                           = Extended(length, signed, inst.data)
                      /\ \A other \in Lengths : \A at \in Offsets(other) :
                           at + other <= offset \/ offset + length <= at =>
                             result_o(other, at, signed, store_line(length, offset))
                               = result_o(other, at, signed, inst.line_in)
    BY DEF StoreLoadRight
  <2>3. store_line(length, offset) = Stored(line, length, offset, data)
    BY <2>2 DEF store_line
  <2>4. result_o(length, offset, signed, store_line(length, offset))
          = Extended(length, signed, inst.data)
    BY <2>2, <2>3, LoadStored
  <2>5. ASSUME NEW other \in Lengths, NEW at \in Offsets(other),
               at + other <= offset \/ offset + length <= at
        PROVE  result_o(other, at, signed, store_line(length, offset))
                 = result_o(other, at, signed, inst.line_in)
    BY <2>2, <2>3, <2>5, LoadOther
  <2> QED BY <2>4, <2>5
<1> QED BY <1>1, StageInvariant, PTL
-----------------------------------------------------------------------------
(***************************************************************************)
(* The shifter.                                                            *)
(***************************************************************************)

\* A number whose lower half is shifted in from the right.
LEMMA ShiftedDouble ==
  ASSUME NEW s \in Int, NEW k \in Nat, k > 0, NEW P \in Nat, P > 0
  PROVE  ((s * k) \div P) \div k = s \div P
<1> DEFINE z == s * k
<1>1. z \in Int /\ k * P \in Nat /\ k * P = P * k
  OBVIOUS
<1>2. z \div k = s
  <2>1. z = s * k + 0 /\ 0 \in 0 .. k - 1
    OBVIOUS
  <2> HIDE DEF z
  <2> QED BY <1>1, <2>1, DivModUnique
<1> HIDE DEF z
<1>3. (z \div P) \div k = z \div (k * P)
  BY <1>1, DivModTwice
<1>4. (z \div k) \div P = z \div (P * k)
  BY <1>1, DivModTwice
<1> QED BY <1>1, <1>2, <1>3, <1>4 DEF z

LEMMA ShiftAmount ==
  ASSUME NEW y \in Int
  PROVE  LET n == y % Width
         IN  /\ n \in Nat /\ Pow2[n] \in Nat /\ Pow2[n] > 0
             /\ n = 0 => (Width - n) % Width = 0 /\ Pow2[n] = 1
             /\ n # 0 => /\ (Width - n) % Width = Width - n /\ Width - n # 0
                         /\ Pow2[Width - n] \in Nat /\ Pow2[Width - n] > 0
                         /\ Size = Pow2[n] * Pow2[Width - n]
<1> DEFINE n == y % Width
<1>1. Width \in Nat /\ Width > 0 /\ Size = Pow2[Width]
  BY MsbIsSignBit
<1>2. n \in 0 .. Width - 1
  BY <1>1
<1> HIDE DEF n
<1>3. CASE n = 0
  <2>1. (Width - n) % Width = 0
    BY <1>1, <1>3
  <2> QED BY <1>3, <2>1, Pow2Zero DEF n
<1>4. CASE n # 0
  <2>1. /\ n \in Nat /\ Width - n \in Nat /\ Width - n # 0 /\ n + (Width - n) = Width
        /\ (Width - n) % Width = Width - n
    BY <1>1, <1>2, <1>4
  <2>2. Size = Pow2[n] * Pow2[Width - n]
    BY <1>1, <2>1, Pow2Sum
  <2> QED BY <1>4, <2>1, <2>2, Pow2Type DEF n
<1> QED BY <1>3, <1>4

\* One right shifter serves the three shifts, for words of any size and by any
\* operand: a left shift is the lower half of a double word shifted right by the rest
\* of the width, except by zero (alu.sv:112-154).
THEOREM ShiftsRight == Spec => []ShiftRight
<1>1. ASSUME InStage, inst.op = "integer"
      PROVE  LET n == inst.b % Width
             IN  /\ alu_result_o("SLL") = (inst.a * Pow2[n]) % Size
                 /\ alu_result_o("SRL") = inst.a \div Pow2[n]
                 /\ alu_result_o("SRA") = (AsSigned(inst.a) \div Pow2[n]) % Size
  <2> DEFINE x == inst.a
             n == inst.b % Width
             left == (Width - n) % Width
             P == Pow2[n]
             s == AsSigned(x)
  <2>1. Size \in Nat /\ Size > 0 /\ x \in 0 .. Size - 1 /\ inst.b \in Int /\ s \in Int
    BY <1>1, IntegerOperands DEF AsSigned
  <2>2. /\ n \in Nat /\ P \in Nat /\ P > 0
        /\ n = 0 => left = 0 /\ P = 1
        /\ n # 0 => /\ left = Width - n /\ left # 0
                    /\ Pow2[left] \in Nat /\ Pow2[left] > 0 /\ Size = P * Pow2[left]
    BY <2>1, ShiftAmount
  <2>3. /\ alu_result_o("SLL")
             = IF left # 0 THEN ((x * Size) \div Pow2[left]) % Size
               ELSE (((x * Size) \div Pow2[left]) \div Size) % Size
        /\ alu_result_o("SRL") = (((x * Size) \div P) \div Size) % Size
        /\ alu_result_o("SRA") = (((s * Size) \div P) \div Size) % Size
    BY DEF alu_result_o, shift_result
  <2> HIDE DEF n, left, P, s, x
  <2>4. alu_result_o("SRL") = x \div P
    <3>1. x \div P \in 0 .. Size - 1
      BY <2>1, <2>2
    <3>2. ((x * Size) \div P) \div Size = x \div P
      BY <2>1, <2>2, ShiftedDouble
    <3>3. (x \div P) % Size = x \div P
      BY <2>1, <3>1
    <3> QED BY <2>3, <3>2, <3>3
  <2>5. alu_result_o("SRA") = (s \div P) % Size
    BY <2>1, <2>2, <2>3, ShiftedDouble
  <2>6. alu_result_o("SLL") = (x * P) % Size
    <3>1. CASE n = 0
      <4>1. x \div 1 = x /\ x * 1 = x
        BY <2>1
      <4>2. ((x * Size) \div 1) \div Size = x \div 1
        BY <2>1, ShiftedDouble
      <4> QED BY <2>2, <2>3, <3>1, <4>1, <4>2, Pow2Zero
    <3>2. CASE n # 0
      <4> DEFINE L == Pow2[left]
                 v == x * P
      <4>1. L \in Nat /\ L > 0 /\ Size = P * L /\ v \in Int
        BY <2>1, <2>2, <3>2
      <4> HIDE DEF L
      <4>2. x * Size = v * L
        BY <2>1, <2>2, <4>1
      <4> HIDE DEF v
      <4>3. (v * L) \div L = v
        <5>1. ASSUME NEW u \in Int, u = v * L + 0 PROVE u \div L = v
          BY <4>1, <5>1, DivModUnique
        <5> QED BY <4>1, <5>1
      <4>4. alu_result_o("SLL") = ((x * Size) \div L) % Size
        BY <2>2, <2>3, <3>2 DEF L
      <4> QED BY <4>2, <4>3, <4>4 DEF v
    <3> QED BY <3>1, <3>2
  <2> QED BY <2>4, <2>5, <2>6 DEF n, P, s, x
<1>2. InStage => ShiftRight
  BY <1>1 DEF ShiftRight
<1> QED BY <1>2, StageInvariant, PTL
=============================================================================
