---------------------------- MODULE MulDivProofs ----------------------------
(***************************************************************************)
(* Proofs about MulDiv, for every width W and all operands: the stall of a *)
(* multiplication or a division ends, its rounds add up or divide, and     *)
(* what it writes back is the RISC-V result.  The widths are shown to add  *)
(* up with Pow2, whose recursion is solved first.                          *)
(***************************************************************************)
EXTENDS MulDiv, WellFoundedInduction, TLAPS

(***************************************************************************)
(* Induction, and the recursion of Pow2.                                   *)
(***************************************************************************)
\* A set of naturals has a least one: the library's order on the naturals is
\* well founded.
LEMMA LeastNat ==
  ASSUME NEW T, T \subseteq Nat, T # {}
  PROVE  \E n \in T : n \in Nat /\ \A m \in T : n <= m
<1>1. PICK n \in T : \A m \in T : ~(<<m, n>> \in OpToRel(<, Nat))
  BY WFMin, NatLessThanWellFounded, Zenon
<1>2. ASSUME NEW m \in T PROVE n <= m
  <2>1. m \in Nat /\ n \in Nat
    OBVIOUS
  <2>2. ~(m < n)
    <3>1. SUFFICES ASSUME m < n PROVE <<m, n>> \in OpToRel(<, Nat)
      BY <1>1
    <3> QED BY <2>1, <3>1, Zenon DEF OpToRel
  <2> QED BY <2>1, <2>2
<1> QED BY <1>2

\* Induction, by the least number that would be left out.  A set stands for the
\* property that is proved.
LEMMA Induction ==
  ASSUME NEW S, 0 \in S, \A n \in Nat : n \in S => n + 1 \in S
  PROVE  Nat \subseteq S
<1> DEFINE T == Nat \ S
<1> SUFFICES ASSUME T # {} PROVE FALSE
  OBVIOUS
<1>1. PICK n \in T : n \in Nat /\ \A m \in T : n <= m
  BY LeastNat
<1>2. n # 0
  OBVIOUS
<1>3. n - 1 \in Nat /\ n - 1 \notin T
  BY <1>1, <1>2
<1> QED BY <1>1, <1>3

\* The recursion of Pow2 has a solution, and the CHOOSE it stands for takes one: the
\* tables of each length agree where both are defined.
LEMMA Pow2Defined == Pow2 = [n \in Nat |-> IF n = 0 THEN 1 ELSE 2 * Pow2[n - 1]]
<1> DEFINE Doubling(g, k) ==
      g = [n \in 0 .. k |-> IF n = 0 THEN 1 ELSE 2 * g[n - 1]]
<1>1. \A k \in Nat : \E g : Doubling(g, k)
  <2> DEFINE S == {k \in Nat : \E g : Doubling(g, k)}
  <2>1. 0 \in S
    <3> DEFINE g == [n \in {0} |-> 1]
    <3>1. g = [n \in 0 .. 0 |-> IF n = 0 THEN 1 ELSE 2 * g[n - 1]]
      OBVIOUS
    <3> QED BY <3>1
  <2>2. ASSUME NEW k \in Nat, k \in S PROVE k + 1 \in S
    <3>1. PICK g : Doubling(g, k)
      BY <2>2
    <3> DEFINE h == [n \in 0 .. k + 1 |-> IF n = 0 THEN 1 ELSE 2 * g[n - 1]]
    <3>2. ASSUME NEW n \in 0 .. k PROVE h[n] = g[n]
      <4>1. g[n] = [i \in 0 .. k |-> IF i = 0 THEN 1 ELSE 2 * g[i - 1]][n]
        BY <3>1
      <4> QED BY <4>1
    <3>3. ASSUME NEW n \in 0 .. k + 1, n # 0 PROVE h[n - 1] = g[n - 1]
      <4>1. n - 1 \in 0 .. k
        BY <3>3
      <4> QED BY <4>1, <3>2
    <3>4. h = [n \in 0 .. k + 1 |-> IF n = 0 THEN 1 ELSE 2 * h[n - 1]]
      <4> HIDE DEF h
      <4>1. h = [n \in 0 .. k + 1 |-> IF n = 0 THEN 1 ELSE 2 * g[n - 1]]
        BY DEF h
      <4>2. \A n \in 0 .. k + 1 : 
              (IF n = 0 THEN 1 ELSE 2 * g[n - 1]) = (IF n = 0 THEN 1 ELSE 2 * h[n - 1])
        BY <3>3
      <4> QED BY <4>1, <4>2
    <3>5. Doubling(h, k + 1)
      BY <3>4, Zenon
    <3>6. \E f : Doubling(f, k + 1)
      BY <3>5, Zenon
    <3>7. k + 1 \in Nat
      OBVIOUS
    <3> HIDE DEF h, Doubling
    <3> QED BY <3>6, <3>7, Zenon
  <2>3. Nat \subseteq S
    <3> HIDE DEF S
    <3> QED BY <2>1, <2>2, Induction
  <2> QED BY <2>3
<1>2. ASSUME NEW k \in Nat, NEW l \in Nat, NEW g, NEW h, Doubling(g, k), Doubling(h, l)
      PROVE  \A n \in Nat : n <= k /\ n <= l => g[n] = h[n]
  <2> DEFINE S == {n \in Nat : n <= k /\ n <= l => g[n] = h[n]}
  <2>1. ASSUME NEW n \in 0 .. k PROVE g[n] = IF n = 0 THEN 1 ELSE 2 * g[n - 1]
    <3>1. g[n] = [i \in 0 .. k |-> IF i = 0 THEN 1 ELSE 2 * g[i - 1]][n]
      BY <1>2
    <3> QED BY <3>1
  <2>2. ASSUME NEW n \in 0 .. l PROVE h[n] = IF n = 0 THEN 1 ELSE 2 * h[n - 1]
    <3>1. h[n] = [i \in 0 .. l |-> IF i = 0 THEN 1 ELSE 2 * h[i - 1]][n]
      BY <1>2
    <3> QED BY <3>1
  <2> HIDE DEF Doubling
  <2>3. 0 \in S
    BY <2>1, <2>2
  <2>4. ASSUME NEW n \in Nat, n \in S PROVE n + 1 \in S
    <3>1. SUFFICES ASSUME n + 1 <= k, n + 1 <= l PROVE g[n + 1] = h[n + 1]
      OBVIOUS
    <3>2. g[n] = h[n]
      BY <2>4, <3>1
    <3>3. g[n + 1] = 2 * g[n] /\ h[n + 1] = 2 * h[n]
      <4>1. n + 1 \in 0 .. k /\ n + 1 \in 0 .. l /\ n + 1 # 0 /\ (n + 1) - 1 = n
        BY <3>1
      <4> QED BY <4>1, <2>1, <2>2
    <3> QED BY <3>2, <3>3
  <2>5. Nat \subseteq S
    <3> HIDE DEF S
    <3> QED BY <2>3, <2>4, Induction
  <2> QED BY <2>5
<1> DEFINE G(k) == CHOOSE g : Doubling(g, k)
           F == [n \in Nat |-> G(n)[n]]
<1>3. \A k \in Nat : Doubling(G(k), k)
  BY <1>1, Zenon
<1>4. ASSUME NEW n \in Nat PROVE F[n] = IF n = 0 THEN 1 ELSE 2 * F[n - 1]
  <2> HIDE DEF G
  <2>1. G(n)[n] = IF n = 0 THEN 1 ELSE 2 * G(n)[n - 1]
    <3>1. Doubling(G(n), n)
      BY <1>3
    <3>2. G(n)[n] = [i \in 0 .. n |-> IF i = 0 THEN 1 ELSE 2 * G(n)[i - 1]][n]
      BY <3>1, Zenon
    <3> QED BY <3>2
  <2>2. ASSUME n # 0 PROVE G(n)[n - 1] = G(n - 1)[n - 1]
    <3>1. n - 1 \in Nat /\ n - 1 <= n /\ n - 1 <= n - 1
      BY <2>2
    <3>2. Doubling(G(n), n) /\ Doubling(G(n - 1), n - 1)
      BY <1>3, <3>1
    <3> HIDE DEF Doubling
    <3> QED BY <3>1, <3>2, <1>2
  <2>3. F[n] = G(n)[n] /\ (n # 0 => F[n - 1] = G(n - 1)[n - 1])
    OBVIOUS
  <2> HIDE DEF F
  <2> QED BY <2>1, <2>2, <2>3
<1>5. F = [n \in Nat |-> IF n = 0 THEN 1 ELSE 2 * F[n - 1]]
  <2>1. \A n \in Nat : F[n] = IF n = 0 THEN 1 ELSE 2 * F[n - 1]
    BY <1>4
  <2>2. F = [n \in Nat |-> F[n]]
    OBVIOUS
  <2> HIDE DEF F
  <2> QED BY <2>1, <2>2
<1>6. \E f : f = [n \in Nat |-> IF n = 0 THEN 1 ELSE 2 * f[n - 1]]
  <2> HIDE DEF F
  <2> QED BY <1>5, Zenon
<1> QED BY <1>6, Zenon DEF Pow2

\* The values of Pow2 that its recursion gives, and that they are positive naturals.
LEMMA Pow2Zero == Pow2[0] = 1
<1>1. Pow2[0] = [n \in Nat |-> IF n = 0 THEN 1 ELSE 2 * Pow2[n - 1]][0]
  BY Pow2Defined, Zenon
<1> QED BY <1>1

LEMMA Pow2Double ==
  ASSUME NEW n \in Nat
  PROVE  Pow2[n + 1] = 2 * Pow2[n]
<1>1. Pow2[n + 1] = [i \in Nat |-> IF i = 0 THEN 1 ELSE 2 * Pow2[i - 1]][n + 1]
  BY Pow2Defined, Zenon
<1>2. n + 1 \in Nat /\ n + 1 # 0 /\ (n + 1) - 1 = n
  OBVIOUS
<1> QED BY <1>1, <1>2

LEMMA Pow2Type ==
  ASSUME NEW n \in Nat
  PROVE  Pow2[n] \in Nat /\ Pow2[n] > 0
<1> DEFINE S == {i \in Nat : Pow2[i] \in Nat /\ Pow2[i] > 0}
<1>1. 0 \in S
  BY Pow2Zero
<1>2. ASSUME NEW i \in Nat, i \in S PROVE i + 1 \in S
  BY <1>2, Pow2Double
<1>3. Nat \subseteq S
  <2> HIDE DEF S
  <2> QED BY <1>1, <1>2, Induction
<1> QED BY <1>3

\* Shifts add up.
LEMMA Pow2Sum ==
  ASSUME NEW m \in Nat, NEW n \in Nat
  PROVE  Pow2[m + n] = Pow2[m] * Pow2[n]
<1> DEFINE S == {i \in Nat : Pow2[m + i] = Pow2[m] * Pow2[i]}
<1>0. Pow2[m] \in Nat
  BY Pow2Type
<1>1. 0 \in S
  <2>1. m + 0 = m
    OBVIOUS
  <2> QED BY <2>1, <1>0, Pow2Zero
<1>2. ASSUME NEW i \in Nat, i \in S PROVE i + 1 \in S
  <2>1. Pow2[m + i] = Pow2[m] * Pow2[i]
    BY <1>2
  <2>2. Pow2[m + (i + 1)] = 2 * Pow2[m + i] /\ Pow2[i + 1] = 2 * Pow2[i]
    <3>1. m + (i + 1) = (m + i) + 1 /\ m + i \in Nat
      OBVIOUS
    <3> QED BY <3>1, Pow2Double
  <2>3. Pow2[i] \in Nat
    BY Pow2Type
  <2>4. \A x, y \in Nat : 2 * (x * y) = x * (2 * y)
    OBVIOUS
  <2>5. Pow2[m + (i + 1)] = Pow2[m] * Pow2[i + 1]
    BY <2>1, <2>2, <2>3, <2>4, <1>0
  <2> QED BY <2>5
<1>3. Nat \subseteq S
  <2> HIDE DEF S
  <2> QED BY <1>1, <1>2, Induction
<1> QED BY <1>3

\* Quotient and remainder: the one pair in range, and what two divisions in a row are.
LEMMA DivModUnique ==
  ASSUME NEW a \in Int, NEW b \in Nat, b > 0, NEW q \in Int, NEW r \in 0 .. b - 1,
         a = q * b + r
  PROVE  a \div b = q /\ a % b = r
OBVIOUS

LEMMA DivMod ==
  ASSUME NEW a \in Int, NEW b \in Nat, b > 0
  PROVE  a \div b \in Int /\ a % b \in 0 .. b - 1 /\ a = (a \div b) * b + (a % b)
OBVIOUS

LEMMA DivModTwice ==
  ASSUME NEW x \in Int, NEW b \in Nat, b > 0, NEW k \in Nat, k > 0
  PROVE  /\ (x \div b) \div k = x \div (k * b)
         /\ (x \div b) % k = (x % (k * b)) \div b
         /\ (x % (k * b)) % b = x % b
<1> DEFINE q == (x \div b) \div k
           m == (x \div b) % k
           r == x % b
<1>1. q \in Int /\ m \in 0 .. k - 1 /\ r \in 0 .. b - 1 /\ x = (q * k + m) * b + r
  <2>1. x \div b \in Int /\ r \in 0 .. b - 1 /\ x = (x \div b) * b + r
    BY DivMod
  <2>2. q \in Int /\ m \in 0 .. k - 1 /\ x \div b = q * k + m
    BY <2>1, DivMod
  <2> QED BY <2>1, <2>2
<1> HIDE DEF q, m, r
<1>2. k * b \in Nat /\ k * b > 0 /\ m * b + r \in 0 .. k * b - 1
  BY <1>1
<1>3. x = q * (k * b) + (m * b + r)
  BY <1>1
<1>4. x \div (k * b) = q /\ x % (k * b) = m * b + r
  BY <1>1, <1>2, <1>3, DivModUnique
<1>5. (m * b + r) \div b = m /\ (m * b + r) % b = r
  BY <1>1, <1>2, DivModUnique
<1> QED BY <1>4, <1>5 DEF q, m, r

-----------------------------------------------------------------------------
(***************************************************************************)
(* Words and their halves.                                                 *)
(***************************************************************************)
\* A word is two halves.
LEMMA Widths ==
  /\ W \in Nat /\ Half \in Nat /\ Half >= 2 /\ W = Half + Half
BY WidthAssumption DEF Half

\* What the places the units cut at are worth.
LEMMA Powers ==
  /\ Pow2[Half] \in Nat /\ Pow2[Half] > 0
  /\ SignBit \in Nat /\ SignBit > 0
  /\ Pow2[W] \in Nat /\ Pow2[W] = 2 * SignBit /\ Pow2[W] = Pow2[Half] * Pow2[Half]
  /\ Pow2[2 * W] \in Nat /\ Pow2[2 * W] = Pow2[W] * Pow2[W]
  /\ Pow2[Half + 1] = 2 * Pow2[Half]
  /\ Pow2[W + 1] = 2 * Pow2[W]
  /\ Pow2[W + Half + 1] = (2 * Pow2[W]) * Pow2[Half]
<1>1. /\ W - 1 \in Nat /\ (W - 1) + 1 = W /\ 2 * W = W + W /\ 2 * W \in Nat /\ W + 1 \in Nat
      /\ W + Half + 1 = (W + 1) + Half
  BY Widths
<1>2. Pow2[W] = 2 * SignBit /\ SignBit \in Nat /\ SignBit > 0
  BY <1>1, Pow2Double, Pow2Type DEF SignBit
<1>3. Pow2[W] = Pow2[Half] * Pow2[Half] /\ Pow2[2 * W] = Pow2[W] * Pow2[W]
  BY <1>1, Widths, Pow2Sum
<1>4. Pow2[Half + 1] = 2 * Pow2[Half] /\ Pow2[W + 1] = 2 * Pow2[W]
  BY Widths, Pow2Double
<1>5. Pow2[W + Half + 1] = (2 * Pow2[W]) * Pow2[Half]
  BY <1>1, <1>4, Widths, Pow2Sum
<1> QED BY <1>1, <1>2, <1>3, <1>4, <1>5, Widths, Pow2Type

UpperHalf(x) == x \div Pow2[Half]
LowerHalf(x) == x % Pow2[Half]

\* The lowest bits of a number.
LEMMA BitsLow ==
  ASSUME NEW x \in Int, NEW hi \in Int
  PROVE  Bits(x, hi, 0) = x % Pow2[hi + 1]
<1>1. x \div 1 = x /\ hi - 0 + 1 = hi + 1
  OBVIOUS
<1> QED BY <1>1, Pow2Zero DEF Bits

\* The quotient of a number below c * b is below c.
LEMMA QuotientBound ==
  ASSUME NEW b \in Nat, b > 0, NEW c \in Nat, NEW a \in 0 .. c * b - 1
  PROVE  a \div b \in 0 .. c - 1
OBVIOUS

\* A word is its two halves.
LEMMA Halves ==
  ASSUME NEW x \in Word
  PROVE  /\ Bits(x, Half - 1, 0) = LowerHalf(x)
         /\ Bits(x, W - 1, Half) = UpperHalf(x)
         /\ LowerHalf(x) \in 0 .. Pow2[Half] - 1
         /\ UpperHalf(x) \in 0 .. Pow2[Half] - 1
         /\ x = UpperHalf(x) * Pow2[Half] + LowerHalf(x)
<1>1. x \in 0 .. Pow2[Half] * Pow2[Half] - 1
  BY Powers DEF Word
<1>2. Bits(x, Half - 1, 0) = LowerHalf(x)
  <2>1. (Half - 1) + 1 = Half /\ x \in Int /\ Half - 1 \in Int
    BY <1>1, Widths, Powers
  <2> QED BY <2>1, BitsLow DEF LowerHalf
<1>3. UpperHalf(x) \in 0 .. Pow2[Half] - 1
  BY <1>1, Powers, QuotientBound DEF UpperHalf
<1>4. Bits(x, W - 1, Half) = UpperHalf(x)
  <2>1. W - 1 - Half + 1 = Half
    BY Widths
  <2>2. UpperHalf(x) % Pow2[Half] = UpperHalf(x)
    BY <1>3, Powers
  <2> QED BY <2>1, <2>2 DEF Bits, UpperHalf
<1>5. x \in Int
  BY <1>1, Powers
<1> QED BY <1>2, <1>3, <1>4, <1>5, Powers, DivMod DEF UpperHalf, LowerHalf

\* Bits reads a field of a number, and SetBits writes one: the bits below it and those
\* above it stay.
LEMMA Fields ==
  ASSUME NEW x \in Nat, NEW lo \in Nat, NEW hi \in Nat, lo <= hi
  PROVE  /\ Bits(x, hi, lo) = (x % Pow2[hi + 1]) \div Pow2[lo]
         /\ Bits(x, hi, lo) \in 0 .. Pow2[hi - lo + 1] - 1
         /\ \A v \in 0 .. Pow2[hi - lo + 1] - 1 :
              /\ SetBits(x, hi, lo, v) \in Nat
              /\ SetBits(x, hi, lo, v) % Pow2[hi + 1] = v * Pow2[lo] + (x % Pow2[lo])
              /\ SetBits(x, hi, lo, v) \div Pow2[hi + 1] = x \div Pow2[hi + 1]
<1> DEFINE b == Pow2[lo]
           k == Pow2[hi - lo + 1]
           c == Pow2[hi + 1]
<1>1. b \in Nat /\ b > 0 /\ k \in Nat /\ k > 0 /\ c \in Nat /\ c > 0 /\ c = k * b
  <2>1. hi - lo + 1 \in Nat /\ hi + 1 = (hi - lo + 1) + lo /\ hi + 1 \in Nat
    OBVIOUS
  <2>2. c = Pow2[hi - lo + 1] * Pow2[lo]
    BY <2>1, Pow2Sum
  <2> QED BY <2>1, <2>2, Pow2Type
<1>2. Bits(x, hi, lo) = (x \div b) % k
  BY DEF Bits
<1>3. \A v : SetBits(x, hi, lo, v) = x + (v - ((x \div b) % k)) * b
  BY DEF Bits, SetBits
<1> HIDE DEF b, k, c
<1>4. Bits(x, hi, lo) = (x % c) \div b
  BY <1>1, <1>2, DivModTwice
<1> DEFINE q == x \div c
           m == (x \div b) % k
           r == x % b
<1>5. q \in Nat /\ m \in 0 .. k - 1 /\ r \in 0 .. b - 1 /\ x = q * c + (m * b + r)
  <2>1. x \div b \in Nat /\ r \in 0 .. b - 1 /\ x = (x \div b) * b + r
    BY <1>1
  <2>2. (x \div b) \div k = q
    BY <1>1, DivModTwice
  <2>3. q \in Nat /\ m \in 0 .. k - 1 /\ x \div b = q * k + m
    BY <1>1, <2>1, <2>2
  <2> HIDE DEF q, m, r
  <2> QED BY <1>1, <2>1, <2>3
<1>6. ASSUME NEW v \in 0 .. k - 1
      PROVE  /\ x + (v - m) * b \in Nat
             /\ (x + (v - m) * b) % c = v * b + r
             /\ (x + (v - m) * b) \div c = q
  <2> HIDE DEF q, m, r
  <2>1. v * b + r \in 0 .. c - 1
    BY <1>1, <1>5
  <2>2. x + (v - m) * b = q * c + (v * b + r)
    BY <1>1, <1>5
  <2>3. q * c + (v * b + r) \in Nat
    BY <1>1, <1>5, <2>1
  <2> QED BY <1>1, <1>5, <2>1, <2>2, <2>3, DivModUnique
<1>7. (x \div b) % k \in 0 .. k - 1
  BY <1>5
<1>8. ASSUME NEW v \in 0 .. k - 1
      PROVE  /\ SetBits(x, hi, lo, v) \in Nat
             /\ SetBits(x, hi, lo, v) % c = v * b + (x % b)
             /\ SetBits(x, hi, lo, v) \div c = x \div c
  BY <1>3, <1>6
<1> QED BY <1>2, <1>4, <1>7, <1>8 DEF b, k, c

\* The operands of an instruction of the M extension are words.
LEMMA InstructionWords ==
  ASSUME inst \in Instructions, is_rvmop
  PROVE  /\ inst \in [op : MulOps \cup DivOps, a : Operands, b : Operands]
         /\ inst.a \in Word /\ inst.b \in Word
<1>1. inst.op \in MulOps \cup DivOps
  BY DEF is_rvmop, mulit_en, div_en
<1>2. inst # Bubble
  BY <1>1 DEF Bubble, MulOps, DivOps
<1>3. inst \in [op : MulOps \cup DivOps, a : Operands, b : Operands]
  BY <1>1, <1>2, OthersAssumption DEF Instructions
<1> QED BY <1>3, OperandAssumption

\* A magnitude stands for the signed number but for its sign.
LEMMA Magnitudes ==
  ASSUME NEW x \in Word
  PROVE  /\ x \in 0 .. Pow2[W] - 1
         /\ Negative(x) => Magnitude(x) = Pow2[W] - x
         /\ ~Negative(x) => Magnitude(x) = x
         /\ Signed(x) = IF Negative(x) THEN -Magnitude(x) ELSE Magnitude(x)
         /\ Magnitude(x) \in Word /\ Magnitude(x) <= SignBit
<1>1. x \in 0 .. Pow2[W] - 1 /\ SignBit \in Nat /\ SignBit > 0 /\ Pow2[W] = 2 * SignBit
  BY Powers DEF Word
<1>2. CASE Negative(x)
  <2>1. x >= SignBit
    BY <1>2 DEF Negative
  <2>2. (Pow2[W] - x) % Pow2[W] = Pow2[W] - x
    BY <1>1, <2>1
  <2>3. Magnitude(x) = Pow2[W] - x
    BY <1>2, <2>2 DEF Magnitude, Negate
  <2> QED BY <1>1, <1>2, <2>1, <2>3 DEF Word, Signed
<1>3. CASE ~Negative(x)
  <2>1. x < SignBit
    BY <1>1, <1>3 DEF Negative
  <2>2. Magnitude(x) = x
    BY <1>3 DEF Magnitude
  <2> QED BY <1>1, <1>3, <2>1, <2>2 DEF Word, Signed
<1> QED BY <1>2, <1>3

\* The parts of Fields, to be cited one at a time.
LEMMA ReadField ==
  ASSUME NEW x \in Nat, NEW lo \in Nat, NEW hi \in Nat, lo <= hi
  PROVE  /\ Bits(x, hi, lo) = (x % Pow2[hi + 1]) \div Pow2[lo]
         /\ Bits(x, hi, lo) \in 0 .. Pow2[hi - lo + 1] - 1
BY Fields

LEMMA WriteField ==
  ASSUME NEW x \in Nat, NEW lo \in Nat, NEW hi \in Nat, lo <= hi,
         NEW v \in 0 .. Pow2[hi - lo + 1] - 1
  PROVE  /\ SetBits(x, hi, lo, v) \in Nat
         /\ SetBits(x, hi, lo, v) % Pow2[hi + 1] = v * Pow2[lo] + (x % Pow2[lo])
         /\ SetBits(x, hi, lo, v) \div Pow2[hi + 1] = x \div Pow2[hi + 1]
<1> DEFINE Written(u) ==
      /\ SetBits(x, hi, lo, u) \in Nat
      /\ SetBits(x, hi, lo, u) % Pow2[hi + 1] = u * Pow2[lo] + (x % Pow2[lo])
      /\ SetBits(x, hi, lo, u) \div Pow2[hi + 1] = x \div Pow2[hi + 1]
<1>1. \A u \in 0 .. Pow2[hi - lo + 1] - 1 : Written(u)
  BY Fields, Zenon
<1> HIDE DEF Written
<1>2. Written(v)
  BY <1>1
<1> QED BY <1>2 DEF Written

\* A field written into the product register leaves it 2 * W bits wide.
LEMMA SetBitsDouble ==
  ASSUME NEW x \in DoubleWord, NEW lo \in Nat, NEW hi \in Nat, lo <= hi, hi < 2 * W,
         NEW v \in 0 .. Pow2[hi - lo + 1] - 1
  PROVE  SetBits(x, hi, lo, v) \in DoubleWord
<1> DEFINE y == SetBits(x, hi, lo, v)
           c == Pow2[hi + 1]
           k == Pow2[2 * W - (hi + 1)]
<1>1. c \in Nat /\ c > 0 /\ k \in Nat /\ k > 0 /\ Pow2[2 * W] = k * c
  <2>1. /\ hi + 1 \in Nat /\ 2 * W - (hi + 1) \in Nat
        /\ (2 * W - (hi + 1)) + (hi + 1) = 2 * W
    BY Widths
  <2> QED BY <2>1, Pow2Type, Pow2Sum
<1>2. x \in 0 .. k * c - 1 /\ x \in Nat
  BY <1>1 DEF DoubleWord
<1>3. y \in Nat /\ y \div c = x \div c
  BY <1>2, WriteField
<1> HIDE DEF y, c, k
<1>4. y \div c \in 0 .. k - 1
  BY <1>1, <1>2, <1>3, QuotientBound
<1>5. y % c \in 0 .. c - 1 /\ y = (y \div c) * c + (y % c)
  BY <1>1, <1>3
<1>6. y < k * c
  BY <1>1, <1>4, <1>5
<1> QED BY <1>1, <1>3, <1>6 DEF DoubleWord, y

-----------------------------------------------------------------------------
(***************************************************************************)
(* The multiplier.                                                         *)
(***************************************************************************)
\* The multiplier works on words.
LEMMA MulOperands ==
  ASSUME inst \in Instructions, mulit_en
  PROVE  mul_operand_a \in Word /\ mul_operand_b \in Word
BY InstructionWords, Magnitudes DEF is_rvmop, mul_operand_a, mul_operand_b

\* One product of halves each round.
LEMMA PartialProducts ==
  ASSUME inst \in Instructions, mulit_en
  PROVE  LET al == LowerHalf(mul_operand_a)
             ah == UpperHalf(mul_operand_a)
             bl == LowerHalf(mul_operand_b)
             bh == UpperHalf(mul_operand_b)
         IN  /\ mul_round = 0 => partial_product = al * bl
             /\ mul_round = 1 => partial_product = ah * bl
             /\ mul_round = 2 => partial_product = al * bh
             /\ mul_round = 3 => partial_product = ah * bh
BY MulOperands, Halves DEF partial_product

\* What the register holds after each round (multiplier_fast.sv:109-149): the lower
\* product, below the latch's old bits;
LEMMA FirstRound ==
  ASSUME inst \in Instructions, mulit_en, mul_round = 0, mul_held \in Word
  PROVE  /\ mul_product_next \in DoubleWord
         /\ mul_product_next % Pow2[W] = LowerHalf(mul_operand_a) * LowerHalf(mul_operand_b)
<1> DEFINE al == LowerHalf(mul_operand_a)
           bl == LowerHalf(mul_operand_b)
           B == Pow2[Half]
           M == Pow2[W]
<1>1. mul_product_next = mul_held * M + al * bl
  BY PartialProducts DEF mul_product_next
<1>2. al \in 0 .. B - 1 /\ bl \in 0 .. B - 1 /\ B \in Nat /\ M \in Nat /\ M = B * B
  BY MulOperands, Halves, Powers
<1>3. mul_held \in 0 .. M - 1
  BY DEF Word
<1> HIDE DEF al, bl, B
<1>4. al * bl \in 0 .. M - 1
  BY <1>2
<1>5. Pow2[2 * W] = M * M
  BY Powers
<1> HIDE DEF M
<1>6. mul_product_next % M = al * bl
  <2>0. M \in Nat /\ mul_held \in Int /\ M > 0
    BY <1>2, <1>3
  <2>1. ASSUME NEW r \in 0 .. M - 1 PROVE (mul_held * M + r) % M = r
    <3>1. r \in Int /\ mul_held * M + r \in Int
      BY <2>0
    <3> QED BY <2>0, <3>1, DivModUnique
  <2> QED BY <1>1, <1>4, <2>1
<1>7. mul_product_next \in 0 .. M * M - 1
  BY <1>1, <1>2, <1>3, <1>4
<1> QED BY <1>5, <1>6, <1>7 DEF DoubleWord, al, bl, M

\* with the first middle product, and its carry;
LEMMA SecondRound ==
  ASSUME inst \in Instructions, mulit_en, mul_round = 1, mul_product \in DoubleWord,
         mul_product % Pow2[W] = LowerHalf(mul_operand_a) * LowerHalf(mul_operand_b)
  PROVE  /\ mul_product_next \in DoubleWord
         /\ mul_product_next % Pow2[W + Half + 1] = mul_operand_a * LowerHalf(mul_operand_b)
<1> DEFINE a == mul_operand_a
           al == LowerHalf(a)
           ah == UpperHalf(a)
           bl == LowerHalf(mul_operand_b)
           B == Pow2[Half]
           M == Pow2[W]
           v == ah * bl + ((al * bl) \div B)
<1>1. /\ al \in 0 .. B - 1 /\ ah \in 0 .. B - 1 /\ bl \in 0 .. B - 1
      /\ B \in Nat /\ B > 0 /\ M \in Nat /\ M = B * B /\ a = ah * B + al
  BY MulOperands, Halves, Powers
<1>2. mul_product \in Nat
  BY Powers DEF DoubleWord
<1>3. Bits(mul_product, W - 1, Half) = (al * bl) \div B
  <2>1. W \in Nat /\ W - 1 \in Nat /\ Half \in Nat /\ Half <= W - 1 /\ (W - 1) + 1 = W
    BY Widths
  <2> QED BY <2>1, <1>2, ReadField
<1>4. partial_product = ah * bl
  BY PartialProducts
<1>5. mul_product_next = SetBits(mul_product, W + Half, Half, v)
  BY <1>3, <1>4 DEF mul_product_next, mult_operand_b, adder_sum
<1> HIDE DEF a, al, ah, bl, B, M
<1>6. mul_product % B = (al * bl) % B
  <2>1. (mul_product % (B * B)) % B = mul_product % B
    BY <1>1, <1>2, DivModTwice
  <2>2. mul_product % (B * B) = al * bl
    BY <1>1 DEF al, a, bl, M
  <2> QED BY <2>1, <2>2
<1>7. (al * bl) \div B \in 0 .. B - 1 /\ al * bl = ((al * bl) \div B) * B + ((al * bl) % B)
  <2>1. al * bl \in 0 .. B * B - 1
    BY <1>1
  <2> QED BY <2>1, <1>1, QuotientBound, DivMod
<1>8. v \in 0 .. 2 * M - 1
  <2>1. ah * bl \in 0 .. (B - 1) * (B - 1)
    BY <1>1
  <2> QED BY <1>1, <1>7, <2>1
<1>9. v * B + ((al * bl) % B) = a * bl
  BY <1>1, <1>7
<1> HIDE DEF v
<1>10. /\ W \in Nat /\ W + Half \in Nat /\ Half \in Nat /\ Half <= W + Half /\ W + Half < 2 * W
       /\ W + Half - Half + 1 = W + 1
  BY Widths
<1>11. v \in 0 .. Pow2[W + Half - Half + 1] - 1
  BY <1>8, <1>10, Powers DEF M
<1>12. mul_product_next % Pow2[W + Half + 1] = v * B + (mul_product % B)
  BY <1>2, <1>5, <1>10, <1>11, WriteField DEF B
<1>13. mul_product_next \in DoubleWord
  BY <1>5, <1>10, <1>11, SetBitsDouble
<1> QED BY <1>6, <1>9, <1>12, <1>13 DEF a, bl

\* with the second, whose carry goes into the bit above;
LEMMA ThirdRound ==
  ASSUME inst \in Instructions, mulit_en, mul_round = 2, mul_product \in DoubleWord,
         mul_product % Pow2[W + Half + 1] = mul_operand_a * LowerHalf(mul_operand_b)
  PROVE  /\ mul_product_next \in DoubleWord
         /\ mul_product_next % Pow2[W + Half + 1]
              = mul_operand_a * LowerHalf(mul_operand_b)
                + (LowerHalf(mul_operand_a) * UpperHalf(mul_operand_b)) * Pow2[Half]
<1> DEFINE a == mul_operand_a
           al == LowerHalf(a)
           bl == LowerHalf(mul_operand_b)
           bh == UpperHalf(mul_operand_b)
           B == Pow2[Half]
           M == Pow2[W]
           x == a * bl
           v == al * bh + (x \div B)
<1>1. /\ al \in 0 .. B - 1 /\ bl \in 0 .. B - 1 /\ bh \in 0 .. B - 1
      /\ B \in Nat /\ B > 0 /\ M \in Nat /\ M = B * B /\ a \in 0 .. M - 1
  BY MulOperands, Halves, Powers DEF Word
<1>2. mul_product \in Nat /\ Pow2[W + Half] = M * B /\ Pow2[W + Half + 1] = (2 * M) * B
  <2>1. Pow2[W + Half] = M * B
    BY Widths, Pow2Sum
  <2> QED BY <2>1, Powers DEF DoubleWord
<1>3. mul_product % ((2 * M) * B) = x
  BY <1>2
<1>4. partial_product = al * bh
  BY PartialProducts
<1>5. /\ W \in Nat /\ W + Half \in Nat /\ Half \in Nat /\ Half <= W + Half
      /\ W + Half < 2 * W /\ W + Half - Half + 1 = W + 1
      /\ W + Half - 1 \in Nat /\ Half <= W + Half - 1 /\ W + Half - 1 + 1 = W + Half
  BY Widths
<1>6. Bits(mul_product, W + Half - 1, Half) = (mul_product % (M * B)) \div B
  BY <1>2, <1>5, ReadField
<1>7. mul_product_next
        = SetBits(mul_product, W + Half, Half, al * bh + Bits(mul_product, W + Half - 1, Half))
  BY <1>4 DEF mul_product_next, mult_operand_b, adder_sum
<1> HIDE DEF a, al, bl, bh, B, M
<1>8. M > 0 /\ M * B \in Nat /\ M * B > 0 /\ (2 * M) * B = 2 * (M * B) /\ 2 * M > 0
  BY <1>1
<1>9. x \in 0 .. M * B - 1
  BY <1>1
<1> HIDE DEF x
<1>10. mul_product % (M * B) = x
  <2>1. (mul_product % (2 * (M * B))) % (M * B) = mul_product % (M * B)
    BY <1>2, <1>8, DivModTwice
  <2>2. mul_product % (2 * (M * B)) = x
    BY <1>3, <1>8
  <2>3. x % (M * B) = x
    BY <1>8, <1>9
  <2> QED BY <2>1, <2>2, <2>3
<1>11. mul_product % B = x % B
  <2>1. (mul_product % ((2 * M) * B)) % B = mul_product % B
    <3>0. B \in Nat /\ B > 0 /\ mul_product \in Int
      BY <1>1, <1>2
    <3>1. ASSUME NEW k \in Nat, k > 0 PROVE (mul_product % (k * B)) % B = mul_product % B
      BY <3>0, <3>1, DivModTwice
    <3>2. 2 * M \in Nat
      BY <1>1
    <3> QED BY <1>8, <3>1, <3>2
  <2> QED BY <2>1, <1>3
<1>12. x \div B \in 0 .. M - 1 /\ x = (x \div B) * B + (x % B)
  BY <1>1, <1>9, QuotientBound, DivMod
<1>13. v \in 0 .. 2 * M - 1
  <2>1. al * bh \in 0 .. (B - 1) * (B - 1) /\ (B - 1) * (B - 1) <= M
    BY <1>1
  <2> QED BY <1>1, <1>12, <2>1
<1>14. v * B + (x % B) = x + (al * bh) * B
  <2>1. al * bh \in Int /\ x % B \in Int
    BY <1>1, <1>9
  <2> QED BY <1>1, <1>12, <2>1
<1>15. mul_product_next = SetBits(mul_product, W + Half, Half, v)
  BY <1>6, <1>7, <1>10
<1> HIDE DEF v
<1>16. v \in 0 .. Pow2[W + Half - Half + 1] - 1
  BY <1>5, <1>13, Powers DEF M
<1>17. mul_product_next % Pow2[W + Half + 1] = v * B + (mul_product % B)
  BY <1>2, <1>5, <1>15, <1>16, WriteField DEF B
<1>18. mul_product_next \in DoubleWord
  BY <1>5, <1>15, <1>16, SetBitsDouble
<1> QED BY <1>11, <1>14, <1>17, <1>18 DEF a, al, bl, bh, x, B

\* After the round that MUL does not need the register holds the whole product.
LEMMA LastRound ==
  ASSUME inst \in Instructions, mulit_en, mul_round = 3, mul_product \in DoubleWord,
         mul_product % Pow2[W + Half + 1]
           = mul_operand_a * LowerHalf(mul_operand_b)
             + (LowerHalf(mul_operand_a) * UpperHalf(mul_operand_b)) * Pow2[Half]
  PROVE  /\ mul_product_next \in DoubleWord
         /\ mul_product_next = mul_operand_a * mul_operand_b
<1> DEFINE a == mul_operand_a
           b == mul_operand_b
           al == LowerHalf(a)
           ah == UpperHalf(a)
           bl == LowerHalf(b)
           bh == UpperHalf(b)
           B == Pow2[Half]
           M == Pow2[W]
           x == a * bl + (al * bh) * B
           v == (ah * bh + (x \div M)) % M
<1>1. /\ al \in 0 .. B - 1 /\ bl \in 0 .. B - 1 /\ bh \in 0 .. B - 1 /\ ah \in 0 .. B - 1
      /\ B \in Nat /\ B > 0 /\ M \in Nat /\ M = B * B
      /\ a \in 0 .. M - 1 /\ b \in 0 .. M - 1 /\ a = ah * B + al /\ b = bh * B + bl
  BY MulOperands, Halves, Powers DEF Word
<1>2. mul_product \in Nat /\ Pow2[W + Half + 1] = (2 * M) * B /\ Pow2[2 * W] = M * M
  BY Powers DEF DoubleWord
<1>3. mul_product % ((2 * M) * B) = x
  BY <1>2
<1>4. partial_product = ah * bh
  BY PartialProducts
<1>5. /\ W \in Nat /\ W + Half \in Nat /\ W <= W + Half
      /\ 2 * W - 1 \in Nat /\ W <= 2 * W - 1 /\ 2 * W - 1 < 2 * W /\ 2 * W - 1 + 1 = 2 * W
      /\ 2 * W - 1 - W + 1 = W
  BY Widths
<1>6. Bits(mul_product, W + Half, W) = x \div M
  <2>1. Bits(mul_product, W + Half, W) = (mul_product % Pow2[W + Half + 1]) \div M
    BY <1>2, <1>5, ReadField
  <2> QED BY <2>1
<1>7. mul_product_next = SetBits(mul_product, 2 * W - 1, W, v)
  BY <1>4, <1>6 DEF mul_product_next, mult_operand_b, adder_sum
<1> HIDE DEF a, b, al, ah, bl, bh, B, M, v
<1>8. M > 0 /\ 2 * B \in Nat /\ 2 * B > 0 /\ (2 * M) * B = (2 * B) * M
  BY <1>1
<1>9. x \in Nat /\ a * b = x + (ah * bh) * M /\ a * b \in 0 .. M * M - 1 /\ ah * bh \in Nat
  BY <1>1
<1> HIDE DEF x
<1>10. mul_product % M = x % M
  <2>1. (mul_product % ((2 * B) * M)) % M = mul_product % M
    <3>0. M \in Nat /\ M > 0 /\ mul_product \in Int
      BY <1>1, <1>2, <1>8
    <3>1. ASSUME NEW k \in Nat, k > 0 PROVE (mul_product % (k * M)) % M = mul_product % M
      BY <3>0, <3>1, DivModTwice
    <3> QED BY <1>8, <3>1
  <2> QED BY <2>1, <1>3, <1>8
<1>11. /\ x = (x \div M) * M + (x % M) /\ x % M \in 0 .. M - 1 /\ x \div M \in Int
  BY <1>1, <1>8, <1>9, DivMod
<1>12. a * b = (ah * bh + (x \div M)) * M + (x % M)
  BY <1>1, <1>9, <1>11
<1>13. (a * b) \div M = ah * bh + (x \div M) /\ (a * b) \div M \in 0 .. M - 1
  <2>1. ah * bh + (x \div M) \in Int /\ a * b \in Int
    BY <1>9, <1>11
  <2>2. (a * b) \div M = ah * bh + (x \div M)
    <3> DEFINE c == a * b
               q == ah * bh + (x \div M)
               r == x % M
    <3>1. c \in Int /\ q \in Int /\ r \in 0 .. M - 1 /\ c = q * M + r /\ M \in Nat /\ M > 0
      BY <1>1, <1>8, <1>11, <1>12, <2>1
    <3> HIDE DEF c, q, r
    <3>2. c \div M = q
      BY <3>1, DivModUnique
    <3> QED BY <3>2 DEF c, q
  <2> QED BY <1>1, <1>8, <1>9, <2>2, QuotientBound
<1>14. v = ah * bh + (x \div M) /\ v \in 0 .. M - 1
  BY <1>1, <1>8, <1>13 DEF v
<1>15. v \in 0 .. Pow2[2 * W - 1 - W + 1] - 1
  BY <1>5, <1>14 DEF M
<1>16. mul_product_next % Pow2[2 * W - 1 + 1] = v * M + (mul_product % M)
  BY <1>2, <1>5, <1>7, <1>15, WriteField DEF M
<1>17. mul_product_next \in DoubleWord
  BY <1>5, <1>7, <1>15, SetBitsDouble
<1>18. mul_product_next % Pow2[2 * W] = mul_product_next
  BY <1>17, Powers DEF DoubleWord
<1>19. mul_product_next = v * M + (x % M)
  BY <1>5, <1>10, <1>16, <1>18
<1> QED BY <1>12, <1>14, <1>17, <1>19 DEF a, b

-----------------------------------------------------------------------------
(***************************************************************************)
(* The invariants of a multiplication.                                     *)
(***************************************************************************)
\* What is in the stage is an instruction.
InStage == inst \in Instructions

LEMMA StageInvariant == Spec => []InStage
<1>1. Init => InStage
  BY DEF Init, InStage, Instructions
<1>2. InStage /\ [Next]_vars => InStage'
  BY DEF InStage, Next, Stall, Retire, vars, Instructions
<1> QED BY <1>1, <1>2, PTL DEF Spec

\* A multiplication or division stalls for a bounded number of cycles, and the
\* next one begins in round 0 (multiplier_fast.sv:36, 151-159,
\* divider_nonrestoring.sv:42-47, 126-136, controller.sv:400).
THEOREM StallsEnd == Spec => []RoundsBounded
<1>1. Init => RoundsBounded
  BY WidthAssumption DEF Init, RoundsBounded, Bubble
<1>2. RoundsBounded /\ [Next]_vars => RoundsBounded'
  <2> SUFFICES ASSUME RoundsBounded, [Next]_vars PROVE RoundsBounded'
    OBVIOUS
  <2>1. CASE Stall
    <3>1. inst' = inst /\ is_rvmop /\ ~multdiv_finish
      BY <2>1 DEF Stall, muldiv_stall
    <3>2. CASE mulit_en
      <4>1. ~div_en
        BY <3>2 DEF mulit_en, div_en, MulOps, DivOps
      <4>2. mul_round' = mul_round + 1 /\ div_round' = 0
        BY <2>1, <3>1, <3>2, <4>1 DEF Stall, MulRegisters, DivRegisters, multdiv_finish
      <4>3. mul_round # IF inst.op = "MULL" THEN 2 ELSE 3
        BY <3>1, <3>2 DEF multdiv_finish, mul_finish
      <4> QED BY <3>1, <3>2, <4>1, <4>2, <4>3, WidthAssumption
              DEF RoundsBounded, mulit_en, div_en
    <3>3. CASE ~mulit_en
      <4>1. div_en /\ div_round # W + 1
        BY <3>1, <3>3 DEF is_rvmop, multdiv_finish, round_finish, div_finish
      <4>2. div_round' = div_round + 1 /\ mul_round' = 0
        BY <2>1, <3>1, <3>3, <4>1 DEF Stall, MulRegisters, DivRegisters, multdiv_finish
      <4> QED BY <3>1, <3>3, <4>1, <4>2, WidthAssumption
              DEF RoundsBounded, mulit_en, div_en
    <3> QED BY <3>2, <3>3
  <2>2. CASE Retire
    <3>1. is_rvmop => multdiv_finish
      BY <2>2 DEF Retire, muldiv_stall
    <3>2. mul_round' = 0
      BY <2>2, <3>1 DEF Retire, MulRegisters, is_rvmop, multdiv_finish
    <3>3. div_round' = 0
      <4>1. ~(mulit_en /\ div_en)
        BY DEF mulit_en, div_en, MulOps, DivOps
      <4> QED BY <2>2, <3>1, <4>1 DEF Retire, DivRegisters, is_rvmop, multdiv_finish
    <3> QED BY <3>2, <3>3, WidthAssumption DEF RoundsBounded
  <2>3. CASE UNCHANGED vars
    BY <2>3 DEF vars, mulVars, divVars, RoundsBounded, mulit_en, div_en
  <2> QED BY <2>1, <2>2, <2>3 DEF Next
<1> QED BY <1>1, <1>2, PTL DEF Spec

\* The registers of the multiplier.
MulType ==
  /\ inst \in Instructions
  /\ mul_product \in DoubleWord /\ mul_held \in Word
  /\ mul_round \in 0 .. (IF inst.op = "MULL" THEN 2 ELSE 3)

MulInv == MulType /\ PartialProduct

\* The four rounds together.
LEMMA MulNext ==
  ASSUME MulInv, mulit_en
  PROVE  /\ mul_product_next \in DoubleWord
         /\ mul_round = 0 =>
              mul_product_next % Pow2[W] = LowerHalf(mul_operand_a) * LowerHalf(mul_operand_b)
         /\ mul_round = 1 =>
              mul_product_next % Pow2[W + Half + 1] = mul_operand_a * LowerHalf(mul_operand_b)
         /\ mul_round = 2 =>
              mul_product_next % Pow2[W + Half + 1]
                = mul_operand_a * LowerHalf(mul_operand_b)
                  + (LowerHalf(mul_operand_a) * UpperHalf(mul_operand_b)) * Pow2[Half]
         /\ mul_round = 3 => mul_product_next = mul_operand_a * mul_operand_b
<1>1. mul_round \in 0 .. 3 /\ inst \in Instructions /\ mul_product \in DoubleWord /\ mul_held \in Word
  BY DEF MulInv, MulType
<1>2. CASE mul_round = 0
  BY <1>1, <1>2, FirstRound
<1>3. CASE mul_round = 1
  BY <1>1, <1>3, SecondRound DEF MulInv, PartialProduct, LowerHalf
<1>4. CASE mul_round = 2
  BY <1>1, <1>4, ThirdRound DEF MulInv, PartialProduct, LowerHalf
<1>5. CASE mul_round = 3
  BY <1>1, <1>5, LastRound DEF MulInv, PartialProduct, LowerHalf, UpperHalf
<1> QED BY <1>1, <1>2, <1>3, <1>4, <1>5

\* What a unit's registers are between two instructions.
LEMMA ZeroIsAWord == 0 \in Word /\ 0 \in DoubleWord
<1>1. Pow2[W] \in Nat /\ Pow2[W] > 0 /\ Pow2[2 * W] \in Nat /\ Pow2[2 * W] > 0
  BY Widths, Powers, Pow2Type
<1> QED BY <1>1 DEF Word, DoubleWord

\* Rounds that follow one another are those of one multiplication.
LEMMA MulInvariant == Spec => []MulInv
<1>1. Init => MulInv
  BY ZeroIsAWord DEF Init, MulInv, MulType, PartialProduct, Instructions, Bubble
<1>2. MulInv /\ [Next]_vars => MulInv'
  <2> SUFFICES ASSUME MulInv, [Next]_vars PROVE MulInv'
    OBVIOUS
  <2>1. inst \in Instructions /\ mul_held \in Word
    BY DEF MulInv, MulType
  <2>2. ASSUME MulRegisters PROVE mul_product' \in DoubleWord /\ mul_held' \in Word
    <3>1. CASE mulit_en
      <4>1. mul_product' = mul_product_next /\ mul_product_next \in DoubleWord
        BY <2>2, <3>1, MulNext DEF MulRegisters
      <4>2. mul_product_next \in Nat
        BY <4>1, Powers DEF DoubleWord
      <4>3. W \in Nat /\ 2 * W - 1 \in Nat /\ W <= 2 * W - 1 /\ 2 * W - 1 - W + 1 = W
        BY Widths
      <4>4. Bits(mul_product_next, 2 * W - 1, W) \in Word
        BY <4>2, <4>3, ReadField DEF Word
      <4> QED BY <2>2, <3>1, <4>1, <4>4 DEF MulRegisters
    <3>2. CASE ~mulit_en
      BY <2>1, <2>2, <3>2, ZeroIsAWord DEF MulRegisters
    <3> QED BY <3>1, <3>2
  <2>3. CASE Stall
    <3>1. inst' = inst /\ MulRegisters /\ muldiv_stall
      BY <2>3 DEF Stall
    <3>2. mul_operand_a' = mul_operand_a /\ mul_operand_b' = mul_operand_b
      BY <3>1 DEF mul_operand_a, mul_operand_b
    <3>3. CASE ~mulit_en
      BY <2>1, <2>2, <3>1, <3>3 DEF MulInv, MulType, MulRegisters, PartialProduct
    <3>4. CASE mulit_en
      <4>1. mul_round' = mul_round + 1 /\ mul_product' = mul_product_next
        BY <3>1, <3>4 DEF muldiv_stall, multdiv_finish, MulRegisters
      <4>2. mul_round # IF inst.op = "MULL" THEN 2 ELSE 3
        BY <3>1, <3>4 DEF muldiv_stall, multdiv_finish, mul_finish
      <4>3. mul_round' \in 1 .. (IF inst.op = "MULL" THEN 2 ELSE 3)
        BY <4>1, <4>2 DEF MulInv, MulType
      <4>4. PartialProduct'
        <5>1. /\ mul_round' = 1 => mul_round = 0
              /\ mul_round' = 2 => mul_round = 1
              /\ mul_round' = 3 => mul_round = 2
          BY <4>1 DEF MulInv, MulType
        <5> QED BY <3>2, <3>4, <4>1, <5>1, MulNext DEF PartialProduct, LowerHalf, UpperHalf
      <4> QED BY <2>1, <2>2, <3>1, <4>3, <4>4 DEF MulInv, MulType
    <3> QED BY <3>3, <3>4
  <2>4. CASE Retire
    <3>1. MulRegisters /\ ~muldiv_stall /\ inst' \in Instructions
      BY <2>4 DEF Retire
    <3>2. mul_round' = 0
      BY <3>1 DEF MulRegisters, muldiv_stall, multdiv_finish, is_rvmop
    <3> QED BY <2>2, <3>1, <3>2 DEF MulInv, MulType, PartialProduct
  <2>5. CASE UNCHANGED vars
    BY <2>5 DEF vars, mulVars, MulInv, MulType, PartialProduct, mul_operand_a, mul_operand_b
  <2> QED BY <2>3, <2>4, <2>5 DEF Next
<1> QED BY <1>1, <1>2, PTL DEF Spec

\* After each round the register holds the products of halves it has formed, with
\* every carry, whatever the instruction before left in the bits above them
\* (multiplier_fast.sv:109-149).
THEOREM RoundsAddUp == Spec => []PartialProduct
<1>1. MulInv => PartialProduct
  BY DEF MulInv
<1> QED BY <1>1, MulInvariant, PTL

\* The upper word of a product whose sign is restored at the end.
LEMMA UpperWord ==
  ASSUME NEW M \in Nat, M > 0, NEW p \in 0 .. M * M - 1
  PROVE  /\ (p \div M) % M = p \div M
         /\ (((M * M - p) % (M * M)) \div M) % M = ((-p) \div M) % M
<1>1. (p \div M) % M = p \div M
  <2>1. p \div M \in 0 .. M - 1
    BY QuotientBound
  <2> QED BY <2>1
<1>2. CASE p = 0
  <2>1. (M * M - p) % (M * M) = 0
    <3> DEFINE c == M * M
    <3>1. c \in Nat /\ c > 0
      OBVIOUS
    <3> HIDE DEF c
    <3>2. (c - p) % c = 0
      BY <1>2, <3>1
    <3> QED BY <3>2 DEF c
  <2> QED BY <1>1, <1>2, <2>1
<1>3. CASE p # 0
  <2>1. (M * M - p) % (M * M) = M * M - p
    <3> DEFINE c == M * M
    <3>1. c \in Nat /\ c > 0 /\ p \in 1 .. c - 1
      BY <1>3
    <3> HIDE DEF c
    <3>2. (c - p) % c = c - p
      BY <3>1
    <3> QED BY <3>2 DEF c
  <2> DEFINE q == (-p) \div M
             r == (-p) % M
  <2>2. q \in Int /\ r \in 0 .. M - 1 /\ -p = q * M + r
    BY DivMod
  <2> HIDE DEF q, r
  <2>3. M * M - p = (q + M) * M + r /\ M * M - p \in Int
    BY <2>2
  <2>4. (M * M - p) \div M = q + M
    BY <2>2, <2>3, DivModUnique
  <2>5. (q + M) % M = q % M
    BY <2>2
  <2> QED BY <1>1, <2>1, <2>4, <2>5 DEF q
<1> QED BY <1>1, <1>2, <1>3

\* The round at whose end the stall ends has the whole product, or the lower word that
\* MUL takes.
LEMMA MulFinished ==
  ASSUME MulInv, mulit_en, mul_finish
  PROVE  /\ inst.a \in Word /\ inst.b \in Word
         /\ inst.op = "MULL" => mul_product_next % Pow2[W] = (inst.a * inst.b) % Pow2[W]
         /\ inst.op # "MULL" => mul_product_next = mul_operand_a * mul_operand_b
<1>1. inst \in Instructions /\ inst.a \in Word /\ inst.b \in Word
  BY InstructionWords DEF MulInv, MulType, is_rvmop
<1>2. CASE inst.op # "MULL"
  BY <1>1, <1>2, MulNext DEF mul_finish
<1>3. CASE inst.op = "MULL"
  <2> DEFINE a == mul_operand_a
             b == mul_operand_b
             al == LowerHalf(a)
             ah == UpperHalf(a)
             bl == LowerHalf(b)
             bh == UpperHalf(b)
             B == Pow2[Half]
             M == Pow2[W]
             P == mul_product_next
  <2>1. a = inst.a /\ b = inst.b /\ mul_round = 2
    BY <1>3 DEF mul_operand_a, mul_operand_b, mul_finish
  <2>2. P \in Nat /\ P % Pow2[W + Half + 1] = a * bl + (al * bh) * B
    BY <2>1, MulNext, Powers DEF DoubleWord
  <2>3. /\ al \in 0 .. B - 1 /\ bl \in 0 .. B - 1 /\ bh \in 0 .. B - 1 /\ ah \in 0 .. B - 1
        /\ B \in Nat /\ B > 0 /\ M \in Nat /\ M > 0 /\ M = B * B
        /\ a \in Int /\ b \in Int /\ a = ah * B + al /\ b = bh * B + bl
        /\ Pow2[W + Half + 1] = (2 * M) * B
    BY <1>1, MulOperands, Halves, Powers DEF Word
  <2> HIDE DEF a, b, al, ah, bl, bh, B, M, P
  <2> DEFINE x == a * bl + (al * bh) * B
             k == 2 * B
  <2>4. P % (k * M) = x /\ k \in Nat /\ k > 0
    BY <2>2, <2>3
  <2>5. P % M = x % M
    <3> HIDE DEF x, k
    <3>1. (P % (k * M)) % M = P % M
      <4>1. M \in Nat /\ M > 0 /\ P \in Int
        BY <2>2, <2>3
      <4> QED BY <2>4, <4>1, DivModTwice
    <3> QED BY <2>4, <3>1
  <2>6. a * b = (ah * bh) * M + x /\ x \in Int /\ ah * bh \in Int
    BY <2>3
  <2>7. (a * b) % M = x % M
    <3> DEFINE h == ah * bh
    <3>1. M \in Nat /\ M > 0 /\ h \in Int /\ x \in Int /\ a * b = h * M + x
      BY <2>3, <2>6
    <3> HIDE DEF h, x
    <3>2. (h * M + x) % M = x % M
      <4>1. x \div M \in Int /\ x % M \in 0 .. M - 1 /\ x = (x \div M) * M + (x % M)
        BY <3>1, DivMod
      <4>2. h * M + x = (h + (x \div M)) * M + (x % M)
        BY <3>1, <4>1
      <4>3. h * M + x \in Int /\ h + (x \div M) \in Int
        BY <3>1, <4>1
      <4> QED BY <3>1, <4>1, <4>2, <4>3, DivModUnique
    <3> QED BY <3>1, <3>2
  <2> QED BY <1>1, <1>3, <2>1, <2>5, <2>7 DEF P, M
<1> QED BY <1>2, <1>3

\* The upper word, of the product negated when the operands' signs ask for it.
LEMMA HighProduct ==
  ASSUME MulInv, mulit_en, mul_finish, inst.op # "MULL"
  PROVE  LET p == mul_operand_a * mul_operand_b
             negate == \/ inst.op = "MULH" /\ (Negative(inst.a) # Negative(inst.b))
                       \/ inst.op = "MULHSU" /\ Negative(inst.a)
         IN  mul_result = IF negate THEN ((-p) \div Pow2[W]) % Pow2[W] ELSE p \div Pow2[W]
<1> DEFINE p == mul_operand_a * mul_operand_b
           M == Pow2[W]
           negate == \/ inst.op = "MULH" /\ (Negative(inst.a) # Negative(inst.b))
                     \/ inst.op = "MULHSU" /\ Negative(inst.a)
           negated == (M * M - p) % (M * M)
<1>1. mul_product_next = p
  BY MulFinished
<1>2. M \in Nat /\ M > 0 /\ Pow2[2 * W] = M * M
  BY Powers
<1>3. p \in 0 .. M * M - 1
  <2>1. mul_operand_a \in 0 .. M - 1 /\ mul_operand_b \in 0 .. M - 1
    BY MulOperands DEF MulInv, MulType, Word
  <2> HIDE DEF M
  <2> QED BY <1>2, <2>1
<1>4. 2 * W - 1 - W + 1 = W
  BY Widths
<1>5. mul_result = Bits(IF negate THEN negated ELSE p, 2 * W - 1, W)
  BY <1>1, <1>2 DEF mul_result
<1>6. mul_result = IF negate THEN (negated \div M) % M ELSE (p \div M) % M
  <2> HIDE DEF negate, negated, p
  <2> QED BY <1>4, <1>5 DEF Bits
<1>7. (p \div M) % M = p \div M /\ (negated \div M) % M = ((-p) \div M) % M
  <2> HIDE DEF M, p
  <2> QED BY <1>2, <1>3, UpperWord
<1> HIDE DEF negated, p, M, negate
<1>8. mul_result = IF negate THEN ((-p) \div M) % M ELSE p \div M
  BY <1>6, <1>7
<1> QED BY <1>8 DEF p, M, negate

\* The RISC-V products, one by one.
LEMMA RiscvProducts ==
  ASSUME NEW a, NEW b
  PROVE  /\ Riscv("MULL", a, b) = (a * b) % Pow2[W]
         /\ Riscv("MULH", a, b) = ((Signed(a) * Signed(b)) \div Pow2[W]) % Pow2[W]
         /\ Riscv("MULHSU", a, b) = ((Signed(a) * b) \div Pow2[W]) % Pow2[W]
         /\ Riscv("MULHU", a, b) = (a * b) \div Pow2[W]
BY DEF Riscv, Unsigned

\* A multiplication of any operands writes the RISC-V product back, for words of any
\* even size, and whatever instructions were before it (multiplier_fast.sv:134-149,
\* 167-177).
THEOREM ProductsRight == Spec => []MulResult
<1>1. ASSUME MulInv, WriteBack, mulit_en
      PROVE  muldiv_result = Riscv(inst.op, inst.a, inst.b)
  <2> DEFINE M == Pow2[W]
             x == Magnitude(inst.a)
             y == Magnitude(inst.b)
  <2>1. mul_finish /\ muldiv_result = mul_result /\ inst.op \in MulOps
    BY <1>1 DEF WriteBack, multdiv_finish, muldiv_result, mulit_en
  <2>2. inst.a \in Word /\ inst.b \in Word /\ M \in Nat /\ M > 0
    BY <1>1, <2>1, MulFinished, Powers
  <2>3. /\ x \in 0 .. M - 1 /\ y \in 0 .. M - 1 /\ inst.a \in 0 .. M - 1 /\ inst.b \in 0 .. M - 1
        /\ Signed(inst.a) = IF Negative(inst.a) THEN -x ELSE x
        /\ Signed(inst.b) = IF Negative(inst.b) THEN -y ELSE y
    BY <2>2, Magnitudes DEF Word
  <2>4. ASSUME NEW u \in 0 .. M - 1, NEW v \in 0 .. M - 1
        PROVE  u * v \in Nat /\ ((u * v) \div M) % M = (u * v) \div M
    <3>1. u * v \in 0 .. M * M - 1
      <4> HIDE DEF M
      <4> QED BY <2>2
    <3> HIDE DEF M
    <3> QED BY <2>2, <3>1, UpperWord
  <2>5. CASE inst.op = "MULL"
    <3>1. mul_result = Bits(mul_product_next, W - 1, 0)
      BY <2>5 DEF mul_result
    <3>2. Bits(mul_product_next, W - 1, 0) = mul_product_next % M
      <4>1. mul_product_next \in Int /\ W - 1 \in Int /\ W - 1 + 1 = W
        BY <1>1, MulNext, Powers, Widths DEF DoubleWord
      <4> QED BY <4>1, BitsLow
    <3> QED BY <1>1, <2>1, <2>5, <3>1, <3>2, MulFinished, RiscvProducts
  <2>6. CASE inst.op = "MULH"
    <3>1. mul_operand_a = x /\ mul_operand_b = y
      BY <2>6 DEF mul_operand_a, mul_operand_b
    <3>2. mul_result = IF Negative(inst.a) # Negative(inst.b)
                       THEN ((-(x * y)) \div M) % M ELSE (x * y) \div M
      BY <1>1, <2>1, <2>6, <3>1, HighProduct
    <3>3. Riscv("MULH", inst.a, inst.b) = ((Signed(inst.a) * Signed(inst.b)) \div M) % M
      BY RiscvProducts
    <3> HIDE DEF M, x, y
    <3>4. Signed(inst.a) * Signed(inst.b)
            = IF Negative(inst.a) # Negative(inst.b) THEN -(x * y) ELSE x * y
      BY <2>3 DEF Negative
    <3> QED BY <2>1, <2>3, <2>4, <2>6, <3>2, <3>3, <3>4
  <2>7. CASE inst.op = "MULHSU"
    <3>1. mul_operand_a = x /\ mul_operand_b = inst.b
      BY <2>7 DEF mul_operand_a, mul_operand_b
    <3>2. mul_result = IF Negative(inst.a) THEN ((-(x * inst.b)) \div M) % M
                       ELSE (x * inst.b) \div M
      BY <1>1, <2>1, <2>7, <3>1, HighProduct
    <3>3. Riscv("MULHSU", inst.a, inst.b) = ((Signed(inst.a) * inst.b) \div M) % M
      BY RiscvProducts
    <3> HIDE DEF M, x, y
    <3>4. Signed(inst.a) * inst.b = IF Negative(inst.a) THEN -(x * inst.b) ELSE x * inst.b
      BY <2>3
    <3> QED BY <2>1, <2>3, <2>4, <2>7, <3>2, <3>3, <3>4
  <2>8. CASE inst.op = "MULHU"
    <3>1. mul_operand_a = inst.a /\ mul_operand_b = inst.b
      BY <2>8 DEF mul_operand_a, mul_operand_b
    <3> QED BY <1>1, <2>1, <2>8, <3>1, HighProduct, RiscvProducts
  <2> QED BY <2>1, <2>5, <2>6, <2>7, <2>8 DEF MulOps
<1>2. MulInv => MulResult
  BY <1>1 DEF MulResult
<1> QED BY <1>2, MulInvariant, PTL

-----------------------------------------------------------------------------
(***************************************************************************)
(* The divider.                                                            *)
(***************************************************************************)

\* The arithmetic of a round: E and F are worth the bits of the dividend a that are
\* done and those that wait, S is the partial remainder and Q the word below it.
BeforeRound(E, F, a, b, Q, S, f) ==
  /\ E \in Nat /\ E > 0 /\ F \in Nat /\ F > 0
  /\ a \in Nat /\ b \in Nat /\ Q \in 0 .. 2 * (E * F) - 1 /\ S \in -b .. b - 1
  /\ f \in {0, 1} /\ (f = 1 <=> S >= 0)
  /\ a \div (2 * F) = (2 * (Q % E) - (E - 1)) * b + S
  /\ a % (2 * F) = Q \div E

AfterRound(E, F, a, b, top, next, rem) ==
  /\ top \in {0, 1}
  /\ next \in 0 .. 2 * (E * F) - 1
  /\ rem \in -b .. b - 1
  /\ a \div F = (2 * (next % (2 * E)) - (2 * E - 1)) * b + rem
  /\ a % F = next \div (2 * E)

LEMMA RoundArithmetic ==
  ASSUME NEW E, NEW F, NEW a, NEW b, NEW Q, NEW S, NEW f, BeforeRound(E, F, a, b, Q, S, f)
  PROVE  AfterRound(E, F, a, b, Q \div (E * F), 2 * (Q % (E * F)) + f,
                    2 * S + (Q \div (E * F)) + IF f = 1 THEN -b ELSE b)
<1> USE DEF BeforeRound
<1> DEFINE p == Q % E
           L == Q \div E
           H == a \div (2 * F)
           c == L \div F
           l == L % F
           low == l * E + p
           next == 2 * low + f
           rem == 2 * S + c + IF f = 1 THEN -b ELSE b
<1>1. p \in 0 .. E - 1 /\ L \in Int /\ Q = L * E + p
  BY DivMod
<1>2. L \in 0 .. 2 * F - 1 /\ H \in Nat /\ a = H * (2 * F) + L
  <2>1. 2 * F \in Nat /\ 2 * F > 0
    OBVIOUS
  <2>2. L = a % (2 * F)
    OBVIOUS
  <2>3. H \in Nat /\ a % (2 * F) \in 0 .. 2 * F - 1 /\ a = H * (2 * F) + (a % (2 * F))
    BY <2>1, DivMod
  <2> HIDE DEF H, L
  <2> QED BY <2>2, <2>3
<1>3. H = (2 * p - (E - 1)) * b + S
  OBVIOUS
<1> HIDE DEF p, L, H
<1>4. c \in {0, 1} /\ l \in 0 .. F - 1 /\ L = c * F + l
  <2>1. c \in 0 .. 1
    BY <1>2, QuotientBound
  <2>2. l \in 0 .. F - 1 /\ L = c * F + l
    BY <1>2, DivMod
  <2> QED BY <2>1, <2>2
<1> HIDE DEF c, l
<1>5. low \in 0 .. E * F - 1 /\ E * F \in Nat /\ E * F > 0
  BY <1>1, <1>4
<1>6. Q \div (E * F) = c /\ Q % (E * F) = low
  <2>1. Q = c * (E * F) + low
    BY <1>1, <1>4
  <2> HIDE DEF low
  <2>2. ASSUME NEW G \in Nat, G > 0, Q = c * G + low, low \in 0 .. G - 1
        PROVE  Q \div G = c /\ Q % G = low
    <3>1. Q \in Int /\ c \in Int
      BY <1>4, <1>5
    <3> QED BY <2>2, <3>1, DivModUnique
  <2> QED BY <1>5, <2>1, <2>2
<1>7. a \div F = 2 * H + c /\ a % F = l
  <2>1. a = (2 * H + c) * F + l /\ 2 * H + c \in Int
    BY <1>2, <1>4
  <2>2. ASSUME NEW q \in Int, a = q * F + l PROVE a \div F = q /\ a % F = l
    <3>1. a \in Int /\ l \in 0 .. F - 1
      BY <1>4
    <3> QED BY <2>2, <3>1, DivModUnique
  <2> QED BY <2>1, <2>2
<1>8. next \div (2 * E) = l /\ next % (2 * E) = 2 * p + f
  <2>1. next = l * (2 * E) + (2 * p + f) /\ 2 * p + f \in 0 .. 2 * E - 1 /\ 2 * E \in Nat /\ 2 * E > 0
    BY <1>1, <1>4
  <2>2. next \in Int /\ l \in Int
    BY <1>4, <1>5
  <2> HIDE DEF next
  <2>3. ASSUME NEW d \in Nat, d > 0, NEW r \in 0 .. d - 1, next = l * d + r
        PROVE  next \div d = l /\ next % d = r
    BY <2>2, <2>3, DivModUnique
  <2> QED BY <2>1, <2>3
<1>9. rem \in -b .. b - 1
  BY <1>4
<1>10. 2 * H + c = (2 * (2 * p + f) - (2 * E - 1)) * b + rem
  <2>1. CASE f = 1
    <3>1. rem = (2 * S + c) - b
      BY <1>4, <2>1
    <3> HIDE DEF rem
    <3>2. (2 * (2 * p + 1) - (2 * E - 1)) * b = 2 * ((2 * p - (E - 1)) * b) + b
      BY <1>1
    <3> QED BY <1>1, <1>3, <1>4, <2>1, <3>1, <3>2
  <2>2. CASE f = 0
    <3>1. rem = 2 * S + c + b
      BY <2>2
    <3> HIDE DEF rem
    <3>2. (2 * (2 * p + 0) - (2 * E - 1)) * b = 2 * ((2 * p - (E - 1)) * b) - b
      BY <1>1
    <3> QED BY <1>1, <1>3, <1>4, <2>2, <3>1, <3>2
  <2> QED BY <2>1, <2>2
<1>11. next \in 0 .. 2 * (E * F) - 1
  BY <1>5
<1> HIDE DEF low, rem
<1>12. next = 2 * (Q % (E * F)) + f /\ c = Q \div (E * F)
  BY <1>6
<1>13. rem = 2 * S + (Q \div (E * F)) + IF f = 1 THEN -b ELSE b
  BY <1>6 DEF rem
<1> HIDE DEF next
<1> QED BY <1>4, <1>7, <1>8, <1>9, <1>10, <1>11, <1>12, <1>13 DEF AfterRound

\* A division that its shortcuts do not end at once.
Needed == div_en /\ ~(signed_en /\ special_signed) /\ ~divu_finish

LEMMA DivOperands ==
  ASSUME inst \in Instructions, div_en
  PROVE  /\ inst.a \in Word /\ inst.b \in Word
         /\ operand_a \in Word /\ operand_b \in Word
BY InstructionWords, Magnitudes DEF is_rvmop, operand_a, operand_b

\* The signed tests for zero.
LEMMA BelowSign ==
  ASSUME NEW x \in Word
  PROVE  Bits(x, W - 2, 0) = 0 <=> x = 0 \/ x = SignBit
<1>1. /\ SignBit \in Nat /\ SignBit > 0 /\ x \in 0 .. 2 * SignBit - 1
      /\ Pow2[W - 1] = SignBit
  BY Powers DEF Word, SignBit
<1>2. Bits(x, W - 2, 0) = x % SignBit
  <2>1. x \in Int /\ W - 2 \in Int /\ W - 2 + 1 = W - 1
    BY <1>1, Widths
  <2> QED BY <1>1, <2>1, BitsLow
<1>3. CASE x < SignBit
  BY <1>1, <1>2, <1>3
<1>4. CASE x >= SignBit
  <2>1. x % SignBit = x - SignBit
    <3>1. x = 1 * SignBit + (x - SignBit) /\ x - SignBit \in 0 .. SignBit - 1
      BY <1>1, <1>4
    <3> QED BY <1>1, <3>1, DivModUnique
  <2> QED BY <1>1, <1>2, <1>4, <2>1
<1> QED BY <1>1, <1>3, <1>4

\* What the signed shortcuts test for: they look at 31 of 32 bits.
LEMMA SpecialOperands ==
  ASSUME inst \in Instructions, div_en
  PROVE  /\ dividend_zero_signed <=> inst.a \in {0, SignBit}
         /\ divisor_zero_signed <=> inst.b \in {0, SignBit}
BY DivOperands, BelowSign DEF dividend_zero_signed, divisor_zero_signed

\* The rounds divide by a divisor that is not zero and below the sign bit.
LEMMA NeededDivisor ==
  ASSUME inst \in Instructions, Needed
  PROVE  operand_b \in 1 .. SignBit - 1
<1>1. /\ inst.b \in 0 .. Pow2[W] - 1 /\ SignBit \in Nat /\ SignBit > 0 /\ Pow2[W] = 2 * SignBit
      /\ inst.b \in Word /\ div_en
  BY DivOperands, Powers DEF Needed, Word
<1>2. CASE signed_en
  <2>1. inst.b \notin {0, SignBit}
    BY <1>1, <1>2, SpecialOperands DEF Needed, special_signed
  <2>2. operand_b = Magnitude(inst.b)
    BY <1>2 DEF operand_b
  <2> QED BY <1>1, <2>1, <2>2, Magnitudes DEF Negative
<1>3. CASE ~signed_en
  <2>1. operand_b = inst.b
    BY <1>3 DEF operand_b
  <2>2. inst.b # 0 /\ ~Negative(operand_b)
    BY <1>3 DEF Needed, divu_finish, divu_small_large, divu_large_large, special_unsigned,
                divisor_zero_unsigned
  <2> QED BY <1>1, <2>1, <2>2 DEF Negative
<1> QED BY <1>2, <1>3

\* The register of the divider is the partial remainder and the word below it.
LEMMA DivWords ==
  ASSUME NEW P \in DoubleWord
  PROVE  /\ Bits(P, 2 * W - 1, W) \in 0 .. Pow2[W] - 1
         /\ Bits(P, W - 1, 0) \in 0 .. Pow2[W] - 1
         /\ P = Bits(P, 2 * W - 1, W) * Pow2[W] + Bits(P, W - 1, 0)
         /\ \A n \in 0 .. W : P % Pow2[n] = Bits(P, W - 1, 0) % Pow2[n]
<1> DEFINE M == Pow2[W]
<1>1. /\ M \in Nat /\ M > 0 /\ Pow2[2 * W] = M * M /\ P \in 0 .. M * M - 1
      /\ P \in Int
  BY Powers DEF DoubleWord
<1>2. Bits(P, W - 1, 0) = P % M
  <2>1. W - 1 \in Int /\ W - 1 + 1 = W
    BY Widths
  <2> QED BY <1>1, <2>1, BitsLow
<1>3. P \div M \in 0 .. M - 1
  <2> HIDE DEF M
  <2> QED BY <1>1, QuotientBound
<1>4. Bits(P, 2 * W - 1, W) = P \div M
  <2>1. 2 * W - 1 - W + 1 = W
    BY Widths
  <2>2. Bits(P, 2 * W - 1, W) = (P \div M) % M
    BY <2>1 DEF Bits
  <2> HIDE DEF M
  <2> QED BY <1>1, <1>3, <2>2
<1>5. ASSUME NEW n \in 0 .. W PROVE P % Pow2[n] = Bits(P, W - 1, 0) % Pow2[n]
  <2> DEFINE E == Pow2[n]
             k == Pow2[W - n]
  <2>1. E \in Nat /\ E > 0 /\ k \in Nat /\ k > 0 /\ M = k * E
    <3>1. n \in Nat /\ W - n \in Nat /\ (W - n) + n = W
      BY Widths
    <3> QED BY <3>1, Pow2Type, Pow2Sum
  <2> HIDE DEF E, k, M
  <2>2. (P % (k * E)) % E = P % E
    <3>1. P \in Int
      BY <1>1
    <3> QED BY <2>1, <3>1, DivModTwice
  <2>3. P % E = (P % M) % E
    BY <2>1, <2>2
  <2> QED BY <1>2, <2>3 DEF E, M
<1> HIDE DEF M
<1>6. P % M \in 0 .. M - 1 /\ P = (P \div M) * M + (P % M)
  BY <1>1, DivMod
<1> QED BY <1>2, <1>3, <1>4, <1>5, <1>6 DEF M

\* What a word of two's complement stands for.
LEMMA SignedWrap ==
  ASSUME NEW i \in -SignBit .. SignBit - 1, NEW k \in Int
  PROVE  /\ (i + k * Pow2[W]) % Pow2[W] \in 0 .. Pow2[W] - 1
         /\ Signed((i + k * Pow2[W]) % Pow2[W]) = i
<1> DEFINE M == Pow2[W]
           v == (i + k * M) % M
<1>1. SignBit \in Nat /\ SignBit > 0 /\ M = 2 * SignBit /\ M \in Nat /\ M > 0
  BY Powers
<1>2. Signed(v) = IF v >= SignBit THEN v - M ELSE v
  BY DEF Signed, Negative
<1> HIDE DEF M
<1>3. CASE i >= 0
  <2>1. i + k * M = k * M + i /\ i \in 0 .. M - 1 /\ i + k * M \in Int
    BY <1>1, <1>3
  <2>2. v = i
    BY <1>1, <2>1, DivModUnique
  <2> QED BY <1>1, <1>2, <1>3, <2>2 DEF M
<1>4. CASE i < 0
  <2>1. i + k * M = (k - 1) * M + (i + M) /\ i + M \in 0 .. M - 1 /\ i + k * M \in Int
    BY <1>1, <1>4
  <2>2. ASSUME NEW q \in Int, NEW r \in 0 .. M - 1, i + k * M = q * M + r
        PROVE  v = r
    <3>1. i + k * M \in Int
      BY <2>1
    <3> QED BY <1>1, <2>2, <3>1, DivModUnique
  <2>3. v = i + M
    <3>1. k - 1 \in Int
      OBVIOUS
    <3> HIDE DEF v
    <3> QED BY <2>1, <2>2, <3>1
  <2> QED BY <1>1, <1>2, <1>4, <2>3 DEF M
<1> QED BY <1>1, <1>3, <1>4

\* What PartialRemainder says after n rounds of the partial remainder R and the word
\* Q below it.
AfterRounds(n, R, Q) ==
  /\ operand_a \div Pow2[W - n]
       = (2 * (Q % Pow2[n]) - (Pow2[n] - 1)) * operand_b + Signed(R)
  /\ operand_a % Pow2[W - n] = Q \div Pow2[n]
  /\ Signed(R) \in -operand_b .. operand_b - 1

\* PartialRemainder in these terms.
LEMMA PartialRemainderIs ==
  ASSUME div_product \in DoubleWord, div_round \in 0 .. W + 1
  PROVE  PartialRemainder <=> (div_round > 0 => AfterRounds(div_round - 1, remainder, quotient))
<1>1. CASE div_round > 0
  <2>1. div_product % Pow2[div_round - 1] = quotient % Pow2[div_round - 1]
    <3>1. div_round - 1 \in 0 .. W
      BY <1>1, Widths
    <3> QED BY <3>1, DivWords DEF quotient
  <2> QED BY <1>1, <2>1 DEF PartialRemainder, AfterRounds
<1>2. CASE ~(div_round > 0)
  BY <1>2 DEF PartialRemainder
<1> QED BY <1>1, <1>2

\* The register after a round.
LEMMA Shifted ==
  ASSUME NEW r \in Word, NEW q \in Word
  PROVE  /\ r * Pow2[W] + q \in DoubleWord
         /\ Bits(r * Pow2[W] + q, 2 * W - 1, W) = r
         /\ Bits(r * Pow2[W] + q, W - 1, 0) = q
<1> DEFINE M == Pow2[W]
           P == r * M + q
           hi == Bits(P, 2 * W - 1, W)
           lo == Bits(P, W - 1, 0)
<1>1. M \in Nat /\ M > 0 /\ Pow2[2 * W] = M * M /\ r \in 0 .. M - 1 /\ q \in 0 .. M - 1
  BY Powers DEF Word
<1>2. P \in 0 .. M * M - 1
  <2> HIDE DEF M
  <2> QED BY <1>1
<1>3. P \in DoubleWord
  BY <1>1, <1>2 DEF DoubleWord
<1>4. hi \in 0 .. M - 1 /\ lo \in 0 .. M - 1 /\ P = hi * M + lo
  BY <1>3, DivWords
<1>5. hi = r /\ lo = q
  <2> HIDE DEF hi, lo, M
  <2>1. P \div M = r /\ P % M = q
    <3>1. P = r * M + q /\ P \in Int /\ r \in Int
      BY <1>1
    <3> HIDE DEF P
    <3> QED BY <1>1, <3>1, DivModUnique
  <2>2. P \div M = hi /\ P % M = lo
    <3>1. P \in Int /\ hi \in Int
      BY <1>1, <1>4
    <3> HIDE DEF P
    <3> QED BY <1>1, <1>4, <3>1, DivModUnique
  <2> QED BY <2>1, <2>2
<1> QED BY <1>3, <1>5

\* The sum or difference of a round, as a signed number.
LEMMA RoundSum ==
  ASSUME inst \in Instructions, Needed, div_product \in DoubleWord, div_round \in 1 .. W,
         Signed(remainder) \in -operand_b .. operand_b - 1
  PROVE  LET top == quotient \div SignBit
             twice == 2 * Signed(remainder) + top
         IN  /\ alu_result \in Word
             /\ ~Negative(remainder) => Signed(alu_result) = twice - operand_b
             /\ Negative(remainder) => Signed(alu_result) = twice + operand_b
<1> DEFINE R == remainder
           Q == quotient
           S == Signed(R)
           b == operand_b
           M == Pow2[W]
           top == Q \div SignBit
           wide == (2 * R + top) % M
<1>1. /\ SignBit \in Nat /\ SignBit > 0 /\ M = 2 * SignBit /\ M \in Nat /\ M > 0
      /\ R \in 0 .. M - 1 /\ Q \in 0 .. M - 1 /\ div_product = R * M + Q
  BY Powers, DivWords DEF remainder, quotient
<1>2. b \in 1 .. SignBit - 1
  BY NeededDivisor
<1>3. top \in {0, 1} /\ Q % SignBit \in 0 .. SignBit - 1 /\ Q = top * SignBit + (Q % SignBit)
  <2>1. Q \in 0 .. 2 * SignBit - 1 /\ Q \in Int
    BY <1>1
  <2>2. top \in 0 .. 1
    BY <1>1, <2>1, QuotientBound
  <2> HIDE DEF Q
  <2> QED BY <1>1, <2>1, <2>2, DivMod
<1>4. ~div_finish /\ ~divu_large_large
  BY Widths DEF Needed, div_finish, divu_finish
<1>5. div_operand_a = wide /\ div_operand_b = b
  <2>1. div_operand_a = Bits(div_product, 2 * W - 2, W - 1) /\ div_operand_b = b
    BY <1>4 DEF div_operand_a, div_operand_b
  <2>2. Bits(div_product, 2 * W - 2, W - 1) = (div_product \div SignBit) % M
    <3>1. 2 * W - 2 - (W - 1) + 1 = W
      BY Widths
    <3> QED BY <3>1 DEF Bits, SignBit
  <2>3. div_product \div SignBit = 2 * R + top
    <3> DEFINE r == Q % SignBit
               q == 2 * R + top
    <3>1. /\ div_product = q * SignBit + r /\ r \in 0 .. SignBit - 1 /\ q \in Int
          /\ div_product \in Int
      <4> HIDE DEF M, top, R, Q
      <4>1. div_product = (2 * SignBit) * R + (top * SignBit + r)
        BY <1>1, <1>3
      <4> QED BY <1>1, <1>3, <4>1
    <3> HIDE DEF q, r
    <3>2. div_product \div SignBit = q
      BY <1>1, <3>1, DivModUnique
    <3> QED BY <3>2 DEF q
  <2> QED BY <2>1, <2>2, <2>3
<1>6. div_sub <=> ~Negative(R)
  BY <1>4 DEF div_sub
<1>7. alu_result = IF Negative(R) THEN (wide + b) % M ELSE (wide - b) % M
  BY <1>5, <1>6 DEF alu_result, adder_diff, adder_sum
<1>8. S = IF Negative(R) THEN R - M ELSE R
  BY DEF Signed
<1>9. Negative(R) <=> S < 0
  BY <1>1, <1>8 DEF Negative
<1>10. S \in -b .. b - 1
  OBVIOUS
<1> HIDE DEF R, Q, S, b, M, top, wide
<1>11. \E k \in Int : wide = 2 * S + top + k * M
  <2> DEFINE q == (2 * R + top) \div M
  <2>1. q \in Int /\ 2 * R + top = q * M + wide
    <3>1. 2 * R + top \in Int
      BY <1>1, <1>3
    <3> QED BY <1>1, <3>1, DivMod DEF wide
  <2> HIDE DEF q
  <2>2. wide \in Int
    BY <1>1, <1>3 DEF wide
  <2>3. CASE Negative(R)
    <3>1. wide = 2 * S + top + (2 - q) * M
      BY <1>1, <1>3, <1>8, <1>10, <2>1, <2>2, <2>3
    <3> QED BY <2>1, <3>1
  <2>4. CASE ~Negative(R)
    <3>1. wide = 2 * S + top + (0 - q) * M
      BY <1>1, <1>3, <1>8, <1>10, <2>1, <2>2, <2>4
    <3>2. 0 - q \in Int
      BY <2>1
    <3> QED BY <3>1, <3>2
  <2> QED BY <2>3, <2>4
<1>12. PICK k \in Int : wide = 2 * S + top + k * M
  BY <1>11
<1>13. CASE Negative(R)
  <2> DEFINE i == 2 * S + top + b
  <2>1. i \in -SignBit .. SignBit - 1
    BY <1>1, <1>2, <1>3, <1>9, <1>10, <1>13
  <2>2. wide + b = i + k * M
    BY <1>1, <1>2, <1>3, <1>10, <1>12
  <2> HIDE DEF i
  <2>3. alu_result = (i + k * M) % M
    BY <1>7, <1>13, <2>2
  <2>4. alu_result \in 0 .. M - 1 /\ Signed(alu_result) = i
    BY <2>1, <2>3, SignedWrap DEF M
  <2>5. alu_result \in Word
    BY <2>4 DEF M, Word
  <2>6. Signed(alu_result) = 2 * S + top + b
    BY <2>4 DEF i
  <2> QED BY <1>13, <2>5, <2>6 DEF R, Q, S, b, top
<1>14. CASE ~Negative(R)
  <2> DEFINE i == (2 * S + top) - b
  <2>1. i \in -SignBit .. SignBit - 1
    BY <1>1, <1>2, <1>3, <1>9, <1>10, <1>14
  <2>2. wide - b = i + k * M
    BY <1>1, <1>2, <1>3, <1>10, <1>12
  <2> HIDE DEF i
  <2>3. alu_result = (i + k * M) % M
    BY <1>7, <1>14, <2>2
  <2>4. alu_result \in 0 .. M - 1 /\ Signed(alu_result) = i
    BY <2>1, <2>3, SignedWrap DEF M
  <2>5. alu_result \in Word
    BY <2>4 DEF M, Word
  <2>6. Signed(alu_result) = (2 * S + top) - b
    BY <2>4 DEF i
  <2> QED BY <1>14, <2>5, <2>6 DEF R, Q, S, b, top
<1> QED BY <1>13, <1>14

\* Round 0 loads the dividend, and each round after it takes one of its bits.
LEMMA FirstDivRound ==
  ASSUME inst \in Instructions, Needed, div_round = 0
  PROVE  /\ div_product_next \in DoubleWord
         /\ AfterRounds(0, Bits(div_product_next, 2 * W - 1, W), Bits(div_product_next, W - 1, 0))
<1> DEFINE M == Pow2[W]
<1>1. /\ M \in Nat /\ M > 0 /\ operand_a \in Word /\ operand_a \in 0 .. M - 1
      /\ SignBit \in Nat /\ SignBit > 0 /\ 0 \in Word
  BY DivOperands, Powers, ZeroIsAWord DEF Needed, Word
<1>2. div_product_next = 0 * M + operand_a
  BY <1>1 DEF div_product_next
<1>3. /\ div_product_next \in DoubleWord /\ Bits(div_product_next, 2 * W - 1, W) = 0
      /\ Bits(div_product_next, W - 1, 0) = operand_a
  BY <1>1, <1>2, Shifted
<1>4. Signed(0) = 0
  BY <1>1 DEF Signed, Negative
<1>5. operand_b \in 1 .. SignBit - 1
  BY NeededDivisor
<1>6. /\ operand_a \div M = 0 /\ operand_a % M = operand_a
      /\ operand_a \div 1 = operand_a /\ operand_a % 1 = 0
  BY <1>1
<1>7. W - 0 = W
  BY Widths
<1>8. (2 * 0 - (1 - 1)) * operand_b + 0 = 0 /\ 0 \in -operand_b .. operand_b - 1
  BY <1>1, <1>5
<1> HIDE DEF M
<1>9. AfterRounds(0, 0, operand_a)
  BY <1>4, <1>6, <1>7, <1>8, Pow2Zero DEF AfterRounds, M
<1> QED BY <1>3, <1>9

LEMMA DivRound ==
  ASSUME inst \in Instructions, Needed, div_product \in DoubleWord, div_round \in 1 .. W,
         AfterRounds(div_round - 1, remainder, quotient)
  PROVE  /\ div_product_next \in DoubleWord
         /\ AfterRounds(div_round, Bits(div_product_next, 2 * W - 1, W),
                                   Bits(div_product_next, W - 1, 0))
<1> DEFINE n == div_round - 1
           E == Pow2[n]
           F == Pow2[W - div_round]
           Q == quotient
           S == Signed(remainder)
           f == Flag(~Negative(remainder))
           next == 2 * (Q % (E * F)) + f
           a == operand_a
           b == operand_b
<1>1. /\ E \in Nat /\ E > 0 /\ F \in Nat /\ F > 0 /\ SignBit = E * F /\ Pow2[W] = 2 * (E * F)
      /\ Pow2[W - n] = 2 * F /\ Pow2[div_round] = 2 * E
  <2>1. /\ n \in Nat /\ W - div_round \in Nat /\ n + (W - div_round) = W - 1
        /\ n + 1 = div_round /\ (W - div_round) + 1 = W - n
    BY Widths
  <2>2. SignBit = E * F
    BY <2>1, Pow2Sum DEF SignBit
  <2>3. Pow2[n + 1] = 2 * E /\ Pow2[(W - div_round) + 1] = 2 * F
    BY <2>1, Pow2Double
  <2> QED BY <2>1, <2>2, <2>3, Powers, Pow2Type
<1>2. a \in Nat /\ b \in Nat /\ b \in 1 .. SignBit - 1
  BY DivOperands, NeededDivisor, Powers DEF Needed, Word
<1>3. Q \in 0 .. Pow2[W] - 1 /\ remainder \in 0 .. Pow2[W] - 1
  BY DivWords DEF quotient, remainder
<1>4. /\ a \div (2 * F) = (2 * (Q % E) - (E - 1)) * b + S
      /\ a % (2 * F) = Q \div E
      /\ S \in -b .. b - 1
  BY <1>1 DEF AfterRounds
<1>5. f \in {0, 1} /\ (f = 1 <=> S >= 0) /\ (f = 1 <=> ~Negative(remainder))
  <2>1. CASE Negative(remainder)
    BY <1>3, <2>1, Powers DEF Signed, Negative, Flag
  <2>2. CASE ~Negative(remainder)
    BY <1>3, <2>2, Powers DEF Signed, Negative, Flag
  <2> QED BY <2>1, <2>2
<1>6. alu_result \in Word
  BY <1>4, RoundSum
<1> DEFINE top == Q \div (E * F)
           rem == 2 * S + top + IF f = 1 THEN -b ELSE b
<1>7. top \in Int
  <2>1. E * F \in Nat /\ E * F > 0 /\ Q \in Int
    BY <1>1, <1>3, Powers
  <2> HIDE DEF E, F, Q
  <2> QED BY <2>1
<1>8. Signed(alu_result) = rem
  <2>1. /\ ~Negative(remainder) => Signed(alu_result) = (2 * S + top) - b
        /\ Negative(remainder) => Signed(alu_result) = (2 * S + top) + b
    BY <1>1, <1>4, RoundSum
  <2> HIDE DEF S, top, b, f
  <2>2. S \in Int
    BY <1>2, <1>4
  <2> QED BY <1>2, <1>5, <1>7, <2>1, <2>2
<1>9. div_product_next = alu_result * Pow2[W] + next
  <2>1. Bits(Q, W - 2, 0) = Q % SignBit
    <3>1. W - 2 \in Int /\ W - 2 + 1 = W - 1 /\ Q \in Int
      BY <1>3, Widths, Powers
    <3> QED BY <3>1, BitsLow DEF SignBit
  <2>2. div_product_next = alu_result * Pow2[W] + (Q % SignBit) * 2 + f
    BY <2>1 DEF div_product_next
  <2>3. Q % SignBit \in Int /\ alu_result \in Int /\ Pow2[W] \in Int
    BY <1>3, <1>6, Powers DEF Word
  <2>4. (Q % SignBit) * 2 = 2 * (Q % SignBit)
    BY <2>3
  <2> QED BY <1>1, <1>5, <2>2, <2>3, <2>4
<1> HIDE DEF E, F, Q, S, f, a, b, top, rem, next
<1>10. /\ next \in 0 .. 2 * (E * F) - 1
       /\ rem \in -b .. b - 1
       /\ a \div F = (2 * (next % (2 * E)) - (2 * E - 1)) * b + rem
       /\ a % F = next \div (2 * E)
  <2>1. Q \in 0 .. 2 * (E * F) - 1
    BY <1>1, <1>3
  <2>2. f \in {0, 1} /\ (f = 1 <=> S >= 0)
    BY <1>5
  <2>3. BeforeRound(E, F, a, b, Q, S, f)
    BY <1>1, <1>2, <1>4, <2>1, <2>2 DEF BeforeRound
  <2>4. AfterRound(E, F, a, b, top, next, rem)
    BY <2>3, RoundArithmetic DEF top, rem, next
  <2> QED BY <2>4 DEF AfterRound
<1>11. next \in Word
  BY <1>1, <1>10 DEF Word
<1>12. /\ div_product_next \in DoubleWord /\ Bits(div_product_next, 2 * W - 1, W) = alu_result
       /\ Bits(div_product_next, W - 1, 0) = next
  BY <1>6, <1>9, <1>11, Shifted
<1>13. AfterRounds(div_round, alu_result, next)
  <2>1. Pow2[W - div_round] = F /\ Pow2[div_round] = 2 * E
    BY <1>1 DEF F
  <2> QED BY <1>8, <1>10, <2>1 DEF AfterRounds, a, b
<1> QED BY <1>12, <1>13

-----------------------------------------------------------------------------
(***************************************************************************)
(* The invariants of a division.                                           *)
(***************************************************************************)
\* The adder's result is a word.
LEMMA AluResultType ==
  ASSUME inst \in Instructions, div_en, div_product \in DoubleWord
  PROVE  alu_result \in 0 .. Pow2[W] - 1
<1>1. /\ remainder \in Int /\ quotient \in Int /\ operand_a \in Int /\ operand_b \in Int
      /\ Pow2[W] \in Nat /\ Pow2[W] > 0
  BY DivWords, DivOperands, Powers DEF remainder, quotient, Word
<1>2. Bits(div_product, 2 * W - 2, W - 1) \in Int
  <2>1. W - 1 \in Nat /\ 2 * W - 2 \in Nat /\ W - 1 <= 2 * W - 2 /\ div_product \in Nat
    BY Widths, Powers DEF DoubleWord
  <2>2. 2 * W - 2 - (W - 1) + 1 \in Nat
    BY Widths
  <2> QED BY <2>1, <2>2, ReadField, Pow2Type
<1>3. div_operand_a \in Int
  BY <1>1, <1>2 DEF div_operand_a
<1>4. div_operand_b \in Int
  BY <1>1 DEF div_operand_b, Complement
<1>5. \A i \in Int : i % Pow2[W] \in 0 .. Pow2[W] - 1
  BY <1>1
<1>6. div_operand_a - div_operand_b \in Int /\ div_operand_a + div_operand_b \in Int
  BY <1>3, <1>4
<1> QED BY <1>5, <1>6 DEF alu_result, adder_diff, adder_sum

\* The register keeps its width whatever the operands, those of a shortcut included.
LEMMA DivNextType ==
  ASSUME inst \in Instructions, div_en, div_product \in DoubleWord
  PROVE  div_product_next \in DoubleWord
<1>1. /\ Pow2[W] \in Nat /\ Pow2[W] > 0 /\ Pow2[W] = 2 * SignBit /\ SignBit \in Nat /\ SignBit > 0
      /\ quotient \in Int
  BY Powers, DivWords DEF quotient
<1>2. CASE div_round = 0
  <2>1. operand_a \in Word /\ 0 \in Word
    BY DivOperands, ZeroIsAWord
  <2>2. div_product_next = 0 * Pow2[W] + operand_a
    BY <1>1, <1>2, <2>1 DEF div_product_next, Word
  <2> QED BY <2>1, <2>2, Shifted
<1>3. CASE div_round # 0
  <2> DEFINE q == (quotient % SignBit) * 2 + Flag(~Negative(remainder))
  <2>1. Bits(quotient, W - 2, 0) = quotient % SignBit
    <3>1. W - 2 \in Int /\ W - 2 + 1 = W - 1
      BY Widths
    <3> QED BY <1>1, <3>1, BitsLow DEF SignBit
  <2>2. Flag(~Negative(remainder)) \in {0, 1}
    BY DEF Flag
  <2>3. quotient % SignBit \in 0 .. SignBit - 1
    BY <1>1
  <2>4. q \in Word
    BY <1>1, <2>2, <2>3 DEF Word
  <2>5. alu_result \in 0 .. Pow2[W] - 1
    BY AluResultType
  <2>6. div_product_next = alu_result * Pow2[W] + q
    <3>1. div_product_next
            = alu_result * Pow2[W] + (quotient % SignBit) * 2 + Flag(~Negative(remainder))
      BY <1>3, <2>1 DEF div_product_next
    <3>2. alu_result * Pow2[W] \in Int
      BY <1>1, <2>5
    <3> QED BY <2>2, <2>3, <3>1, <3>2
  <2>7. alu_result \in Word
    BY <2>5 DEF Word
  <2> HIDE DEF q
  <2> QED BY <2>4, <2>6, <2>7, Shifted
<1> QED BY <1>2, <1>3

DivInv ==
  /\ inst \in Instructions
  /\ div_product \in DoubleWord /\ div_round \in 0 .. W + 1
  /\ div_round > 0 => Needed /\ AfterRounds(div_round - 1, remainder, quotient)

\* Rounds that follow one another are those of one division.
LEMMA DivInvariant == Spec => []DivInv
<1>1. Init => DivInv
  BY Widths, ZeroIsAWord DEF Init, DivInv, Instructions
<1>2. DivInv /\ [Next]_vars => DivInv'
  <2> SUFFICES ASSUME DivInv, [Next]_vars PROVE DivInv'
    OBVIOUS
  <2>1. inst \in Instructions /\ div_product \in DoubleWord /\ div_round \in 0 .. W + 1
    BY DEF DivInv
  <2>2. ASSUME DivRegisters PROVE div_product' \in DoubleWord
    BY <2>1, <2>2, DivNextType, ZeroIsAWord DEF DivRegisters
  <2>3. CASE Stall
    <3>1. inst' = inst /\ DivRegisters /\ muldiv_stall
      BY <2>3 DEF Stall
    <3>2. CASE ~div_en
      BY <2>1, <2>2, <3>1, <3>2, Widths DEF DivInv, DivRegisters
    <3>3. CASE div_en
      <4>1. ~round_finish
        <5>1. ~mulit_en
          BY <3>3 DEF mulit_en, div_en, MulOps, DivOps
        <5> QED BY <3>1, <5>1 DEF muldiv_stall, multdiv_finish
      <4>2. Needed /\ div_round \in 0 .. W
        BY <2>1, <3>3, <4>1, Widths DEF round_finish, div_finish, Needed
      <4>3. div_round' = div_round + 1 /\ div_product' = div_product_next
        BY <3>1, <3>3, <4>1 DEF DivRegisters
      <4>4. operand_a' = operand_a /\ operand_b' = operand_b /\ Needed'
        BY <3>1, <4>2 DEF operand_a, operand_b, signed_en, Needed, div_en, special_signed,
             dividend_zero_signed, divisor_zero_signed, divu_finish, divu_small_large,
             divu_large_large, special_unsigned, dividend_zero_unsigned, divisor_zero_unsigned
      <4>5. AfterRounds(div_round, Bits(div_product_next, 2 * W - 1, W),
                                   Bits(div_product_next, W - 1, 0))
        <5>1. CASE div_round = 0
          BY <2>1, <4>2, <5>1, FirstDivRound
        <5>2. CASE div_round # 0
          <6>1. div_round \in 1 .. W
            BY <4>2, <5>2, Widths
          <6>2. AfterRounds(div_round - 1, remainder, quotient)
            BY <6>1, Widths DEF DivInv
          <6> QED BY <2>1, <4>2, <6>1, <6>2, DivRound
        <5> QED BY <5>1, <5>2
      <4>6. div_product' \in DoubleWord /\ div_round' \in 0 .. W + 1 /\ div_round' - 1 = div_round
        BY <2>2, <3>1, <4>2, <4>3, Widths
      <4>7. AfterRounds(div_round - 1, remainder, quotient)'
        <5>1. remainder' = Bits(div_product_next, 2 * W - 1, W)
          BY <4>3 DEF remainder
        <5>2. quotient' = Bits(div_product_next, W - 1, 0)
          BY <4>3 DEF quotient
        <5> QED BY <4>4, <4>5, <4>6, <5>1, <5>2 DEF AfterRounds
      <4> QED BY <2>1, <3>1, <4>4, <4>6, <4>7 DEF DivInv
    <3> QED BY <3>2, <3>3
  <2>4. CASE Retire
    <3>1. DivRegisters /\ ~muldiv_stall /\ inst' \in Instructions
      BY <2>4 DEF Retire
    <3>2. div_round' = 0
      <4>1. ~(mulit_en /\ div_en)
        BY DEF mulit_en, div_en, MulOps, DivOps
      <4> QED BY <3>1, <4>1 DEF DivRegisters, muldiv_stall, multdiv_finish, is_rvmop
    <3> QED BY <2>2, <3>1, <3>2, Widths DEF DivInv
  <2>5. CASE UNCHANGED vars
    BY <2>5 DEF vars, divVars, DivInv, AfterRounds, operand_a, operand_b, signed_en, Needed,
         div_en, special_signed, dividend_zero_signed, divisor_zero_signed, divu_finish,
         divu_small_large, divu_large_large, special_unsigned, dividend_zero_unsigned,
         divisor_zero_unsigned, remainder, quotient
  <2> QED BY <2>3, <2>4, <2>5 DEF Next
<1> QED BY <1>1, <1>2, PTL DEF Spec

\* After every round of a division the dividend's bits that are done are the
\* quotient's digits times the divisor plus a remainder in range: the invariant of
\* non-restoring division, for any operands of any width
\* (divider_nonrestoring.sv:50-57, 94-96).
THEOREM RoundsDivide == Spec => []PartialRemainder
<1>1. DivInv => PartialRemainder
  BY PartialRemainderIs DEF DivInv
<1> QED BY <1>1, DivInvariant, PTL

\* The registers of both units keep their widths, and the rounds their bounds
\* (multiplier_fast.sv:30-36, divider_nonrestoring.sv:36-47).
THEOREM RegistersKeepWidth == Spec => []TypeOK
<1>1. MulInv /\ DivInv /\ RoundsBounded => TypeOK
  BY DEF MulInv, MulType, DivInv, TypeOK
<1> QED BY <1>1, MulInvariant, DivInvariant, StallsEnd, PTL

-----------------------------------------------------------------------------
(***************************************************************************)
(* What a division writes back.                                            *)
(***************************************************************************)

\* A division ends by a shortcut in round 0, or after all its rounds.
LEMMA WaysToEnd ==
  ASSUME DivInv, div_en, round_finish
  PROVE  \/ signed_en /\ special_signed
         \/ ~signed_en /\ divu_finish /\ ~div_finish
         \/ Needed /\ div_round = W + 1
<1>1. div_round > 0 => Needed
  BY DEF DivInv
<1>2. CASE signed_en /\ special_signed
  BY <1>2
<1>3. CASE ~(signed_en /\ special_signed) /\ divu_finish
  <2>1. div_round = 0
    BY <1>1, <1>3 DEF Needed, DivInv
  <2>2. ~div_finish
    BY <1>3, <2>1, Widths DEF div_finish
  <2>3. ~signed_en
    <3> SUFFICES ASSUME signed_en PROVE FALSE
      OBVIOUS
    <3>1. inst.b \in Word /\ operand_b = Magnitude(inst.b) /\ inst.b \notin {0, SignBit}
      BY <1>3, DivOperands, SpecialOperands DEF DivInv, operand_b, special_signed
    <3>2. operand_b < SignBit
      <4>1. SignBit \in Nat /\ Pow2[W] = 2 * SignBit
        BY Powers
      <4> QED BY <3>1, <4>1, Magnitudes DEF Negative
    <3>3. ~Negative(operand_b)
      <4>1. SignBit \in Nat /\ operand_b \in Int
        BY <3>1, Powers, Magnitudes DEF Word
      <4> QED BY <3>2, <4>1 DEF Negative
    <3> QED BY <1>3, <3>3 DEF divu_finish, divu_small_large, divu_large_large
  <2> QED BY <1>3, <2>2, <2>3
<1>4. CASE ~(signed_en /\ special_signed) /\ ~divu_finish
  BY <1>4 DEF round_finish, div_finish, Needed
<1> QED BY <1>2, <1>3, <1>4

\* What the last round finds: twice the word of digits, and a remainder that may lack
\* one divisor.
LEMMA LastRemainder ==
  ASSUME DivInv, Needed, div_round = W + 1
  PROVE  LET q == operand_a \div operand_b
             r == operand_a % operand_b
         IN  /\ q \in 0 .. Pow2[W] - 1
             /\ r \in 0 .. operand_b - 1
             /\ ~Negative(remainder) => q = 2 * quotient - Pow2[W] + 1 /\ r = remainder
             /\ Negative(remainder) => q = 2 * quotient - Pow2[W] /\ r = remainder - Pow2[W] + operand_b
<1> DEFINE a == operand_a
           b == operand_b
           Q == quotient
           R == remainder
           M == Pow2[W]
           S == Signed(R)
           d == (2 * Q + 1) - M
<1>1. /\ M \in Nat /\ M > 0 /\ SignBit \in Nat /\ M = 2 * SignBit
      /\ Q \in 0 .. M - 1 /\ R \in 0 .. M - 1 /\ a \in 0 .. M - 1
  BY DivWords, Powers, DivOperands DEF quotient, remainder, DivInv, Needed, Word
<1>2. b \in 1 .. SignBit - 1
  BY NeededDivisor DEF DivInv
<1>3. a = d * b + S /\ S \in -b .. b - 1
  <2>1. AfterRounds(W, R, Q)
    <3>1. div_round > 0 /\ div_round - 1 = W
      BY Widths
    <3> QED BY <3>1 DEF DivInv
  <2>2. W - W = 0 /\ Q % M = Q /\ a \div 1 = a
    BY <1>1, Widths
  <2>3. a = (2 * Q - (M - 1)) * b + S /\ S \in -b .. b - 1
    BY <2>1, <2>2, Pow2Zero DEF AfterRounds
  <2>4. 2 * Q - (M - 1) = d
    BY <1>1
  <2> QED BY <2>3, <2>4
<1>4. S = IF Negative(R) THEN R - M ELSE R
  BY DEF Signed
<1>5. Negative(R) <=> R >= SignBit
  BY DEF Negative
<1>6. a \div b \in 0 .. M - 1 /\ a % b \in 0 .. b - 1
  <2>1. a \in 0 .. M * b - 1 /\ b \in Nat /\ b > 0 /\ a \in Int
    BY <1>1, <1>2
  <2> HIDE DEF a, b, M
  <2> QED BY <1>1, <2>1, QuotientBound, DivMod
<1> HIDE DEF a, b, Q, R, M, S
<1>7. CASE Negative(R)
  <2>1. a = (d - 1) * b + (S + b) /\ S + b \in 0 .. b - 1
    BY <1>1, <1>2, <1>3, <1>4, <1>5, <1>7
  <2>2. \A u \in Int, v \in 0 .. b - 1 : a = u * b + v => a \div b = u /\ a % b = v
    <3>1. a \in Int /\ b \in Nat /\ b > 0
      BY <1>1, <1>2
    <3> QED BY <3>1, DivModUnique
  <2>3. a \div b = d - 1 /\ a % b = S + b
    <3>1. d - 1 \in Int
      BY <1>1
    <3> HIDE DEF d
    <3> QED BY <2>1, <2>2, <3>1
  <2>4. a \div b = 2 * Q - M /\ a % b = (R - M) + b
    BY <1>1, <1>4, <1>7, <2>3
  <2>5. (R - M) + b = R - M + b /\ 2 * Q - M \in Int
    BY <1>1, <1>2
  <2> QED BY <1>6, <1>7, <2>4, <2>5 DEF a, b, Q, R, M
<1>8. CASE ~Negative(R)
  <2>1. a = d * b + S /\ S \in 0 .. b - 1
    BY <1>1, <1>2, <1>3, <1>4, <1>5, <1>8
  <2>2. \A u \in Int, v \in 0 .. b - 1 : a = u * b + v => a \div b = u /\ a % b = v
    <3>1. a \in Int /\ b \in Nat /\ b > 0
      BY <1>1, <1>2
    <3> QED BY <3>1, DivModUnique
  <2>3. a \div b = d /\ a % b = S
    <3>1. d \in Int
      BY <1>1
    <3> HIDE DEF d
    <3> QED BY <2>1, <2>2, <3>1
  <2>4. a \div b = 2 * Q - M + 1 /\ a % b = R
    BY <1>1, <1>4, <1>8, <2>3
  <2> QED BY <1>6, <1>8, <2>4 DEF a, b, Q, R, M
<1> QED BY <1>7, <1>8 DEF R

\* How each instruction corrects what the last round leaves.
LEMMA LastRoundResult ==
  ASSUME DivInv, Needed, div_round = W + 1
  PROVE  LET q == operand_a \div operand_b
             r == operand_a % operand_b
         IN  /\ inst.op = "DIVU" => div_result = q
             /\ inst.op = "REMU" => div_result = r
             /\ inst.op = "DIV" =>
                  div_result = IF Negative(inst.a) # Negative(inst.b) THEN Negate(q) ELSE q
             /\ inst.op = "REM" /\ ~Negative(inst.a) => div_result = r
<1> DEFINE q == operand_a \div operand_b
           r == operand_a % operand_b
           b == operand_b
           Q == quotient
           R == remainder
           M == Pow2[W]
<1>1. /\ M \in Nat /\ M > 0 /\ SignBit \in Nat /\ SignBit > 0 /\ M = 2 * SignBit
      /\ Q \in 0 .. M - 1 /\ R \in 0 .. M - 1
  BY DivWords, Powers DEF quotient, remainder, DivInv
<1>2. b \in 1 .. SignBit - 1
  BY NeededDivisor DEF DivInv
<1>3. /\ q \in 0 .. M - 1 /\ r \in 0 .. b - 1
      /\ ~Negative(R) => q = 2 * Q - M + 1 /\ r = R
      /\ Negative(R) => q = 2 * Q - M /\ r = R - M + b
  BY LastRemainder
<1>4. div_finish /\ ~divu_finish /\ ~(signed_en /\ special_signed)
  BY DEF div_finish, Needed
<1>5. /\ ~divu_small_large /\ ~divu_large_large /\ (~signed_en => ~special_unsigned)
      /\ (signed_en => ~special_signed)
  BY <1>4 DEF divu_finish
<1>6. ASSUME rem_en PROVE r = IF Negative(R) THEN alu_result ELSE R
  <2>1. alu_result = (R + b) % M
    BY <1>4, <1>6 DEF alu_result, div_sub, div_operand_a, div_operand_b, adder_sum
  <2>2. Negative(R) => (R + b) % M = R - M + b
    <3> SUFFICES ASSUME Negative(R) PROVE (R + b) % M = R - M + b
      OBVIOUS
    <3>1. r = R - M + b
      BY <1>3
    <3> HIDE DEF R, b, r, M
    <3>2. R + b = 1 * M + r /\ r \in 0 .. M - 1 /\ R + b \in Int
      BY <1>1, <1>2, <1>3, <3>1
    <3>3. (R + b) % M = r
      BY <1>1, <3>2, DivModUnique
    <3> QED BY <3>1, <3>3
  <2> QED BY <1>3, <2>1, <2>2
<1>7. CASE inst.op = "DIVU"
  <2>1. div_result = Bits(div_product_next, W - 1, 0)
    BY <1>5, <1>7 DEF div_result, quo_result_unsigned, signed_en
  <2> DEFINE low == Q % SignBit
             next == low * 2 + Flag(~Negative(R))
  <2>2. low \in 0 .. SignBit - 1 /\ Q \div SignBit \in Int /\ Q = (Q \div SignBit) * SignBit + low
    BY <1>1, DivMod
  <2>3. Bits(Q, W - 2, 0) = low
    <3>1. W - 2 \in Int /\ W - 2 + 1 = W - 1 /\ Q \in Int
      BY <1>1, Widths
    <3> QED BY <3>1, BitsLow DEF SignBit
  <2>4. alu_result \in 0 .. M - 1
    BY AluResultType DEF DivInv, Needed
  <2>5. next \in Word
    BY <1>1, <2>2 DEF Flag, Word
  <2>6. div_product_next = alu_result * M + next
    <3>1. div_product_next = alu_result * M + low * 2 + Flag(~Negative(R))
      BY <2>3, Widths DEF div_product_next
    <3>2. alu_result * M \in Int /\ Flag(~Negative(R)) \in Int
      BY <1>1, <2>4 DEF Flag
    <3> HIDE DEF low, R
    <3> QED BY <2>2, <3>1, <3>2
  <2>7. Bits(div_product_next, W - 1, 0) = next
    <3>1. alu_result \in Word
      BY <2>4 DEF Word
    <3> HIDE DEF next
    <3> QED BY <2>5, <2>6, <3>1, Shifted
  <2>8. next = q
    <3>1. Q \div SignBit \in 0 .. 1
      BY <1>1, QuotientBound
    <3>2. Flag(~Negative(R)) = IF Negative(R) THEN 0 ELSE 1
      BY DEF Flag
    <3>3. q = 2 * Q - M + Flag(~Negative(R))
      BY <1>1, <1>3, <3>2
    <3> HIDE DEF q, low, Q, R, M
    <3>4. CASE Q \div SignBit = 0
      BY <1>1, <1>3, <2>2, <3>2, <3>3, <3>4
    <3>5. CASE Q \div SignBit = 1
      BY <1>1, <1>3, <2>2, <3>2, <3>3, <3>5
    <3> QED BY <3>1, <3>4, <3>5
  <2> QED BY <1>7, <2>1, <2>7, <2>8
<1>8. CASE inst.op = "REMU"
  <2>1. rem_en /\ ~signed_en
    BY <1>8 DEF rem_en, signed_en
  <2>2. div_result = IF Negative(R) THEN alu_result ELSE R
    BY <1>5, <1>8, <2>1 DEF div_result, rem_result_unsigned
  <2> QED BY <1>6, <1>8, <2>1, <2>2
<1>9. CASE inst.op = "REM"
  <2>1. rem_en /\ signed_en
    BY <1>9 DEF rem_en, signed_en
  <2>2. ~Negative(inst.a) => div_result = IF Negative(R) THEN alu_result ELSE R
    BY <1>5, <1>9, <2>1 DEF div_result, rem_result_signed
  <2> QED BY <1>6, <1>9, <2>1, <2>2
<1>10. CASE inst.op = "DIV"
  <2>1. ~rem_en /\ signed_en
    BY <1>10 DEF rem_en, signed_en
  <2>2. alu_result = (Q - (M - 1 - Q)) % M
    BY <1>4, <2>1 DEF alu_result, div_sub, div_operand_a, div_operand_b, adder_diff, Complement
  <2> DEFINE ori == adder_diff(alu_result, Flag(Negative(R)))
  <2>3. div_result = IF Negative(inst.a) # Negative(inst.b) THEN Negate(ori) ELSE ori
    BY <1>5, <1>10, <2>1 DEF div_result, quo_result_signed
  <2>4. ori = (alu_result - Flag(Negative(R))) % M
    BY DEF adder_diff
  <2>5. Flag(Negative(R)) = IF Negative(R) THEN 1 ELSE 0
    BY DEF Flag
  <2>6. ori = q
    <3> HIDE DEF ori, q, Q, R, M
    <3> DEFINE d == Q - (M - 1 - Q)
    <3>1. d \in Int /\ d = 2 * Q - M + 1
      BY <1>1
    <3>2. d \div M \in Int /\ d % M \in 0 .. M - 1 /\ d = (d \div M) * M + (d % M)
      BY <1>1, <3>1, DivMod
    <3> HIDE DEF d
    <3>3. d - Flag(Negative(R)) = q
      BY <1>1, <1>3, <2>5, <3>1
    <3>4. (d % M) - Flag(Negative(R)) = (-(d \div M)) * M + q
      BY <1>1, <1>3, <2>5, <3>2, <3>3
    <3>5. ((d % M) - Flag(Negative(R))) % M = q
      <4>1. (d % M) - Flag(Negative(R)) \in Int
        BY <2>5, <3>2
      <4>2. ASSUME NEW u \in Int, (d % M) - Flag(Negative(R)) = u * M + q
            PROVE  ((d % M) - Flag(Negative(R))) % M = q
        BY <1>1, <1>3, <4>1, <4>2, DivModUnique
      <4>3. -(d \div M) \in Int
        BY <3>2
      <4> QED BY <3>4, <4>2, <4>3
    <3> QED BY <2>2, <2>4, <3>5 DEF d
  <2> QED BY <1>10, <2>3, <2>6
<1> QED BY <1>7, <1>8, <1>9, <1>10

\* The RISC-V quotients and remainders, one by one.
LEMMA RiscvDivisions ==
  ASSUME NEW a, NEW b
  PROVE  LET q == Magnitude(a) \div Magnitude(b)
             quo == IF Negative(a) # Negative(b) THEN -q ELSE q
         IN  /\ Riscv("DIVU", a, b) = IF b = 0 THEN Pow2[W] - 1 ELSE a \div b
             /\ Riscv("REMU", a, b) = IF b = 0 THEN a ELSE a % b
             /\ Riscv("DIV", a, b) = IF b = 0 THEN Pow2[W] - 1 ELSE quo % Pow2[W]
             /\ Riscv("REM", a, b)
                  = IF b = 0 THEN a ELSE (Signed(a) - quo * Signed(b)) % Pow2[W]
BY DEF Riscv, Unsigned

\* The signed instructions in magnitudes.
LEMMA RiscvSigned ==
  ASSUME NEW a \in Word, NEW b \in Word, b # 0
  PROVE  LET q == Magnitude(a) \div Magnitude(b)
             r == Magnitude(a) % Magnitude(b)
         IN  /\ Magnitude(b) \in 1 .. SignBit
             /\ q \in 0 .. SignBit
             /\ Riscv("DIV", a, b) = IF Negative(a) # Negative(b) THEN Negate(q) ELSE q
             /\ ~Negative(a) => Riscv("REM", a, b) = r
<1> DEFINE M == Pow2[W]
           x == Magnitude(a)
           y == Magnitude(b)
           q == x \div y
           r == x % y
           quo == IF Negative(a) # Negative(b) THEN -q ELSE q
<1>1. /\ M \in Nat /\ M > 0 /\ SignBit \in Nat /\ SignBit > 0 /\ M = 2 * SignBit
      /\ x \in 0 .. SignBit /\ y \in 1 .. SignBit
  <2>1. /\ M \in Nat /\ M > 0 /\ SignBit \in Nat /\ SignBit > 0 /\ M = 2 * SignBit
    BY Powers
  <2>2. x \in 0 .. SignBit
    BY <2>1, Magnitudes DEF Word
  <2>3. y \in 1 .. SignBit
    BY <2>1, Magnitudes DEF Word
  <2> QED BY <2>1, <2>2, <2>3
<1>2. Signed(b) = IF Negative(b) THEN -y ELSE y
  BY Magnitudes
<1>3. ~Negative(a) => Signed(a) = x
  BY Magnitudes
<1>4. Negate(q) = (M - q) % M
  BY DEF Negate
<1>5. /\ Riscv("DIV", a, b) = quo % M
      /\ Riscv("REM", a, b) = (Signed(a) - quo * Signed(b)) % M
  BY RiscvDivisions
<1> HIDE DEF M, x, y
<1>6. q \in 0 .. x /\ r \in 0 .. y - 1 /\ x = q * y + r
  <2>1. x \in Int /\ y \in Nat /\ y > 0
    BY <1>1
  <2>2. q \in Int /\ r \in 0 .. y - 1 /\ x = q * y + r
    BY <2>1, DivMod
  <2> HIDE DEF q, r
  <2> QED BY <1>1, <2>2
<1> HIDE DEF q, r
<1>7. q % M = q
  BY <1>1, <1>6
<1>8. (-q) % M = (M - q) % M
  <2>1. CASE q = 0
    BY <1>1, <2>1
  <2>2. CASE q # 0
    <3>1. (M - q) % M = M - q
      BY <1>1, <1>6, <2>2
    <3>2. (-q) % M = M - q
      <4> DEFINE v == M - q
      <4>1. -q = (-1) * M + v /\ v \in 0 .. M - 1 /\ -q \in Int
        BY <1>1, <1>6, <2>2
      <4> HIDE DEF v
      <4>2. (-q) % M = v
        BY <1>1, <4>1, DivModUnique
      <4> QED BY <4>2 DEF v
    <3> QED BY <3>1, <3>2
  <2> QED BY <2>1, <2>2
<1>9. Riscv("DIV", a, b) = IF Negative(a) # Negative(b) THEN Negate(q) ELSE q
  BY <1>4, <1>5, <1>7, <1>8
<1>10. ASSUME ~Negative(a) PROVE Riscv("REM", a, b) = r
  <2>1. quo * Signed(b) = q * y
    <3>1. CASE Negative(b)
      <4>1. quo = -q /\ Signed(b) = -y
        BY <1>2, <1>10, <3>1
      <4> HIDE DEF quo
      <4> QED BY <1>1, <1>6, <4>1
    <3>2. CASE ~Negative(b)
      <4>1. quo = q /\ Signed(b) = y
        BY <1>2, <1>10, <3>2 DEF Negative
      <4> QED BY <4>1
    <3> QED BY <3>1, <3>2
  <2> HIDE DEF quo
  <2>2. x - q * y = r
    BY <1>1, <1>6
  <2>3. Riscv("REM", a, b) = r % M
    BY <1>3, <1>5, <1>10, <2>1, <2>2
  <2>4. r % M = r
    BY <1>1, <1>6
  <2> QED BY <2>3, <2>4
<1>11. q \in 0 .. SignBit
  BY <1>1, <1>6
<1> QED BY <1>1, <1>9, <1>10, <1>11 DEF q, r, x, y

\* The shortcuts of the signed instructions.
LEMMA SignedShortcut ==
  ASSUME DivInv, div_en, signed_en, special_signed, Covered
  PROVE  div_result = Riscv(inst.op, inst.a, inst.b)
<1> DEFINE M == Pow2[W]
           a == inst.a
           b == inst.b
           q == Magnitude(a) \div Magnitude(b)
           r == Magnitude(a) % Magnitude(b)
<1>1. /\ M \in Nat /\ M > 0 /\ SignBit \in Nat /\ SignBit > 0 /\ M = 2 * SignBit
      /\ a \in Word /\ b \in Word /\ a \in 0 .. M - 1 /\ b \in 0 .. M - 1
  BY Powers, DivOperands DEF DivInv, Word
<1>2. /\ dividend_zero_signed <=> a \in {0, SignBit}
      /\ divisor_zero_signed <=> b \in {0, SignBit}
  BY SpecialOperands DEF DivInv
<1>3. inst.op \in {"DIV", "REM"}
  BY DEF signed_en
<1>4. /\ Negative(a) <=> a >= SignBit
      /\ Negative(b) <=> b >= SignBit
  BY DEF Negative
<1>5. /\ Magnitude(a) = IF Negative(a) THEN M - a ELSE a
      /\ Magnitude(b) = IF Negative(b) THEN M - b ELSE b
  BY <1>1, Magnitudes
<1>6. CASE inst.op = "DIV"
  <2>1. div_result = IF divisor_zero_signed THEN M - 1 ELSE IF a = 0 THEN 0 ELSE SignBit
    BY <1>6 DEF div_result, quo_result_signed, quo_result_special, dividend_zero_unsigned
  <2>2. b # SignBit /\ (a = SignBit => b \in {0, 1, M - 1})
    BY <1>6 DEF Covered
  <2>3. CASE b = 0
    BY <1>2, <1>6, <2>1, <2>3, RiscvDivisions
  <2>4. CASE b # 0
    <3>1. a \in {0, SignBit} /\ ~divisor_zero_signed
      BY <1>2, <2>2, <2>4 DEF special_signed
    <3>2. /\ Magnitude(b) \in 1 .. SignBit
          /\ Riscv("DIV", a, b) = IF Negative(a) # Negative(b) THEN Negate(q) ELSE q
      BY <1>1, <2>4, RiscvSigned
    <3>3. CASE a = 0
      <4>1. Magnitude(a) = 0
        BY <1>1, <1>4, <1>5, <3>3
      <4>2. q = 0
        BY <1>1, <3>2, <4>1
      <4>3. Negate(0) = 0
        BY <1>1 DEF Negate
      <4> QED BY <1>6, <2>1, <3>1, <3>2, <3>3, <4>2, <4>3
    <3>4. CASE a = SignBit
      <4>1. Magnitude(a) = SignBit /\ Negative(a)
        BY <1>1, <1>4, <1>5, <3>4
      <4>2. Magnitude(b) = 1
        BY <1>1, <1>4, <1>5, <2>2, <2>4, <3>2, <3>4
      <4>3. q = SignBit
        BY <1>1, <4>1, <4>2
      <4>4. Negate(SignBit) = SignBit
        <5>1. (M - SignBit) % M = SignBit
          BY <1>1
        <5> QED BY <5>1 DEF Negate
      <4>5. div_result = SignBit
        BY <1>1, <2>1, <3>1, <3>4
      <4> QED BY <1>6, <3>2, <4>3, <4>4, <4>5
    <3> QED BY <3>1, <3>3, <3>4
  <2> QED BY <2>3, <2>4
<1>7. CASE inst.op = "REM"
  <2>1. ~Negative(a)
    BY <1>7 DEF Covered
  <2>2. div_result = IF divisor_zero_signed THEN a ELSE 0
    BY <1>7 DEF div_result, rem_result_signed, rem_result_special, signed_en
  <2>3. CASE b = 0
    BY <1>2, <1>7, <2>2, <2>3, RiscvDivisions
  <2>4. CASE b # 0
    <3>1. Magnitude(b) \in 1 .. SignBit /\ Riscv("REM", a, b) = r
      BY <1>1, <2>1, <2>4, RiscvSigned
    <3>2. Magnitude(a) = a /\ a < SignBit
      BY <1>1, <1>4, <1>5, <2>1
    <3>3. CASE b = SignBit
      <4>1. Magnitude(b) = SignBit
        BY <1>1, <1>4, <1>5, <3>3
      <4>2. r = a
        BY <1>1, <3>2, <4>1
      <4> QED BY <1>2, <1>7, <2>2, <3>1, <3>3, <4>2
    <3>4. CASE b # SignBit
      <4>1. a = 0 /\ ~divisor_zero_signed
        BY <1>1, <1>2, <2>4, <3>2, <3>4 DEF special_signed
      <4>2. r = 0
        BY <3>1, <3>2, <4>1
      <4> QED BY <1>7, <2>2, <3>1, <4>1, <4>2
    <3> QED BY <3>3, <3>4
  <2> QED BY <2>3, <2>4
<1> QED BY <1>3, <1>6, <1>7

\* The shortcuts of the unsigned instructions.
LEMMA UnsignedShortcut ==
  ASSUME DivInv, div_en, ~signed_en, divu_finish, ~div_finish, Covered
  PROVE  div_result = Riscv(inst.op, inst.a, inst.b)
<1> DEFINE M == Pow2[W]
           a == inst.a
           b == inst.b
<1>1. /\ M \in Nat /\ M > 0 /\ SignBit \in Nat /\ SignBit > 0 /\ M = 2 * SignBit
      /\ a \in 0 .. M - 1 /\ b \in 0 .. M - 1
  BY Powers, DivOperands DEF DivInv, Word
<1>2. divisor_zero_signed <=> b \in {0, SignBit}
  BY SpecialOperands DEF DivInv
<1>3. inst.op \in {"DIVU", "REMU"}
  BY DEF signed_en, div_en, DivOps
<1>4. operand_a = a /\ operand_b = b
  BY DEF operand_a, operand_b
<1>5. /\ div_result = IF inst.op = "DIVU" THEN quo_result_unsigned ELSE rem_result_unsigned
      /\ Riscv(inst.op, a, b)
           = IF inst.op = "DIVU" THEN (IF b = 0 THEN M - 1 ELSE a \div b)
             ELSE (IF b = 0 THEN a ELSE a % b)
  BY <1>3, RiscvDivisions DEF div_result
<1>6. special_unsigned <=> a = 0 \/ b = 0
  BY DEF special_unsigned, dividend_zero_unsigned, divisor_zero_unsigned
<1>7. inst.op = "DIVU" => a # 0 \/ b # SignBit
  BY DEF Covered
<1>8. CASE special_unsigned
  <2>1. /\ quo_result_unsigned
             = IF divisor_zero_signed THEN M - 1 ELSE IF a = 0 THEN 0 ELSE SignBit
        /\ rem_result_unsigned = IF divisor_zero_signed THEN a ELSE 0
    BY <1>8 DEF quo_result_unsigned, quo_result_special, rem_result_unsigned,
                rem_result_special, dividend_zero_unsigned
  <2>2. CASE b = 0
    BY <1>2, <1>5, <2>1, <2>2
  <2>3. CASE b # 0
    <3>1. a = 0
      BY <1>6, <1>8, <2>3
    <3>2. 0 \div b = 0 /\ 0 % b = 0
      BY <1>1, <2>3
    <3>3. CASE inst.op = "DIVU"
      <4>1. ~divisor_zero_signed
        BY <1>2, <1>7, <2>3, <3>1, <3>3
      <4>2. div_result = 0
        BY <1>5, <2>1, <3>1, <3>3, <4>1
      <4>3. Riscv(inst.op, a, b) = a \div b
        BY <1>5, <2>3, <3>3
      <4> QED BY <3>1, <3>2, <4>2, <4>3
    <3>4. CASE inst.op = "REMU"
      <4>1. div_result = 0
        BY <1>5, <2>1, <3>1, <3>4
      <4>2. Riscv(inst.op, a, b) = a % b
        BY <1>5, <2>3, <3>4
      <4> QED BY <3>1, <3>2, <4>1, <4>2
    <3> QED BY <1>3, <3>3, <3>4
  <2> QED BY <2>2, <2>3
<1>9. CASE ~special_unsigned
  <2>1. b # 0
    BY <1>6, <1>9
  <2>2. /\ Negative(a) <=> a >= SignBit
        /\ Negative(b) <=> b >= SignBit
    BY DEF Negative
  <2>3. CASE divu_small_large
    <3>1. quo_result_unsigned = 0 /\ rem_result_unsigned = a
      BY <1>9, <2>3 DEF quo_result_unsigned, rem_result_unsigned
    <3>2. a < b
      BY <1>1, <1>4, <2>2, <2>3 DEF divu_small_large
    <3>3. a \div b = 0 /\ a % b = a
      BY <1>1, <2>1, <3>2
    <3> QED BY <1>5, <2>1, <3>1, <3>3
  <2>4. CASE ~divu_small_large
    <3>1. divu_large_large
      BY <1>9, <2>4 DEF divu_finish
    <3>2. /\ quo_result_unsigned = Flag(~Negative(alu_result))
          /\ rem_result_unsigned = IF Negative(alu_result) THEN a ELSE alu_result
      BY <1>9, <2>4, <3>1 DEF quo_result_unsigned, rem_result_unsigned
    <3>3. alu_result = (a - b) % M
      BY <1>4, <3>1 DEF alu_result, div_sub, div_operand_a, div_operand_b, adder_diff
    <3>4. a >= SignBit /\ b >= SignBit
      BY <1>4, <2>2, <3>1 DEF divu_large_large
    <3>5. CASE a >= b
      <4>1. (a - b) % M = a - b /\ a - b < SignBit
        BY <1>1, <3>4, <3>5
      <4>2. ~Negative(alu_result) /\ Flag(~Negative(alu_result)) = 1
        BY <1>1, <3>3, <4>1 DEF Negative, Flag
      <4>3. a \div b = 1 /\ a % b = a - b
        <5>1. a = 1 * b + (a - b) /\ a - b \in 0 .. b - 1 /\ a \in Int /\ b \in Nat /\ b > 0
          BY <1>1, <3>4, <3>5
        <5> HIDE DEF a, b
        <5> QED BY <5>1, DivModUnique
      <4> QED BY <1>5, <2>1, <3>2, <3>3, <4>1, <4>2, <4>3
    <3>6. CASE a < b
      <4>1. (a - b) % M = (a - b) + M /\ (a - b) + M >= SignBit
        <5> DEFINE v == (a - b) + M
        <5>1. /\ a - b = (-1) * M + v /\ v \in 0 .. M - 1 /\ a - b \in Int /\ v >= SignBit
          BY <1>1, <3>4, <3>6
        <5> HIDE DEF a, b, v, M
        <5>2. (a - b) % M = v
          BY <1>1, <5>1, DivModUnique
        <5> QED BY <5>1, <5>2 DEF v
      <4>2. Negative(alu_result) /\ Flag(~Negative(alu_result)) = 0
        BY <3>3, <4>1 DEF Negative, Flag
      <4>3. a \div b = 0 /\ a % b = a
        BY <1>1, <2>1, <3>6
      <4> QED BY <1>5, <2>1, <3>2, <4>2, <4>3
    <3> QED BY <1>1, <3>5, <3>6
  <2> QED BY <2>3, <2>4
<1> QED BY <1>8, <1>9

\* A division writes the RISC-V quotient or remainder back, for words of any even size
\* and all operands the divider treats as RISC-V does: after all rounds, and by every
\* shortcut (divider_nonrestoring.sv:50-203).
THEOREM QuotientsRight == Spec => []DivResult
<1>1. ASSUME DivInv, WriteBack, div_en, Covered
      PROVE  muldiv_result = Riscv(inst.op, inst.a, inst.b)
  <2>1. round_finish /\ muldiv_result = div_result
    <3>1. ~mulit_en
      BY <1>1 DEF mulit_en, div_en, MulOps, DivOps
    <3> QED BY <1>1, <3>1 DEF WriteBack, multdiv_finish, muldiv_result
  <2>2. CASE signed_en /\ special_signed
    BY <1>1, <2>1, <2>2, SignedShortcut
  <2>3. CASE ~signed_en /\ divu_finish /\ ~div_finish
    BY <1>1, <2>1, <2>3, UnsignedShortcut
  <2>4. CASE Needed /\ div_round = W + 1
    <3>1. inst.a \in Word /\ inst.b \in Word /\ inst.op \in {"DIV", "DIVU", "REM", "REMU"}
      BY <1>1, DivOperands DEF DivInv, div_en, DivOps
    <3>2. operand_b # 0
      BY <1>1, <2>4, NeededDivisor DEF DivInv
    <3>3. CASE inst.op \in {"DIVU", "REMU"}
      <4>1. operand_a = inst.a /\ operand_b = inst.b
        BY <3>3 DEF operand_a, operand_b, signed_en
      <4> QED BY <1>1, <2>1, <2>4, <3>2, <3>3, <4>1, LastRoundResult, RiscvDivisions
    <3>4. CASE inst.op \in {"DIV", "REM"}
      <4>1. operand_a = Magnitude(inst.a) /\ operand_b = Magnitude(inst.b) /\ signed_en
        BY <3>4 DEF operand_a, operand_b, signed_en
      <4>2. inst.b # 0
        BY <1>1, <2>4, <4>1, SpecialOperands DEF Needed, DivInv, special_signed
      <4>3. inst.op = "REM" => ~Negative(inst.a)
        BY <1>1 DEF Covered
      <4> QED BY <1>1, <2>1, <2>4, <3>1, <3>4, <4>1, <4>2, <4>3, LastRoundResult, RiscvSigned
    <3> QED BY <3>1, <3>3, <3>4
  <2> QED BY <1>1, <2>1, <2>2, <2>3, <2>4, WaysToEnd
<1>2. DivInv => DivResult
  BY <1>1 DEF DivResult
<1> QED BY <1>2, DivInvariant, PTL
=============================================================================
