----------------------------- MODULE LoadStore -----------------------------
(***************************************************************************)
(* The load/store unit (rtl/core/load_store_unit.sv): where in a word of   *)
(* memory the bytes of a store go, which bytes it enables, and what a load *)
(* makes of the word.  A word is its four bytes.                           *)
(***************************************************************************)
EXTENDS Integers

CONSTANT ByteMsb   \* the value of a byte's first bit

ASSUME ByteAssumption == ByteMsb \in Nat \ {0}

Byte == 0 .. 2 * ByteMsb - 1
Places == 0 .. 3
MemWord == [Places -> Byte]

\* How many bytes L8, L16 and L32 move, and the offsets in a word at which they
\* may: at any other the unit's outputs are latches ("TODO misaligned").
Lengths == {1, 2, 4}
Offsets(length) == 0 .. 4 - length

-----------------------------------------------------------------------------
\* A byte goes everywhere, half a word to its offset.
data_o(length, offset, data_i) ==
  CASE length = 1 -> [p \in Places |-> data_i[0]]
    [] length = 2 -> [p \in Places |->
                        IF p - offset \in 0 .. 1 THEN data_i[p - offset] ELSE 0]
    [] length = 4 -> data_i

\* Mutant of byte_enable: one byte too many.
byte_enableMore(length, offset) == Places \cap (offset .. offset + length)

byte_enable(length, offset) == offset .. offset + length - 1

\* The bytes from the offset on, and above them zeros or their sign.
result_o(length, offset, signed, line_in) ==
  [p \in Places |->
     IF p < length THEN line_in[p + offset]
     ELSE IF signed /\ line_in[offset + length - 1] >= ByteMsb
     THEN 2 * ByteMsb - 1 ELSE 0]

-----------------------------------------------------------------------------
\* The word of memory after a store to it: the bytes enabled are written.
Stored(line, length, offset, data) ==
  [p \in Places |-> IF p \in byte_enable(length, offset)
                    THEN data_o(length, offset, data)[p] ELSE line[p]]
=============================================================================
