---------------------------- MODULE PriorityBits ----------------------------
(***************************************************************************)
(* FindHighestSetBit of BlueKernel_lvl3.c, by which the scheduler finds    *)
(* the highest non-empty ready queue in g_ready_bitmap: smear the highest  *)
(* bit downwards, isolate it, and look its number up with a de Bruijn      *)
(* multiplication.  A uint32_t is the set of the positions of its 1 bits.  *)
(***************************************************************************)
EXTENDS Integers, SequencesExt

WIDTH == 32             \* MAX_PRIORITY: one bit per ready queue
Bits == 0..(WIDTH - 1)

(* 0x077CB531 *)
DEBURIJN32 == {0, 4, 5, 8, 10, 12, 13, 15, 18, 19, 20, 21, 22, 24, 25, 26}

ShiftLeft(w, k) == {b \in Bits : b >= k /\ b - k \in w}
ShiftRight(w, k) == {b \in Bits : b + k \in w}

(* w + 1 modulo 2^32: the lowest 0 bit is set, the 1 bits below it cleared. *)
Successor(w) ==
  IF w = Bits THEN {}
  ELSE LET zero == Min(Bits \ w) IN {zero} \cup {b \in w : b > zero}

Digit(w, b) == IF b \in w THEN 1 ELSE 0

(* (w * DEBURIJN32) >> 27 for a power of two or zero. *)
Index(w) ==
  LET product == IF w = {} THEN {} ELSE ShiftLeft(DEBURIJN32, Min(w))
      top == ShiftRight(product, 27)
  IN  Digit(top, 0) + 2 * Digit(top, 1) + 4 * Digit(top, 2)
        + 8 * Digit(top, 3) + 16 * Digit(top, 4)

(* BuildDeBurijnTable: one entry for every bit, from the lowest to the     *)
(* highest, so that of two with one index the higher one would stay.       *)
PriorityTable ==
  [i \in Bits |-> LET entries == {b \in Bits : Index({b}) = i}
                  IN  IF entries = {} THEN 0 ELSE Max(entries)]

(* x |= x >> k *)
Smear(x, k) == x \cup ShiftRight(x, k)
Smeared(x) == Smear(Smear(Smear(Smear(Smear(x, 1), 2), 4), 8), 16)

(* Mutant: the bit is isolated without the carry. *)
FindWithoutCarry(x) == PriorityTable[Index(ShiftRight(Smeared(x), 1))]

(* The bit is isolated by (x + 1) >> 1, which wraps around for bit 31.     *)
FindHighestSetBit(x) ==
  IF x = {} THEN -1
  ELSE PriorityTable[Index(ShiftRight(Successor(Smeared(x)), 1))]

=============================================================================
