-------------------------------- MODULE Alu --------------------------------
(***************************************************************************)
(* The arithmetic of the 6502 core: the flags_update_*() routines of       *)
(* opcodes.c and the results of its arithmetic, logic and shift            *)
(* primitives, as functions of bytes and of the status register.           *)
(*                                                                         *)
(* The status register REG_CPU is the set of its bits that are 1, so       *)
(* GET_FLAG is membership.                                                 *)
(***************************************************************************)
EXTENDS Bytes

FLAG_C == 0
FLAG_Z == 1
FLAG_I == 2
FLAG_D == 3
FLAG_B == 4
FLAG_V == 6
FLAG_N == 7

StatusBit == 0..7

SET_FLAG(p, flag, on) == IF on THEN p \cup {flag} ELSE p \ {flag}
GET_FLAG(p, flag)     == IF flag \in p THEN 1 ELSE 0

\* Mutant: the whole register is rebuilt.
flags_rebuilt_by_value(p, v) ==
  SET_FLAG(SET_FLAG({}, FLAG_Z, v = 0), FLAG_N, Int8(v) < 0)

flags_update_basic_by_value(p, v) ==
  SET_FLAG(SET_FLAG(p, FLAG_Z, v = 0), FLAG_N, Int8(v) < 0)

flags_update_logic_overflow(p, v) ==
  IF 6 \in BitsOf(v) THEN SET_FLAG(p, FLAG_V, TRUE) ELSE p

\* The sum is compared with itself after the same conversions in another order.
ArithOverflow(a, b, factor) ==
  Int16(Int8(a) + Int16(Int8(b) * factor)) # Int16(Int8(a) + Int8(b) * factor)

flags_update_arith_overflow(p, a, b, factor) ==
  SET_FLAG(p, FLAG_V, ArithOverflow(a, b, factor))

flags_update_arith_adc_carry(p, a, b) ==
  SET_FLAG(p, FLAG_C, a + b + GET_FLAG(p, FLAG_C) > 255)

flags_update_arith_sbc_carry(p, a, b) ==
  SET_FLAG(p, FLAG_C, ~(a - b - (1 - GET_FLAG(p, FLAG_C)) < 0))

\* Mutant: off by one.
flags_update_cmp_above(p, a, b) == SET_FLAG(p, FLAG_C, a > b)

flags_update_arith_cmp_carry(p, a, b) == SET_FLAG(p, FLAG_C, a >= b)

flags_update_shrot_carry(p, v, direction) ==
  SET_FLAG(p, FLAG_C, IF direction = 1 THEN v >= 128 ELSE v % 2 = 1)

\* ADC: a + v + carry, and the status it leaves.
AddResult(p, a, v) == Wrap8(a + v + GET_FLAG(p, FLAG_C))
AddFlags(p, a, v) ==
  flags_update_arith_overflow(
    flags_update_arith_adc_carry(
      flags_update_basic_by_value(p, AddResult(p, a, v)), a, v), a, v, 1)

\* Mutant: the carry is subtracted as it is.
SubCarry(p, a, v) == Wrap8(a - v - GET_FLAG(p, FLAG_C))

\* SBC subtracts the complement of the carry; CMP, CPX and CPY do not.
SubResult(p, a, v) == Wrap8(a - v - (1 - GET_FLAG(p, FLAG_C)))
SubFlags(p, a, v) ==
  flags_update_arith_overflow(
    flags_update_arith_sbc_carry(
      flags_update_basic_by_value(p, SubResult(p, a, v)), a, v), a, v, -1)
CmpFlags(p, a, v) ==
  flags_update_arith_cmp_carry(
    flags_update_basic_by_value(p, Wrap8(a - v)), a, v)

\* The operators &, | and ^ of C on bytes.
And(a, b) == ByteOf(BitsOf(a) \cap BitsOf(b))
Ora(a, b) == ByteOf(BitsOf(a) \cup BitsOf(b))
Eor(a, b) == ByteOf((BitsOf(a) \ BitsOf(b)) \cup (BitsOf(b) \ BitsOf(a)))

ShiftResult(v, direction, fill) ==
  IF direction = 1 THEN Wrap8(2 * v) + fill ELSE (v \div 2) + 128 * fill

=============================================================================
