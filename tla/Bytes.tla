------------------------------- MODULE Bytes -------------------------------
(***************************************************************************)
(* The fixed-width C integers the emulator computes with: uint8_t,         *)
(* uint16_t and the casts between them, and the view of a byte as the set  *)
(* of its bits that are 1, in which the C operators &, | and ^ are set     *)
(* intersection, union and symmetric difference.                           *)
(***************************************************************************)
EXTENDS Integers

Byte == 0..255          \* uint8_t
UINT16_MAX == 65535
Word == 0..UINT16_MAX   \* uint16_t

Wrap8(n)  == n % 256    \* conversion to uint8_t
Wrap16(n) == n % 65536  \* conversion to uint16_t

\* (int8_t)v of a byte, and (int16_t)n of an int.
Int8(v)  == IF v < 128 THEN v ELSE v - 256
Int16(n) == ((n + 32768) % 65536) - 32768

\* The weight of bit i of a byte.
Weight(i) == <<1, 2, 4, 8, 16, 32, 64, 128>>[i + 1]

BitsOf(v) == {i \in 0..7 : (v \div Weight(i)) % 2 = 1}

ByteOf(bits) ==
  LET w(i) == IF i \in bits THEN Weight(i) ELSE 0
  IN  w(0) + w(1) + w(2) + w(3) + w(4) + w(5) + w(6) + w(7)

=============================================================================
