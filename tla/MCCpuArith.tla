---------------------------- MODULE MCCpuArith ----------------------------
(***************************************************************************)
(* The programs of CpuArith, assembled with the opcode table of the code,  *)
(* on operands at which a byte or a sign wraps.                            *)
(***************************************************************************)
EXTENDS CpuArith, Assembler

Operands == {0, 1, 127, 128, 255, 256, 257, 32767, 32768, 65280, 65535}

NumberAt(a, n) == At(a, Demux16(n))

Sum(x, y, listing, expected) ==
  ImageAt(ProgramStart, [i \in DOMAIN listing |-> Tail(listing[i])])
    @@ NumberAt(XAt, x) @@ NumberAt(YAt, y) @@ NumberAt(EAt, expected)

Sums ==
  UNION {{Sum(x, y, AddListing, Wrap16(x + y)),
          Sum(x, y, SubListing, Wrap16(x - y)),
          Sum(x, y, NotBelowListing, IF x >= y THEN 1 ELSE 0),
          Sum(x, 0, CopyX \o Doubling, Wrap16(2 * x)),
          Sum(x, 0, CopyX \o Halving, x \div 2),
          Sum(x, 0, CopyX \o CountingUp, Wrap16(x + 1)),
          Sum(x, 0, CopyX \o CountingDown, Wrap16(x - 1)),
          Sum(x % 256, y % 256, TimesListing, (x % 256) * (y % 256))} :
         x, y \in Operands}

NoHooks == [a \in {} |-> 0]

ASSUME SumsAssumption == \A M \in Sums : ArithImage(M)

=============================================================================
