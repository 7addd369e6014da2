------------------------------ MODULE CpuArith ------------------------------
(***************************************************************************)
(* Arithmetic wider than a byte, the way 6502 programs do it: chains of    *)
(* instructions that hand the carry on, across loads, stores, branches and *)
(* loop counters that must leave it alone.  An image holds the operands x  *)
(* and y, a program and the number the program has to arrive at.           *)
(***************************************************************************)
EXTENDS CpuFlow, Sequences

XAt == 16  \* where x is, low byte first
YAt == 18
RAt == 20  \* where the program leaves its result
EAt == 22  \* the expected result

Number(M, a) == 256 * Cell(M, a + 1) + Cell(M, a)

-----------------------------------------------------------------------------
(* The programs, as listings: offset, function, addressing mode, operand.   *)

PerByte(first, op) ==
  <<<<0, first, "IMP", 0>>,
    <<1, "LDA", "ZPA", XAt>>,     <<3, op, "ZPA", YAt>>,     <<5, "STA", "ZPA", RAt>>,
    <<7, "LDA", "ZPA", XAt + 1>>, <<9, op, "ZPA", YAt + 1>>, <<11, "STA", "ZPA", RAt + 1>>,
    <<13, "BRK", "IMP", 0>>>>

AddListing == PerByte("CLC", "ADC")
SubListing == PerByte("SEC", "SBC")

\* 1 if x >= y.
NotBelowListing ==
  <<<<0, "LDA", "ZPA", XAt>>,     <<2, "CMP", "ZPA", YAt>>,
    <<4, "LDA", "ZPA", XAt + 1>>, <<6, "SBC", "ZPA", YAt + 1>>,
    <<8, "LDA", "IMM", 0>>, <<10, "ROL", "ACC", 0>>, <<11, "STA", "ZPA", RAt>>,
    <<13, "BRK", "IMP", 0>>>>

\* Four programs begin with this, and work on the copy.
CopyX ==
  <<<<0, "LDA", "ZPA", XAt>>,     <<2, "STA", "ZPA", RAt>>,
    <<4, "LDA", "ZPA", XAt + 1>>, <<6, "STA", "ZPA", RAt + 1>>>>

Doubling ==
  <<<<8, "ASL", "ZPA", RAt>>, <<10, "ROL", "ZPA", RAt + 1>>, <<12, "BRK", "IMP", 0>>>>

Halving ==
  <<<<8, "LSR", "ZPA", RAt + 1>>, <<10, "ROR", "ZPA", RAt>>, <<12, "BRK", "IMP", 0>>>>

CountingUp ==
  <<<<8, "INC", "ZPA", RAt>>, <<10, "BNE", "REL", 2>>, <<12, "INC", "ZPA", RAt + 1>>,
    <<14, "BRK", "IMP", 0>>>>

CountingDown ==
  <<<<8, "LDA", "ZPA", RAt>>, <<10, "BNE", "REL", 2>>, <<12, "DEC", "ZPA", RAt + 1>>,
    <<14, "DEC", "ZPA", RAt>>, <<16, "BRK", "IMP", 0>>>>

\* The low bytes of x and y, multiplied bit by bit.
TimesListing ==
  <<<<0, "LDA", "IMM", 0>>, <<2, "LDX", "IMM", 8>>,
    <<4, "LSR", "ZPA", XAt>>, <<6, "BCC", "REL", 3>>,
    <<8, "CLC", "IMP", 0>>, <<9, "ADC", "ZPA", YAt>>,
    <<11, "ROR", "ACC", 0>>, <<12, "ROR", "ZPA", RAt>>,
    <<14, "DEX", "IMP", 0>>, <<15, "BNE", "REL", -13>>,
    <<17, "STA", "ZPA", RAt + 1>>, <<19, "BRK", "IMP", 0>>>>

-----------------------------------------------------------------------------
(* The images that hold one of them.                                        *)

\* The listing is in memory, at its offsets from ProgramStart.
Listed(M, listing) ==
  \A i \in DOMAIN listing :
    LET offset == listing[i][1]
        a      == ProgramStart + offset
        op     == OpcodeNames[Cell(M, a)]
        mode   == listing[i][3]
    IN  /\ offset \in Nat /\ a + 1 < CPU_ADDR_RESERVED_START
        /\ op.exec = listing[i][2] /\ op.addr_mode = mode
        /\ mode \notin {"IMP", "ACC"} => Cell(M, a + 1) = Wrap8(listing[i][4])

\* A program, and what it is expected to compute.
Computes(M) ==
  LET x == Number(M, XAt)
      y == Number(M, YAt)
      e == Number(M, EAt)
      Copying(rest) == Listed(M, CopyX) /\ Listed(M, rest)
  IN  \/ Listed(M, AddListing)      /\ e = Wrap16(x + y)
      \/ Listed(M, SubListing)      /\ e = Wrap16(x - y)
      \/ Listed(M, NotBelowListing) /\ e = IF x >= y THEN 1 ELSE 0
      \/ Copying(Doubling)          /\ e = Wrap16(2 * x)
      \/ Copying(Halving)           /\ e = x \div 2
      \/ Copying(CountingUp)        /\ e = Wrap16(x + 1)
      \/ Copying(CountingDown)      /\ e = Wrap16(x - 1)
      \/ Listed(M, TimesListing)    /\ e = Cell(M, XAt) * Cell(M, YAt)

ArithImage(M) ==
  /\ Computes(M)
  /\ Number(M, RAt) = 0
  /\ Number(M, CPU_ADDR_RESET) = ProgramStart

\* When a program ends, it has computed the number it was written for: no
\* carry was lost or invented between the bytes, on either side of a boundary.
WideResult ==
  phase = "stopped" => /\ Cell(mem, RAt) = Cell(mem, EAt)
                       /\ Cell(mem, RAt + 1) = Cell(mem, EAt + 1)

=============================================================================
