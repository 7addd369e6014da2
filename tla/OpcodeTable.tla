---------------------------- MODULE OpcodeTable ----------------------------
(***************************************************************************)
(* opcode_names[] of opcodes-private.h: what each of the 256 opcode bytes  *)
(* executes and in which addressing mode.  The table is written by the     *)
(* regular columns of the instruction set; a byte in no column is the      *)
(* source's O_UNKNOWN, a NOP in implied mode.                              *)
(***************************************************************************)
EXTENDS Bytes, Sequences

\* Entries <<opcode byte, function, addressing mode>> of one instruction,
\* given the byte of each of its modes; Col shifts a column by an instruction.
Op(name, modes)    == {<<modes[m], name, m>> : m \in DOMAIN modes}
Col(base, modes)   == [m \in DOMAIN modes |-> base + modes[m]]
Implied(name, b)   == Op(name, [IMP |-> b])

AluNames == <<"ORA", "AND", "EOR", "ADC", "STA", "LDA", "CMP", "SBC">>
AluModes == [INX |-> 1, ZPA |-> 5, IMM |-> 9, ABS |-> 13,
             INY |-> 17, ZPX |-> 21, ABY |-> 25, ABX |-> 29]
Alu == UNION {Op(AluNames[i], Col(32 * (i - 1), AluModes)) : i \in 1..8}
         \ {<<137, "STA", "IMM">>}

ShiftNames == <<"ASL", "ROL", "LSR", "ROR">>
ShiftModes == [ZPA |-> 6, ACC |-> 10, ABS |-> 14, ZPX |-> 22, ABX |-> 30]
StepModes  == [ZPA |-> 6, ABS |-> 14, ZPX |-> 22, ABX |-> 30]
Shifts == UNION {Op(ShiftNames[i], Col(32 * (i - 1), ShiftModes)) : i \in 1..4}
            \cup Op("DEC", Col(192, StepModes)) \cup Op("INC", Col(224, StepModes))

BranchNames == <<"BPL", "BMI", "BVC", "BVS", "BCC", "BCS", "BNE", "BEQ">>
Branches == {<<32 * (i - 1) + 16, BranchNames[i], "REL">> : i \in 1..8}

LowNames  == <<"PHP", "CLC", "PLP", "SEC", "PHA", "CLI", "PLA", "SEI",
               "DEY", "TYA", "TAY", "CLV", "INY", "CLD", "INX", "SED">>
HighNames == <<"TXA", "TXS", "TAX", "TSX", "DEX">>
Singles ==
  UNION {Implied(LowNames[i], 16 * (i - 1) + 8) : i \in 1..16}
    \cup UNION {Implied(HighNames[i], 16 * (i - 1) + 138) : i \in 1..5}
    \cup Implied("NOP", 234) \cup Implied("BRK", 0)
    \cup Implied("RTI", 64) \cup Implied("RTS", 96)

Others ==
  Op("JSR", [ABS |-> 32]) \cup Op("JMP", [ABS |-> 76, IND |-> 108])
    \cup Op("BIT", [ZPA |-> 36, ABS |-> 44])
    \cup Op("STY", [ZPA |-> 132, ABX |-> 140, ZPY |-> 148])
    \cup Op("STX", [ZPA |-> 134, ABS |-> 142, ZPY |-> 150])
    \cup Op("LDY", [IMM |-> 160, ZPA |-> 164, ABS |-> 172, ZPX |-> 180, ABX |-> 188])
    \cup Op("LDX", [IMM |-> 162, ZPA |-> 166, ABS |-> 174, ZPY |-> 182, ABY |-> 190])
    \cup Op("CPY", [IMM |-> 192, ZPA |-> 196, ABS |-> 204])
    \cup Op("CPX", [IMM |-> 224, ZPA |-> 228, ABS |-> 236])

Known == Alu \cup Shifts \cup Branches \cup Singles \cup Others

opcode_names ==
  [b \in Byte |->
     IF \E t \in Known : t[1] = b
     THEN LET t == CHOOSE t \in Known : t[1] = b
          IN  [exec |-> t[2], addr_mode |-> t[3]]
     ELSE [exec |-> "NOP", addr_mode |-> "IMP"]]

=============================================================================
