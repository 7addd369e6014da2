--------------------------- MODULE MCCpuPrograms ---------------------------
(***************************************************************************)
(* Every pair of instructions of an alphabet that has each function of the *)
(* opcode table and each addressing mode, after each of a few preludes, on *)
(* a machine with a volatile register, a write filter and mirrored cells.  *)
(* A pair may jump into the register, overwrite the program, return to an  *)
(* address it never pushed, or address the vectors.                        *)
(***************************************************************************)
EXTENDS Cpu6502, Assembler

REG    == 8192    \* a device register: 0x2000
MIRROR == 8200    \* 0x2008, a mirror of it
SHADOW == 16      \* a mirror of the zero-page cell 0x30
CELL   == 48
PTR    == 64      \* a zero-page pointer to REG

Alphabet ==
  {I("TAX"), I("TXA"), I("TAY"), I("TYA"), I("TSX"), I("TXS"), I("PHA"), I("PHP"),
   I("PLA"), I("PLP"), I("INX"), I("INY"), I("DEX"), I("DEY"), I("CLC"), I("CLD"),
   I("CLI"), I("CLV"), I("SEC"), I("SED"), I("SEI"), I("NOP"), I("RTI"), I("RTS"),
   IMM("LDA", 0), IMM("LDX", 128), IMM("CPX", 1), IMM("CPY", 255),
   IMM("ADC", 127), IMM("SBC", 128), IMM("EOR", 255),
   ABS("LDA", REG), ABS("STA", REG), ABS("INC", REG), ABS("DEC", MIRROR),
   ABS("ASL", REG), ABS("CMP", MIRROR), ABS("BIT", REG), ABS("ORA", MIRROR),
   ABS("ADC", 65535), ABS("ROL", 65535), ABS("STA", 513), ABS("DEC", 512),
   ABS("JMP", REG), ABS("JMP", 65535), ABS("JMP", 65530), ABS("JSR", REG),
   ZPA("STA", SHADOW), ZPA("INC", SHADOW), ZPA("LSR", SHADOW), ZPA("LDY", SHADOW),
   <<"JMP", "IND", PTR>>, <<"AND", "INX", PTR>>, <<"STA", "INY", PTR>>,
   <<"SBC", "ABX", 65535>>, <<"LDA", "ABY", REG>>, <<"ROR", "ACC", 0>>,
   <<"STY", "ZPY", SHADOW>>, <<"STX", "ZPY", SHADOW>>, <<"ORA", "ZPX", SHADOW>>,
   REL("BCC", 1), REL("BCS", 1), REL("BEQ", 1), REL("BNE", -1), REL("BMI", 1),
   REL("BPL", 1), REL("BVC", -2), REL("BVS", 1)}

Preludes ==
  {<< >>,
   <<IMM("LDA", 255), I("PHA"), I("PLP")>>,
   <<IMM("LDA", 127), IMM("LDX", 1), IMM("LDY", 255), I("PHA")>>}

Programs ==
  {ImageAt(512, p \o <<i, j>>) @@ At(PTR, Demux16(REG)) :
     p \in Preludes, i \in Alphabet, j \in Alphabet}

DeviceTransl    == MIRROR :> REG @@ SHADOW :> CELL
DeviceReadHook  == REG :> {0, 169}
DeviceWriteHook == REG :> [v \in Byte |-> v % 64]

=============================================================================
