----------------------------- MODULE Assembler -----------------------------
(***************************************************************************)
(* What 6502_macros.h is for the C tests: programs as sequences of         *)
(* instructions <<function, addressing mode, operand>>, assembled into the *)
(* memory images the machine is powered on with.                           *)
(***************************************************************************)
EXTENDS OpcodeTable, SequencesExt

RESET_VECTOR == 65532

I(name)          == <<name, "IMP", 0>>
IMM(name, x)     == <<name, "IMM", x>>
ZPA(name, x)     == <<name, "ZPA", x>>
ABS(name, x)     == <<name, "ABS", x>>
REL(name, x)     == <<name, "REL", x>>

opcode_byte(name, mode) ==
  CHOOSE b \in Byte : opcode_names[b] = [exec |-> name, addr_mode |-> mode]

Demux16(x) == <<x % 256, x \div 256>>

Encode(ins) ==
  LET opcode == <<opcode_byte(ins[1], ins[2])>>
  IN  CASE ins[2] \in {"IMP", "ACC"}               -> opcode
        [] ins[2] \in {"ABS", "ABX", "ABY", "IND"} -> opcode \o Demux16(ins[3])
        [] OTHER                                   -> opcode \o <<ins[3] % 256>>

Assemble(program) == FlattenSeq([i \in 1..Len(program) |-> Encode(program[i])])

\* The bytes of a sequence from an address on, as a sparse memory.
At(start, bytes) == [a \in start..(start + Len(bytes) - 1) |-> bytes[a - start + 1]]

\* sfot_load_stream(program, org) and sfot_set_reset(org).
ImageAt(org, program) ==
  At(org, Assemble(program)) @@ At(RESET_VECTOR, Demux16(org))

=============================================================================
