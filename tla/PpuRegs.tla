------------------------------ MODULE PpuRegs ------------------------------
(***************************************************************************)
(* ppu_registers.c: the registers of the PPU and their fields.  A register *)
(* is the set of its bits that are 1, in which a mask is a range of bits,  *)
(* | is union and & intersection.                                          *)
(***************************************************************************)
EXTENDS Integers

CONSTANT
  Values       \* the values callers pass, as sets of bits

VARIABLES
  ppu_regs,    \* ppu_regs[]
  aborted      \* has the assertion of ppu_reg_i_set_field() failed?

regs_vars == <<ppu_regs, aborted>>

Bit == 0..7

ASSUME ValuesAssumption == Values \subseteq SUBSET Bit

PpuReg == {"CR1", "CR2", "SR"}

F(reg, shift, size) == [reg |-> reg, shift |-> shift, size |-> size]

NAME_TABLE_ADDR   == F("CR1", 0, 2)
VERTICAL_WRITE    == F("CR1", 2, 1)
SPRITE_PATT_TABLE == F("CR1", 3, 1)
SCREEN_PATT_TABLE == F("CR1", 4, 1)
SPRITE_SIZE       == F("CR1", 5, 1)
PPU_MASTER_SLAVE  == F("CR1", 6, 1)
VBLANK_ENABLE     == F("CR1", 7, 1)
BYTE0_UNKNOWN     == F("CR2", 0, 1)
IMAGE_MASK        == F("CR2", 1, 1)
SPRITE_MASK       == F("CR2", 2, 1)
SCREEN_ENABLE     == F("CR2", 3, 1)
SPRITES_ENABLE    == F("CR2", 4, 1)
BACKGROUND_COLOR  == F("CR2", 5, 3)
BYTES05_UNKNOWN   == F("SR", 0, 6)
HIT_FLAG          == F("SR", 6, 1)
VBLANK_FLAG       == F("SR", 7, 1)

Field ==
  {NAME_TABLE_ADDR, VERTICAL_WRITE, SPRITE_PATT_TABLE, SCREEN_PATT_TABLE,
   SPRITE_SIZE, PPU_MASTER_SLAVE, VBLANK_ENABLE, BYTE0_UNKNOWN, IMAGE_MASK,
   SPRITE_MASK, SCREEN_ENABLE, SPRITES_ENABLE, BACKGROUND_COLOR,
   BYTES05_UNKNOWN, HIT_FLAG, VBLANK_FLAG}

calculate_mask(shift, size) == shift..(shift + size - 1)

Mask(f) == calculate_mask(f.shift, f.size)

\* val << shift, as an int.
Shifted(val, shift) == {b + shift : b \in val}

\* x <= y, for the numbers whose bits x and y are: the highest bit that they
\* do not share is a bit of y.
AtMost(x, y) == x = y \/ \E b \in y \ x : \A c \in x \ y : c < b

PPU_REG_GET(reg) == ppu_regs[reg]

GetField(bits, f) == {b - f.shift : b \in bits \cap Mask(f)}
PPU_REG_GETF(f)   == GetField(PPU_REG_GET(f.reg), f)

PPU_REG_SET(reg, v) == ppu_regs' = [ppu_regs EXCEPT ![reg] = v]

WithField(bits, f, val) == ((bits \ Mask(f)) \cup Shifted(val, f.shift)) \cap Bit

\* Mutant: the value goes in as it is.
PPU_REG_SETF_unchecked(f, val) ==
  /\ ~aborted
  /\ PPU_REG_SET(f.reg, WithField(PPU_REG_GET(f.reg), f, val))
  /\ UNCHANGED aborted

\* A value too large for the field fails the assertion, which ends the program.
PPU_REG_SETF(f, val) ==
  /\ ~aborted
  /\ \/ /\ AtMost(Shifted(val, f.shift), Mask(f))
        /\ PPU_REG_SET(f.reg, WithField(PPU_REG_GET(f.reg), f, val))
        /\ UNCHANGED aborted
     \/ /\ ~AtMost(Shifted(val, f.shift), Mask(f))
        /\ aborted' = TRUE
        /\ UNCHANGED ppu_regs

RegsInit == ppu_regs = [r \in PpuReg |-> {}] /\ aborted = FALSE

RegsNext ==
  \/ \E f \in Field, val \in Values : PPU_REG_SETF(f, val)
  \/ \E r \in PpuReg, v \in Values :
       ~aborted /\ PPU_REG_SET(r, v) /\ UNCHANGED aborted

RegsSpec == RegsInit /\ [][RegsNext]_regs_vars

-----------------------------------------------------------------------------
\* The fields of a register lie side by side: together they hold the whole
\* register ("all SIZE enums have to sum up 8 and nothing else").
FieldsMakeRegister ==
  \A r \in PpuReg :
    ppu_regs[r] = UNION {Shifted(PPU_REG_GETF(f), f.shift) :
                           f \in {g \in Field : g.reg = r}}

\* Setting a field writes the value there, and no other field of any register
\* notices, whatever the value: the assertion lets none through that reaches
\* into a neighbour.
FieldsIndependent ==
  [][\A f \in Field, val \in Values :
       ~aborted' /\ PPU_REG_SETF(f, val) =>
         /\ PPU_REG_GETF(f)' = val
         /\ \A g \in Field \ {f} : PPU_REG_GETF(g)' = PPU_REG_GETF(g)]_regs_vars

=============================================================================
