---------------------------- MODULE MCPpuTests ----------------------------
(***************************************************************************)
(* The tests of test/bin/simplenes/check.c on a PPU of the real size, the  *)
(* two of the VRAM with every start where an address may carry or wrap,    *)
(* and one more for each field of a register: its largest value, and then  *)
(* one that is too large.  A test is a sequence of calls and of            *)
(* comparisons; the harness runs each one in a process of its own, which   *)
(* an assertion ends.                                                      *)
(***************************************************************************)
EXTENDS Ppu, Bytes, Sequences

VARIABLES
  todo,    \* the rest of the test
  passed   \* has every comparison of the test come out right?

Setf(f, v)     == <<[call |-> "setf", field |-> f, bits |-> BitsOf(v)]>>
Aborts(f, v)   == <<[call |-> "setf aborts", field |-> f, bits |-> BitsOf(v)]>>
IsReg(reg, v)  == <<[call |-> "get", reg |-> reg, bits |-> BitsOf(v)]>>
IsField(f, v)  == <<[call |-> "getf", field |-> f, bits |-> BitsOf(v)]>>
SetAddr(a)     == <<[call |-> "memaddr", byte |-> a \div 256],
                    [call |-> "memaddr", byte |-> a % 256]>>
Put(v)         == <<[call |-> "write", byte |-> v]>>
FirstRead      == <<[call |-> "first read"]>>
IsRead(v)      == <<[call |-> "read", byte |-> v]>>

CR1AllSetClearFields ==
  IsReg("CR1", 0)
  \o Setf(NAME_TABLE_ADDR, 3) \o Setf(VERTICAL_WRITE, 1) \o Setf(SPRITE_PATT_TABLE, 1)
  \o IsReg("CR1", 15)
  \o Setf(SCREEN_PATT_TABLE, 1) \o Setf(SPRITE_SIZE, 1)
  \o Setf(PPU_MASTER_SLAVE, 1) \o Setf(VBLANK_ENABLE, 1)
  \o IsReg("CR1", 255)
  \o Setf(NAME_TABLE_ADDR, 0) \o Setf(VERTICAL_WRITE, 0) \o Setf(SPRITE_PATT_TABLE, 0)
  \o IsReg("CR1", 240)
  \o Setf(SCREEN_PATT_TABLE, 0) \o Setf(SPRITE_SIZE, 0)
  \o Setf(PPU_MASTER_SLAVE, 0) \o Setf(VBLANK_ENABLE, 0)
  \o IsReg("CR1", 0)

CR2PatternSetFields ==
  IsReg("CR2", 0)
  \o Setf(BYTE0_UNKNOWN, 1) \o Setf(IMAGE_MASK, 0) \o Setf(SPRITE_MASK, 1)
  \o Setf(SCREEN_ENABLE, 0) \o Setf(SPRITES_ENABLE, 1) \o Setf(BACKGROUND_COLOR, 2)
  \o IsReg("CR2", 85)
  \o Setf(BYTE0_UNKNOWN, 0) \o Setf(IMAGE_MASK, 1) \o Setf(SPRITE_MASK, 0)
  \o Setf(SCREEN_ENABLE, 1) \o Setf(SPRITES_ENABLE, 0) \o Setf(BACKGROUND_COLOR, 5)
  \o IsReg("CR2", 170)

SRSetClearByField ==
  Setf(BYTES05_UNKNOWN, 21) \o IsField(BYTES05_UNKNOWN, 21)
  \o Setf(HIT_FLAG, 1) \o IsField(HIT_FLAG, 1)
  \o Setf(BYTES05_UNKNOWN, 42) \o IsField(BYTES05_UNKNOWN, 42)

\* Not a test of the repository: no test of it passes a value that does not fit.
FieldLimit(f, low) ==
  LET limit == ByteOf({f.size})
  IN  Setf(f, limit - 1) \o IsField(f, limit - 1) \o Aborts(f, limit + low)

\* The addresses wrap around the VRAM, at whose end the tests may start.
At(addr, n) == (addr + n) % 16384

PPUMemoryReadWrite(vertical, addr) ==
  Setf(VERTICAL_WRITE, vertical) \o SetAddr(addr) \o Put(85) \o Put(170) \o Put(51)
  \o SetAddr(addr) \o FirstRead \o IsRead(85) \o IsRead(170) \o IsRead(51)

PPUMemoryJump(vertical, addr) ==
  Setf(VERTICAL_WRITE, vertical) \o SetAddr(addr) \o Put(85) \o Put(170)
  \o SetAddr(At(addr, IF vertical = 1 THEN 32 ELSE 1)) \o FirstRead \o IsRead(170)

\* 0x1555 of check.c, the ends of a page and of the VRAM, and near them.
Starts == {5461, 0, 255, 240, 16383, 16352, 16360, 16128}

Tests ==
  {CR1AllSetClearFields, CR2PatternSetFields, SRSetClearByField}
  \cup {FieldLimit(f, low) : f \in Field, low \in {0, 1}}
  \cup {PPUMemoryReadWrite(v, a) : v \in {0, 1}, a \in Starts}
  \cup {PPUMemoryJump(v, a) : v \in {0, 1}, a \in Starts}

Compare(outcome) == passed' = (passed /\ outcome)

Call(c) ==
  \/ /\ c.call = "setf"
     /\ PPU_REG_SETF(c.field, c.bits) /\ Compare(~aborted') /\ UNCHANGED vram_vars
  \/ /\ c.call = "setf aborts"
     /\ PPU_REG_SETF(c.field, c.bits) /\ Compare(aborted') /\ UNCHANGED vram_vars
  \/ /\ c.call = "get"
     /\ Compare(PPU_REG_GET(c.reg) = c.bits) /\ UNCHANGED vars
  \/ /\ c.call = "getf"
     /\ Compare(PPU_REG_GETF(c.field) = c.bits) /\ UNCHANGED vars
  \/ c.call = "memaddr" /\ PPU_hook_memaddr_write(c.byte) /\ UNCHANGED passed
  \/ c.call = "write" /\ PPU_hook_memdata_write(c.byte) /\ UNCHANGED passed
  \/ c.call = "first read" /\ PPU_hook_memdata_read /\ UNCHANGED passed
  \/ c.call = "read" /\ PPU_hook_memdata_read /\ Compare(out' = c.byte)

RunStep == todo # << >> /\ todo' = Tail(todo) /\ Call(Head(todo))

TestInit == Init /\ todo \in Tests /\ passed = TRUE

TestSpec == TestInit /\ [][RunStep]_<<vars, todo, passed>>

-----------------------------------------------------------------------------
\* Every comparison of the tests of the PPU comes out right: what a program writes
\* to the VRAM it reads back from there, across the ends of pages and of the VRAM,
\* and a field takes its largest value, while one more ends the program.
PpuTestsPass == passed

=============================================================================
