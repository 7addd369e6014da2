-------------------------------- MODULE Ppu --------------------------------
(***************************************************************************)
(* ppu.c: the memory hooks by which a program reaches the registers and    *)
(* the VRAM of the PPU.  Each hook is one action.  The sizes that the code *)
(* writes as masks are parameters: a byte of the address has PageSize      *)
(* values (256, the masks 0x00FF and 0xFF00), Pages of which choose a page *)
(* (64, the mask 0x3F), so that & with a mask is the remainder or the      *)
(* multiple of its size.                                                   *)
(***************************************************************************)
EXTENDS PpuRegs

CONSTANTS
  PageSize, Pages,
  Stride,             \* the increment of VERTICAL_WRITE: 32
  Data                \* the bytes written to the VRAM

ASSUME SizeAssumption ==
  /\ PageSize \in Nat /\ PageSize > 1
  /\ Pages \in Nat /\ Pages > 1
  /\ Stride \in Nat /\ Stride <= PageSize
ASSUME DataAssumption == 0 \in Data

VARIABLES
  memory,              \* memory[], the VRAM
  memaddr,
  memaddr_just_setted,
  set_lower,           \* the static of PPU_hook_memaddr_write()
  out                  \* what the last read of the data register returned

vram_vars == <<memory, memaddr, memaddr_just_setted, set_lower, out>>
vars == <<ppu_regs, aborted, memory, memaddr, memaddr_just_setted, set_lower, out>>

PPU_SIZE == Pages * PageSize

Increment(cr1) == IF GetField(cr1, VERTICAL_WRITE) # {} THEN Stride ELSE 1

\* Mutant: an address past the end goes back to the start.
Advanced_reset(addr, increment) ==
  IF addr + increment > PPU_SIZE THEN 0 ELSE addr + increment

\* An address of PPU_SIZE stays; only one past it is taken back.
Advanced(addr, increment) ==
  IF addr + increment > PPU_SIZE THEN (addr + increment) % PPU_SIZE ELSE addr + increment

advance == memaddr' = Advanced(memaddr, Increment(PPU_REG_GET("CR1")))

memread ==
  /\ out' = memory[memaddr % PPU_SIZE]
  /\ advance
  /\ UNCHANGED memory

memwrite(value) ==
  /\ memory' = [memory EXCEPT ![memaddr % PPU_SIZE] = value]
  /\ advance

PPU_hook_cr_write(reg, value) ==
  /\ PPU_REG_SET(reg, value)
  /\ UNCHANGED <<aborted, memory, memaddr, memaddr_just_setted, set_lower, out>>

\* Mutant: all bits of the high byte count.
memaddr_write_unmasked(value) ==
  /\ memaddr_just_setted' = TRUE
  /\ \/ /\ set_lower
        /\ memaddr' = (memaddr \div PageSize) * PageSize + value
        /\ set_lower' = FALSE
     \/ /\ ~set_lower
        /\ memaddr' = (memaddr % PageSize) + value * PageSize
        /\ set_lower' = TRUE
  /\ UNCHANGED <<ppu_regs, aborted, memory, out>>

PPU_hook_memaddr_write(value) ==
  /\ memaddr_just_setted' = TRUE
  /\ \/ /\ set_lower
        /\ memaddr' = (memaddr \div PageSize) * PageSize + value
        /\ set_lower' = FALSE
     \/ /\ ~set_lower
        /\ memaddr' = (memaddr % PageSize) + (value % Pages) * PageSize
        /\ set_lower' = TRUE
  /\ UNCHANGED <<ppu_regs, aborted, memory, out>>

PPU_hook_memdata_read ==
  /\ \/ /\ memaddr_just_setted
        /\ memaddr_just_setted' = FALSE
        /\ out' = 0
        /\ UNCHANGED <<memory, memaddr>>
     \/ /\ ~memaddr_just_setted
        /\ memread
        /\ UNCHANGED memaddr_just_setted
  /\ UNCHANGED <<ppu_regs, aborted, set_lower>>

PPU_hook_memdata_write(value) ==
  /\ memwrite(value)
  /\ UNCHANGED <<ppu_regs, aborted, memaddr_just_setted, set_lower, out>>

Init ==
  /\ RegsInit
  /\ memory = [a \in 0..(PPU_SIZE - 1) |-> 0]
  /\ memaddr = 0
  /\ memaddr_just_setted = FALSE /\ set_lower = FALSE
  /\ out = 0

Next ==
  \/ \E reg \in {"CR1", "CR2"}, value \in Values : PPU_hook_cr_write(reg, value)
  \/ \E value \in 0..(PageSize - 1) : PPU_hook_memaddr_write(value)
  \/ PPU_hook_memdata_read
  \/ \E value \in Data : PPU_hook_memdata_write(value)

Spec == Init /\ [][Next]_vars

-----------------------------------------------------------------------------
\* The VRAM address may reach the end of the VRAM, and a low byte written there
\* goes past it, by less than a page: an index is always taken modulo the size.
TypeOK ==
  /\ memory \in [0..(PPU_SIZE - 1) -> Data]
  /\ memaddr \in 0..(PPU_SIZE + PageSize - 1)
  /\ memaddr_just_setted \in BOOLEAN /\ set_lower \in BOOLEAN
  /\ out \in Data

\* The hooks are a window on the VRAM: the toggle, the carry of the increment
\* from one half of the address to the other, the address that stays on the end
\* of the VRAM and the dummy read never show another byte than the port would.
Port == INSTANCE VramPort WITH
  vram  <- [c \in (0..(Pages - 1)) \X (0..(PageSize - 1)) |->
              memory[c[1] * PageSize + c[2]]],
  page  <- (memaddr \div PageSize) % Pages,
  place <- memaddr % PageSize,
  next  <- IF set_lower THEN "place" ELSE "page",
  step  <- Increment(ppu_regs["CR1"]),
  empty <- memaddr_just_setted

ImplementsPort == Port!PortSpec

=============================================================================
