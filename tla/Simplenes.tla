----------------------------- MODULE Simplenes -----------------------------
(***************************************************************************)
(* simplenes: the core's memory accesses with the hooks of main() and      *)
(* hooks.c installed, and the PPU behind them.  What an instruction does   *)
(* to memory is a read, a write or an increment, in any order.  The hooks  *)
(* have side effects, so an access is an action here, and a DMA is part of *)
(* the write that asks for it.                                             *)
(*                                                                         *)
(* ImplementsPort of Ppu is a property of this module too: whatever the    *)
(* program does on the bus, an INC or a DMA of the PPU's own page          *)
(* included, the PPU sees as accesses of its port.  Nothing reads the data *)
(* register twice, or moves the VRAM address without such an access.       *)
(***************************************************************************)
EXTENDS Ppu, Bytes

CONSTANTS
  LastBusAddr,                      \* 0xFFFF
  INTERNAL_RAM_MIRROR_STOP, INTERNAL_RAM_MIRROR_SIZE,
  PPU_CR1_MAP, PPU_CR2_MAP, PPU_STATUS_MAP,
  PPU_MEM_ADDR_MAP, PPU_MEM_DATA_MAP, PPU_SPRITE_DMA_MAP,
  Accessed,                      \* the addresses the program uses
  Written,                       \* the values it writes
  MaxAccesses                    \* how many accesses it makes

VARIABLES
  core_mem,     \* mem[] of core.c
  sprite_mem,   \* sprite_mem[] of ppu.c
  accesses,     \* the number of accesses made
  answer        \* what the last read returned

core_vars == <<core_mem, sprite_mem, accesses, answer>>
bus_vars  == <<vars, core_vars>>

CpuAddr == 0..LastBusAddr
CpuByte == 0..(PageSize - 1)

\* The hooks each have an address of their own, behind the mirrored memory.
Hooked == <<PPU_CR1_MAP, PPU_CR2_MAP, PPU_STATUS_MAP, PPU_MEM_ADDR_MAP,
            PPU_MEM_DATA_MAP, PPU_SPRITE_DMA_MAP>>

ASSUME MapAssumption ==
  /\ INTERNAL_RAM_MIRROR_STOP \in Nat
  /\ INTERNAL_RAM_MIRROR_SIZE \in 1..INTERNAL_RAM_MIRROR_STOP
  /\ \A i \in 1..6 : Hooked[i] \in INTERNAL_RAM_MIRROR_STOP..LastBusAddr
  /\ \A i, j \in 1..6 : i # j => Hooked[i] # Hooked[j]
  /\ Accessed \subseteq CpuAddr /\ Written \subseteq CpuByte
  /\ PageSize <= 256 /\ Data = CpuByte /\ LastBusAddr = PageSize * PageSize - 1

-----------------------------------------------------------------------------
(* hooks.c                                                                  *)

mirror(addr, start, size) == (addr % size) + start

\* The end of the mirrored area stands where mirror() wants the memory's size.
mirror_internal_ram(addr) == mirror(addr, 0, INTERNAL_RAM_MIRROR_STOP)

Translate(addr) ==
  IF addr < INTERNAL_RAM_MIRROR_STOP THEN mirror_internal_ram(addr) ELSE addr

-----------------------------------------------------------------------------
(* Reading.  Only the data register of the PPU notices that it is read.     *)

STATUS == (PageSize \div 4) * 3   \* 0xC0 of an 8-bit byte

Count(n) == accesses < MaxAccesses /\ accesses' = accesses + n

\* What MEM_READ returns, after PPU_hook_memdata_read() where that is called.
Answer(addr) ==
  LET a == Translate(addr)
  IN  CASE a = PPU_CR1_MAP      -> ByteOf(PPU_REG_GET("CR1"))
        [] a = PPU_CR2_MAP      -> ByteOf(PPU_REG_GET("CR2"))
        [] a = PPU_STATUS_MAP   -> STATUS
        [] a = PPU_MEM_DATA_MAP -> out'
        [] OTHER                -> core_mem[a]

\* Mutant: the data register is looked at without its hook.
PpuSeesReads_peek(addrs) ==
  /\ out' = memory[memaddr % PPU_SIZE]
  /\ UNCHANGED <<ppu_regs, aborted, memory, memaddr, memaddr_just_setted, set_lower>>

\* The PPU's part in reading a set of addresses, each of them once.
PpuSeesReads(addrs) ==
  IF \E a \in addrs : Translate(a) = PPU_MEM_DATA_MAP
  THEN PPU_hook_memdata_read
  ELSE UNCHANGED vars

MEM_READ(addr) ==
  /\ Count(1)
  /\ PpuSeesReads({addr})
  /\ answer' = Answer(addr)
  /\ UNCHANGED <<core_mem, sprite_mem>>

-----------------------------------------------------------------------------
(* Writing.                                                                 *)

Page(value) == (value * PageSize)..(value * PageSize + PageSize - 1)

\* hook_sprite_dma_write(): a page of memory, read as the program would, goes to
\* the sprite memory, before the value itself is stored.
sfot_do_dma(value) ==
  /\ PpuSeesReads(Page(value))
  /\ sprite_mem' = [i \in DOMAIN sprite_mem |-> Answer(value * PageSize + i)]

\* Mutant: the hook of the data register returns the value, as the others do.
Stored_as_written(a, value) == value

\* What the write hook of an address returns, which goes into mem[].
Stored(a, value) == IF a = PPU_MEM_DATA_MAP THEN 0 ELSE value

\* The write hook of address a, called with a value.
WriteHook(a, value) ==
  \/ a = PPU_CR1_MAP /\ PPU_hook_cr_write("CR1", BitsOf(value)) /\ UNCHANGED sprite_mem
  \/ a = PPU_CR2_MAP /\ PPU_hook_cr_write("CR2", BitsOf(value)) /\ UNCHANGED sprite_mem
  \/ a = PPU_MEM_ADDR_MAP /\ PPU_hook_memaddr_write(value) /\ UNCHANGED sprite_mem
  \/ a = PPU_MEM_DATA_MAP /\ PPU_hook_memdata_write(value) /\ UNCHANGED sprite_mem
  \/ a = PPU_SPRITE_DMA_MAP /\ sfot_do_dma(value)
  \/ /\ a \notin {PPU_CR1_MAP, PPU_CR2_MAP, PPU_MEM_ADDR_MAP, PPU_MEM_DATA_MAP,
                  PPU_SPRITE_DMA_MAP}
     /\ UNCHANGED <<vars, sprite_mem>>

MEM_WRITE(addr, value) ==
  LET a == Translate(addr)
  IN  /\ Count(1)
      /\ WriteHook(a, value)
      /\ core_mem' = [core_mem EXCEPT ![a] = Stored(a, value)]
      /\ UNCHANGED answer

\* MEM_INC counts on from mem[], whatever a read hook of the address would say.
MEM_INC(addr, v) ==
  LET a == Translate(addr)
      value == (core_mem[a] + v) % PageSize
  IN  /\ Count(1)
      /\ WriteHook(a, value)
      /\ core_mem' = [core_mem EXCEPT ![a] = Stored(a, value)]
      /\ UNCHANGED answer

BusInit ==
  /\ Init
  /\ core_mem = [a \in CpuAddr |-> 0]
  /\ sprite_mem = [i \in 0..(PageSize - 1) |-> 0]
  /\ accesses = 0 /\ answer = 0

BusNext ==
  \E addr \in Accessed :
    \/ MEM_READ(addr)
    \/ \E value \in Written : MEM_WRITE(addr, value)
    \/ \E v \in {1, -1} : MEM_INC(addr, v)

BusSpec == BusInit /\ [][BusNext]_bus_vars

-----------------------------------------------------------------------------
\* INC and DEC of a control register of the PPU read mem[] below the read hook:
\* it always holds what the register holds, so they count from there; those of
\* the data register count from 0, whatever the VRAM holds.
ShadowsAgree ==
  /\ core_mem[PPU_CR1_MAP] = ByteOf(ppu_regs["CR1"])
  /\ core_mem[PPU_CR2_MAP] = ByteOf(ppu_regs["CR2"])
  /\ core_mem[PPU_MEM_DATA_MAP] = 0

\* "The amount of physical memory is SIZE.  [...] account that only the
\* translated address will be accessed; ie, from START to SIZE" (hooks.c:8-11):
\* the internal memory appears in each of its mirrors.
MirrorsCoincide ==
  \A addr \in 0..(INTERNAL_RAM_MIRROR_STOP - 1) :
    core_mem[Translate(addr)] = core_mem[Translate(addr % INTERNAL_RAM_MIRROR_SIZE)]

=============================================================================
