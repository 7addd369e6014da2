---------------------------- MODULE MCSimplenes ----------------------------
(***************************************************************************)
(* A simplenes with a byte of eight values, pages of eight addresses and   *)
(* the memory map of hooks.h in eight of them: the internal memory and its *)
(* mirror, the PPU, the page of the DMA register, and one more.  A         *)
(* behaviour is one of three: main() loads a file of a few bytes, some     *)
(* client of the library loads what it likes, or a program runs on clear   *)
(* memory.                                                                 *)
(***************************************************************************)
EXTENDS Simplenes, NesLoad

CONSTANT FileLen

-----------------------------------------------------------------------------
(* The files.                                                               *)

\* A header, a program and a VROM, all bytes different.
NesFile == [i \in 1..FileLen |-> i]

\* In front of memory[], in it, at its end and past it.
AnyCount == {-2, -1, 0, 1, VramSize, VramSize + 1}

NoVrom ==
  /\ ppu_read = 0 /\ ppu_first = 0 /\ vram = [i \in 0..(VramSize - 1) |-> 0]
  /\ outside = FALSE /\ ppu_errors = 0 /\ ppu_ret = 0

ClientLoadInit == LoadInit /\ main = "client" /\ NoVrom

client_sfot_load == main = "client" /\ sfot_load /\ UNCHANGED <<main, ppu_vars>>

-----------------------------------------------------------------------------
(* The program.                                                             *)

\* A cell of the memory and its mirror, the registers, and a plain cell.
UsedAddresses ==
  {1, 1 + INTERNAL_RAM_MIRROR_SIZE, PPU_CR1_MAP, PPU_CR2_MAP, PPU_STATUS_MAP,
   PPU_MEM_ADDR_MAP, PPU_MEM_DATA_MAP, PPU_SPRITE_DMA_MAP, LastBusAddr}

Bytes8 == 0..7

\* No file: a load has been refused.
RunInit ==
  /\ fd = -1 /\ offset = 0 /\ len = 0 /\ pos = Start /\ errors = 0
  /\ bytes_read = 0 /\ buf = Blank /\ mem = Cleared /\ at = "returned" /\ ret = -1
  /\ main = "program" /\ NoVrom

MCInit == BusInit /\ (NesInit \/ ClientLoadInit \/ RunInit)

MCNext ==
  \/ NesNext /\ UNCHANGED bus_vars
  \/ client_sfot_load /\ UNCHANGED bus_vars
  \/ main = "program" /\ BusNext /\ UNCHANGED nes_vars

MCSpec ==
  /\ MCInit /\ [][MCNext]_<<bus_vars, nes_vars>>
  /\ WF_nes_vars(NesNext) /\ WF_nes_vars(client_sfot_load)

=============================================================================
