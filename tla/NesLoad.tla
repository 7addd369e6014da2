------------------------------ MODULE NesLoad ------------------------------
(***************************************************************************)
(* simplenes loads a .nes file: main() skips the header, has sfot_load()   *)
(* load the program, ignores its result, and has PPU_load() load the VROM  *)
(* from where the file now is.                                             *)
(*                                                                         *)
(* PPU_load() never sets its bytes_read before it adds to it: what it      *)
(* starts from is what the stack held there, a choice among Garbage.  What *)
(* it stores outside memory[] is not followed, only that it did.           *)
(***************************************************************************)
EXTENDS SfotLoad

CONSTANTS
  PrgOffset, PrgLen,  \* where the program goes: 0xC000, 0x4000
  VramSize,           \* PPU_SIZE, 0x4000
  Garbage             \* what an uninitialised int may hold

ASSUME NesAssumption ==
  /\ PrgOffset \in Addr /\ PrgLen \in Addr /\ PrgOffset + PrgLen <= LastAddr + 1
  /\ VramSize \in Nat \ {0} /\ Garbage \subseteq Int

VARIABLES
  main,        \* where main() is
  ppu_read,    \* bytes_read of PPU_load()
  ppu_first,   \* what it held before the first read()
  vram,        \* memory[] of ppu.c
  outside,     \* has PPU_load() stored outside memory[]?
  ppu_errors,  \* the read() errors of PPU_load()
  ppu_ret      \* what it returned

ppu_vars == <<ppu_read, ppu_first, vram, outside, ppu_errors, ppu_ret>>
nes_vars == <<load_vars, main, ppu_vars>>

main_sfot_load ==
  /\ main = "loads_program"
  /\ sfot_load
  /\ main' = IF at' = "returned" THEN "loads_vrom" ELSE main
  /\ UNCHANGED ppu_vars

PPU_load_call ==
  /\ main = "loads_vrom" /\ main' = "in_PPU_load"
  /\ ppu_first' \in Garbage /\ ppu_read' = ppu_first'
  /\ UNCHANGED <<load_vars, vram, outside, ppu_errors, ppu_ret>>

PPU_return(value) ==
  /\ ppu_ret' = value
  /\ main' = IF value < 0 THEN "failed" ELSE "runs"

PPU_loop_test ==
  IF ppu_read' < 0 THEN PPU_return(-1)
  ELSE IF ppu_read' = VramSize THEN PPU_return(VramSize)
  ELSE UNCHANGED <<ppu_ret, main>>

\* The difference VramSize - bytes_read becomes a size_t: a negative one asks
\* for all there is.
PPU_count == IF ppu_read <= VramSize THEN VramSize - ppu_read ELSE Len(File)

Outside(index, n) == n > 0 /\ (index < 0 \/ index + n > VramSize)

\* Mutants: what is read goes to the start of memory[]; a read() that does not
\* give all is forgotten.
PPU_read_at_start ==
  /\ main = "in_PPU_load"
  /\ \E n \in Given(PPU_count) :
       /\ vram' = Received(vram, 0, n)
       /\ outside' = (outside \/ Outside(0, n))
       /\ ppu_read' = ppu_read + n
       /\ pos' = pos + n
  /\ PPU_loop_test
  /\ UNCHANGED <<fd, offset, len, errors, bytes_read, buf, mem, at, ret, ppu_first, ppu_errors>>

PPU_read_all_at_once ==
  /\ main = "in_PPU_load"
  /\ \E n \in Given(PPU_count) :
       /\ vram' = Received(vram, ppu_read, n)
       /\ outside' = (outside \/ Outside(ppu_read, n))
       /\ ppu_read' = n
       /\ pos' = pos + n
  /\ PPU_loop_test
  /\ UNCHANGED <<fd, offset, len, errors, bytes_read, buf, mem, at, ret, ppu_first, ppu_errors>>

PPU_read_some ==
  /\ main = "in_PPU_load"
  /\ \E n \in Given(PPU_count) :
       /\ vram' = Received(vram, ppu_read, n)
       /\ outside' = (outside \/ Outside(ppu_read, n))
       /\ ppu_read' = ppu_read + n
       /\ pos' = pos + n
  /\ PPU_loop_test
  /\ UNCHANGED <<fd, offset, len, errors, bytes_read, buf, mem, at, ret, ppu_first, ppu_errors>>

PPU_read_error ==
  /\ main = "in_PPU_load" /\ ppu_errors + errors < MaxErrors
  /\ ppu_errors' = ppu_errors + 1
  /\ ppu_read' = ppu_read - 1
  /\ PPU_loop_test
  /\ UNCHANGED <<load_vars, ppu_first, vram, outside>>

NesInit ==
  /\ fd = 3 /\ offset = PrgOffset /\ len = PrgLen
  /\ pos = Start /\ errors = 0
  /\ bytes_read = 0 /\ buf = Blank /\ mem = Cleared
  /\ at = "called" /\ ret = 0
  /\ main = "loads_program"
  /\ ppu_read = 0 /\ ppu_first = 0 /\ vram = [i \in 0..(VramSize - 1) |-> 0]
  /\ outside = FALSE /\ ppu_errors = 0 /\ ppu_ret = 0

NesNext == main_sfot_load \/ PPU_load_call \/ PPU_read_some \/ PPU_read_error

NesSpec == NesInit /\ [][NesNext]_nes_vars

\* One thread, which waits for nothing but read().
FairNesSpec == NesSpec /\ WF_nes_vars(NesNext)

-----------------------------------------------------------------------------
\* Where the loading of the program leaves the file: at the end of the program,
\* and a byte further for each read() that failed; or, when the load has failed as
\* a whole, not behind the program but where its beginning could not be read.
VromStart == Start + IF ret < 0 THEN errors - 1 ELSE PrgLen + errors

\* A count that starts inside memory[] has PPU_load() leave as many bytes as it
\* says out, but for those that errors take it back, and fill all behind them
\* with what is in the file from there on, each byte at most as many bytes late
\* as read() has failed.  Nothing is stored outside.
CountInside == ppu_first \in 0..VramSize

LoadsBehindCount ==
  CountInside =>
    /\ ~outside
    /\ main = "runs" =>
         \A i \in 0..(VramSize - 1) :
           \/ i < ppu_first - ppu_errors /\ vram[i] = 0
           \/ i \in (ppu_first - ppu_errors)..(ppu_first - 1)
           \/ i >= ppu_first /\ \E d \in 0..ppu_errors :
                                  vram[i] = File[VromStart + 1 + (i - ppu_first) + d]

\* "We assume that fd is already lseeked to the beginning of the VROM" (ppu.c:117).
LseekedToVrom == main = "loads_vrom" => pos = Start + PrgLen

\* A file long enough for its program, its VROM and the errors on the way is
\* loaded, and the machine runs or main() reports the failure, unless the count
\* starts outside memory[].
LongEnough == Len(File) - Start >= PrgLen + VramSize + MaxErrors

NesEnds ==
  /\ LongEnough ~> main # "loads_program"
  /\ LongEnough /\ main = "in_PPU_load" /\ CountInside ~> main \in {"runs", "failed"}

=============================================================================
