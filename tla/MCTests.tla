------------------------------ MODULE MCTests ------------------------------
(***************************************************************************)
(* check_runner.c: the suites of the core and of the PPU.  They have no    *)
(* state in common; here a behaviour is a run of one of them.              *)
(***************************************************************************)
EXTENDS MCCpuTests

VARIABLES
  suite,                            \* the suite that runs
  ppu_regs, aborted,
  memory, memaddr, memaddr_just_setted, set_lower, out,
  todo, passed

cpu_suite == <<vars, suite_vars>>
ppu_suite == <<ppu_regs, aborted, memory, memaddr, memaddr_just_setted, set_lower,
               out, todo, passed>>

\* The PPU has its real size, and the bytes are those of the tests.  No field has
\* more than six bits: of the values, one at least is too large for each.
Ppu == INSTANCE MCPpuTests WITH
  Values <- SUBSET (0..5) \cup {{6}, {0, 6}}, PageSize <- 256, Pages <- 64, Stride <- 32, Data <- {0, 51, 85, 170}

NoPpuTest == Ppu!Init /\ todo = << >> /\ passed = TRUE

SuitesInit ==
  \/ suite = "core" /\ TestInit /\ NoPpuTest
  \/ suite = "PPU" /\ TestInit /\ Ppu!TestInit

SuitesNext ==
  /\ UNCHANGED suite
  /\ \/ suite = "core" /\ TestStep /\ UNCHANGED ppu_suite
     \/ suite = "PPU" /\ Ppu!RunStep /\ UNCHANGED cpu_suite
     \/ suite = "PPU" /\ todo = << >> /\ UNCHANGED <<cpu_suite, ppu_suite>>

SuitesSpec ==
  /\ SuitesInit /\ [][SuitesNext]_<<suite, cpu_suite, ppu_suite>>
  /\ WF_vars(suite = "core" /\ cpu_thread)

\* Every test of the core that starts comes back from sfot_poweron(SFOT_RUN_MAIN):
\* the step callback gets to see its BRK and ends the thread.
TestEnds == suite = "core" /\ phase = "fetch" ~> phase = "stopped"

\* Every comparison of the tests of the PPU comes out right, at the starts of the
\* tests and at those where an address carries into the next page or around the
\* end of the VRAM (ppu.c:36-37, 47-48); a value too large for its field ends them.
TestsPass == Ppu!PpuTestsPass

\* Each field that a test of the PPU sets takes the value and leaves the others
\* alone; a value that does not fit gets into none (PpuRegs).
FieldsIndependent == Ppu!FieldsIndependent

=============================================================================
