---------------------------- MODULE MCCpuTests ----------------------------
(***************************************************************************)
(* The tests of test/cpu/6502/check.c, run one after the other in any      *)
(* order with the fixture's power-off in between.  The suite's hooks are   *)
(* installed for all of them: only the first test uses the addresses 0 and *)
(* 0x80 they are on.                                                       *)
(***************************************************************************)
EXTENDS Cpu6502, Assembler

VARIABLES
  read_mh_hit_times,    \* what the suite's hooks count
  write_mh_hit_times,
  dma_memory_read       \* of the test's DMA hook

suite_vars == <<read_mh_hit_times, write_mh_hit_times, dma_memory_read>>

EXCEPTION_SUCCESS == 4096
EXCEPTION_FAILURE == 4097
SUCC == ABS("JMP", EXCEPTION_SUCCESS)
FAIL == ABS("JMP", EXCEPTION_FAILURE)

MirrorWithTranslationHook ==
  <<IMM("LDA", 1), ZPA("STA", 128), ZPA("LDA", 128), SUCC>>

CarryOnChainedSBC ==
  <<IMM("LDA", 0), ZPA("STA", 192), IMM("LDA", 3), ZPA("STA", 193),
    IMM("LDA", 255), ZPA("STA", 176), IMM("LDA", 0), ZPA("STA", 177),
    I("CLD"), I("SEC"),
    ZPA("LDA", 192), ZPA("SBC", 176), ZPA("STA", 194),
    ZPA("LDA", 193), ZPA("SBC", 177), ZPA("STA", 195),
    IMM("LDA", 1), ZPA("CMP", 194), REL("BEQ", 3), FAIL,
    IMM("LDA", 2), ZPA("CMP", 195), REL("BEQ", 3), FAIL, SUCC>>

SubroutineCallAndReturn ==
  <<IMM("LDX", 255), I("TXS"), ABS("JSR", 524), FAIL, SUCC,
    I("PLA"), IMM("ADC", 3), I("PHA"), I("RTS")>>

DMA ==
  <<IMM("LDA", 255), ZPA("STA", 51), ZPA("STA", 119), ZPA("STA", 187),
    IMM("LDA", 0), ABS("STA", 1024), SUCC>>

Tests ==
  {ImageAt(512, p) :
     p \in {MirrorWithTranslationHook, CarryOnChainedSBC, SubroutineCallAndReturn, DMA}}

\* transl_mh_mirror on 0x80; read_mh_hit and write_mh_hit on 0, answering 0.
TestTransl    == 128 :> 0
TestReadHook  == 0 :> {0}
TestWriteHook == 0 :> [v \in Byte |-> 0]

-----------------------------------------------------------------------------
(* The counting hooks.  The programs run at 512 and above, so that what       *)
(* comes to 0 are the operands of the instructions that the tests are made   *)
(* of; each of these reads or writes its operand once.                       *)

Reading == {"LDA", "LDX", "ADC", "SBC", "CMP"}
Writing == {"STA"}

\* How often the instructions of a set come to address 0 in this step.
Hits(names) ==
  Cardinality({op \in Dispatched(names) : \E a \in ADDR(mem, op.addr_mode) : Translate(a) = 0})

\* The fixture resets both between two tests.
mh_hit ==
  /\ read_mh_hit_times' = IF phase = "stopped" THEN 0 ELSE read_mh_hit_times + Hits(Reading)
  /\ write_mh_hit_times' = IF phase = "stopped" THEN 0 ELSE write_mh_hit_times + Hits(Writing)

-----------------------------------------------------------------------------
(* The hook of the DMA test, on 0x400, which no other test uses.            *)

Unread == [i \in 0..255 |-> 0]

\* Every read hook of the tests has one answer.
sfot_do_dma(addr) ==
  [i \in 0..255 |-> CHOOSE v \in Byte : v \in MEM_READ(mem, Wrap16(addr + i))]

\* The memory has a cell once something is written to it.
write_mh_trigger_dma ==
  dma_memory_read' =
    IF 1024 \in DOMAIN mem' \ DOMAIN mem THEN sfot_do_dma(mem'[1024] * 256)
    ELSE IF phase = "stopped" THEN Unread
    ELSE dma_memory_read

TestInit ==
  Init /\ read_mh_hit_times = 0 /\ write_mh_hit_times = 0 /\ dma_memory_read = Unread

TestStep == Next /\ mh_hit /\ write_mh_trigger_dma

-----------------------------------------------------------------------------
InTest(p) == \A a \in DOMAIN ImageAt(512, p) : Cell(mem, a) = ImageAt(512, p)[a]

\* CHECK_EXC_RET: a test that has stopped took its exception at the success
\* address, through every jump, branch, call and hook on its way.  The mirrored
\* cell's hooks were called once each, and the DMA test has read back what it has
\* written to the page.
TestSucceeds ==
  phase = "stopped" =>
    /\ exc = EXCEPTION_SUCCESS
    /\ InTest(MirrorWithTranslationHook) => read_mh_hit_times = 1 /\ write_mh_hit_times = 1
    /\ InTest(DMA) => \A i \in 0..255 :
                       dma_memory_read[i] = IF i \in {51, 119, 187} THEN 255 ELSE 0

=============================================================================
