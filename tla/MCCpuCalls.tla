---------------------------- MODULE MCCpuCalls ----------------------------
(***************************************************************************)
(* Programs with subroutines: leaves and nested calls, registers and flags *)
(* saved on the stack around a call, loops, a jump through a table, the    *)
(* stack pointer set from X, and recursion that fills the stack page.  The *)
(* detailed core is shown to run them as ProgramFlow does.                 *)
(***************************************************************************)
EXTENDS MCCpuArith

\* Subroutines, each at an address of its own.
LEAF == 768  \* INX; RTS
SAVE == 784  \* PHA; PHP; JSR LEAF; PLP; PLA; RTS
LOOP == 800  \* LDY #2; JSR SAVE; DEY; BNE back to JSR; RTS
DOWN == 832  \* DEX; BEQ to RTS; JSR DOWN; RTS
VIA  == 848  \* JMP through the table behind it, to LEAF

Library ==
  At(LEAF, Assemble(<<I("INX"), I("RTS")>>))
    @@ At(SAVE, Assemble(<<I("PHA"), I("PHP"), ABS("JSR", LEAF), I("PLP"), I("PLA"), I("RTS")>>))
    @@ At(LOOP, Assemble(<<IMM("LDY", 2), ABS("JSR", SAVE), I("DEY"), REL("BNE", -6), I("RTS")>>))
    @@ At(VIA, Assemble(<<<<"JMP", "IND", VIA + 3>>>>) \o Demux16(LEAF))
    @@ At(DOWN, Assemble(<<I("DEX"), REL("BEQ", 3), ABS("JSR", DOWN), I("RTS")>>))

Pieces ==
  {<<ABS("JSR", LEAF)>>,
   <<ABS("JSR", SAVE)>>,
   <<ABS("JSR", LOOP)>>,
   <<IMM("LDX", 1), ABS("JSR", DOWN)>>,
   <<IMM("LDX", 127), ABS("JSR", DOWN)>>,
   <<I("PHA"), ABS("JSR", SAVE), I("PLA")>>,
   <<I("PHP"), I("TXA"), I("PHA"), I("PLP"), I("PLA")>>,
   <<I("DEX"), REL("BMI", 3), ABS("JSR", LEAF)>>,
   <<IMM("LDX", 255), I("TXS"), ABS("STA", 272), ABS("JSR", VIA)>>}

Mains == {ImageAt(512, p \o q \o r) @@ Library : p, q, r \in Pieces}

\* The programs that compute run in the same way, branches and loops.
FlowPrograms == Mains \cup Sums

=============================================================================
