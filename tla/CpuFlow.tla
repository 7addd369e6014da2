------------------------------ MODULE CpuFlow ------------------------------
(***************************************************************************)
(* The core of Cpu6502 seen as the abstract machine of ProgramFlow: the    *)
(* refinement mapping, and the discipline a program has to keep for it.    *)
(***************************************************************************)
EXTENDS Cpu6502

CONSTANT ProgramStart  \* the program is at this address and above

\* The program is behind the stack page, and the opcodes that transfer control
\* have the addressing modes they have in the real table.
ASSUME ProgramAssumption ==
  ProgramStart \in (STACK_PAGE + 256)..(CPU_ADDR_RESERVED_START - 1)
ASSUME ModeAssumption ==
  \A b \in Byte : /\ OpcodeNames[b].exec = "JSR" => OpcodeNames[b].addr_mode = "ABS"
                  /\ OpcodeNames[b].exec \in DOMAIN BranchOn => OpcodeNames[b].addr_mode = "REL"
                  /\ OpcodeNames[b].exec = "JMP" => OpcodeNames[b].addr_mode \in {"ABS", "IND"}

-----------------------------------------------------------------------------
(* The refinement mapping.  SP starts at 0, so the bytes pushed since are   *)
(* at 0x100, 0x1FF, 0x1FE, ... and their number is -SP modulo 256.          *)

StackRoom == 255

Pushed(sp)      == Wrap8(-sp)
PushedOn(M, sp) == [i \in 1..Pushed(sp) |-> Cell(M, StackAddr(Wrap8(1 - i)))]

CodeIn(M) == [a \in {x \in DOMAIN M : x >= ProgramStart} |-> M[a]]

\* A thread that BRK has stopped is still at the BRK.
AtBreak == phase = "stopped" /\ OpcodeNames[Cell(mem, pc)].exec = "BRK"
NextAt  == IF phase = "exec" \/ AtBreak THEN pc ELSE NextPc(Cell(mem, pc))

Flow ==
  INSTANCE ProgramFlow WITH
    Instruction <- OpcodeNames,
    Length <- opcode_len,
    code <- CodeIn(mem),
    at <- NextAt,
    stack <- PushedOn(mem, sreg["SP"])

\* Fetching ahead through a pending target, a stack page addressed modulo 256
\* and return addresses in two bytes amount to ProgramFlow.
FollowsProgramFlow == Flow!FlowSpec

-----------------------------------------------------------------------------
(* Disciplined programs.  They run in the memory at and behind             *)
(* ProgramStart and under the vectors, which no hook covers; they write     *)
(* only data, that is, neither code nor what is on the stack; they keep     *)
(* within the room of the stack; and they never jump to the address that    *)
(* marks no branch.                                                         *)

ProgramUnhooked == \A a \in DOMAIN Transl \cup DOMAIN ReadHook : a < ProgramStart

InProgram == NextAt \in ProgramStart..(CPU_ADDR_RESERVED_START - 1)

\* The rest of the stack page is data as well.
OnStack(sp) == {StackAddr(Wrap8(1 - i)) : i \in 1..Pushed(sp)}
Data        == (0..(ProgramStart - 1)) \ OnStack(sreg["SP"])

OnlyDataChanges ==
  \A a \in (DOMAIN mem \cup DOMAIN mem') \ Data :
    a \in DOMAIN mem \cap DOMAIN mem' /\ mem'[a] = mem[a]

Writers == DOMAIN StoreFrom \cup DOMAIN StepMem \cup DOMAIN ShiftBy

Disciplined ==
  LET n == Pushed(sreg["SP"])
  IN  /\ Dispatched(Writers) # {} => OnlyDataChanges
      /\ Dispatched(DOMAIN PushFrom) # {} => n + 1 <= StackRoom
      /\ Dispatched({"JSR"}) # {} => n + 2 <= StackRoom
      /\ Dispatched(DOMAIN PullInto) # {} => n >= 1
      /\ Dispatched({"RTS"}) # {} => n >= 2
      /\ Dispatched({"JMP", "JSR", "RTS"}) # {} => ADDR_VALID(branch')

=============================================================================
