---------------------------- MODULE ProgramFlow ----------------------------
(***************************************************************************)
(* What the core promises a program about control: instructions run along  *)
(* the edges of the program's control-flow graph, the stack is last in,    *)
(* first out, and a subroutine returns behind the call that entered it.    *)
(*                                                                         *)
(* Registers and data are abstracted away: a branch may go either way, a   *)
(* push may push any byte.  One step is one whole instruction; there is no *)
(* fetch, no pending target and no stack page.                             *)
(***************************************************************************)
EXTENDS Bytes, Sequences

CONSTANTS
  Instruction,  \* [Byte -> [exec, addr_mode]]
  Length(_),    \* the length of the instruction with an opcode byte
  StackRoom     \* how many bytes the stack takes

VARIABLES
  code,         \* the program: addresses to bytes; it does not change itself
  at,           \* the address of the next instruction
  stack         \* the bytes on the stack, the last pushed last

flowVars == <<code, at, stack>>

Branch == {"BCC", "BCS", "BEQ", "BMI", "BNE", "BPL", "BVC", "BVS"}

\* Addresses outside the program hold 0.
CodeAt(a)   == IF a \in DOMAIN code THEN code[a] ELSE 0
Name        == Instruction[CodeAt(at)].exec
Mode        == Instruction[CodeAt(at)].addr_mode
Operand     == 256 * CodeAt(at + 2) + CodeAt(at + 1)
Following   == at + Length(CodeAt(at))
Destination == Wrap16(at + 2 + Int8(CodeAt(at + 1)))
Room(n)     == Len(stack) + n <= StackRoom

Straight ==
  /\ Name \notin Branch \cup {"JMP", "JSR", "RTS", "PHA", "PHP", "PLA", "PLP", "TXS", "BRK"}
  /\ at' = Following
  /\ UNCHANGED stack

Choose ==
  /\ Name \in Branch
  /\ at' \in {Following, Destination}
  /\ UNCHANGED stack

Jump ==
  /\ Name = "JMP" /\ Mode = "ABS"
  /\ at' = Operand
  /\ UNCHANGED stack

\* A jump through a table in the program goes where the table says; data may
\* hold any address.
JumpIndirect ==
  /\ Name = "JMP" /\ Mode = "IND"
  /\ at' \in Word
  /\ {Operand, Operand + 1} \subseteq DOMAIN code =>
       at' = 256 * code[Operand + 1] + code[Operand]
  /\ UNCHANGED stack

Push ==
  /\ Name \in {"PHA", "PHP"} /\ Room(1)
  /\ at' = Following
  /\ \E v \in Byte : stack' = Append(stack, v)

Pull ==
  /\ Name \in {"PLA", "PLP"} /\ Len(stack) >= 1
  /\ at' = Following
  /\ stack' = SubSeq(stack, 1, Len(stack) - 1)

\* JSR pushes the address of its own last byte.
Call ==
  /\ Name = "JSR" /\ Room(2)
  /\ at' = Operand
  /\ stack' = stack \o <<(at + 2) \div 256, (at + 2) % 256>>

Return ==
  /\ Name = "RTS" /\ Len(stack) >= 2
  /\ at' = 256 * stack[Len(stack) - 1] + stack[Len(stack)] + 1
  /\ stack' = SubSeq(stack, 1, Len(stack) - 2)

\* Setting the pointer cuts the stack short, or brings back bytes that are behind
\* it; those below stay what they were.
SetPointer ==
  /\ Name = "TXS"
  /\ at' = Following
  /\ stack' \in Seq(Byte) /\ Len(stack') <= StackRoom
  /\ \A i \in DOMAIN stack \cap DOMAIN stack' : stack'[i] = stack[i]

Start == stack = << >>

FlowInit == Start

Step ==
  /\ Straight \/ Choose \/ Jump \/ JumpIndirect \/ Push \/ Pull \/ Call \/ Return \/ SetPointer
  /\ UNCHANGED code

FlowSpec == FlowInit /\ [][Step]_flowVars

=============================================================================
