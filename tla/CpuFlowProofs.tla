--------------------------- MODULE CpuFlowProofs ---------------------------
(***************************************************************************)
(* Theorems about whole programs: the core runs every disciplined program  *)
(* as ProgramFlow says, and what the programs of CpuArith compute is exact *)
(* on all operands.                                                        *)
(***************************************************************************)
EXTENDS Cpu6502Proofs, CpuArith, SequenceTheorems

-----------------------------------------------------------------------------
(* The stack page as a sequence of bytes.                                   *)

LEMMA SameInterval ==
  \A m, n \in Nat : 1..m = 1..n => m = n
<1> SUFFICES ASSUME NEW m \in Nat, NEW n \in Nat, 1..m = 1..n PROVE m = n
  OBVIOUS
<1>1. (m \in 1..m \/ m = 0) /\ (n \in 1..n \/ n = 0)
  OBVIOUS
<1>2. (m \in 1..n \/ m = 0) /\ (n \in 1..m \/ n = 0)
  BY <1>1, Zenon
<1> QED BY <1>2

LEMMA PushedIsSeq ==
  ASSUME NEW M, IsMemory(M), NEW sp \in Byte
  PROVE  /\ Pushed(sp) \in 0..255
         /\ PushedOn(M, sp) \in Seq(Byte)
         /\ Len(PushedOn(M, sp)) = Pushed(sp)
         /\ \A i \in 1..Pushed(sp) : PushedOn(M, sp)[i] = Cell(M, StackAddr(Wrap8(1 - i)))
<1>1. Pushed(sp) \in 0..255
  BY DEF Pushed, Wrap8, Byte
<1>2. \A i \in 1..Pushed(sp) : Cell(M, StackAddr(Wrap8(1 - i))) \in Byte
  BY DEF Cell, IsMemory, Byte
<1>3. PushedOn(M, sp) \in [1..Pushed(sp) -> Byte]
  BY <1>2 DEF PushedOn
<1>4. PushedOn(M, sp) \in Seq(Byte)
  <2>1. Pushed(sp) \in Nat
    BY <1>1
  <2> QED BY <2>1, <1>3, SeqDef, Zenon
<1>5. 1..Len(PushedOn(M, sp)) = 1..Pushed(sp) /\ Len(PushedOn(M, sp)) \in Nat
  BY <1>3, <1>4, LenProperties
<1>6. Len(PushedOn(M, sp)) = Pushed(sp)
  <2>1. Pushed(sp) \in Nat
    BY <1>1
  <2> QED BY <2>1, <1>5, SameInterval, Zenon
<1> QED BY <1>1, <1>4, <1>6 DEF PushedOn

\* A push appends its byte, at the address that SP names.
LEMMA PushAppends ==
  ASSUME NEW M, IsMemory(M), NEW sp \in Byte, NEW v \in Byte, Pushed(sp) + 1 <= StackRoom
  PROVE  /\ PushedOn(STACK_PUSH(M, sp, v), Wrap8(sp - 1)) = Append(PushedOn(M, sp), v)
         /\ Pushed(Wrap8(sp - 1)) = Pushed(sp) + 1
<1> DEFINE n == Pushed(sp)
           N == STACK_PUSH(M, sp, v)
           s == PushedOn(M, sp)
           t == PushedOn(N, Wrap8(sp - 1))
<1>1. n \in 0..254 /\ Pushed(Wrap8(sp - 1)) = n + 1 /\ Wrap8(1 - (n + 1)) = sp
  BY DEF Pushed, Wrap8, Byte, StackRoom
<1>2. \A i \in 1..n : Wrap8(1 - i) \in Int /\ Wrap8(1 - i) # sp
  BY DEF Pushed, Wrap8, Byte
<1>3. \A i \in 1..n : Cell(N, StackAddr(Wrap8(1 - i))) = Cell(M, StackAddr(Wrap8(1 - i)))
  <2>1. \A i \in 1..n : StackAddr(Wrap8(1 - i)) # StackAddr(sp)
    BY <1>2 DEF StackAddr, STACK_PAGE, Byte
  <2> QED BY <2>1 DEF STACK_PUSH, Store, Cell
<1>4. Cell(N, StackAddr(sp)) = v
  BY DEF STACK_PUSH, Store, Cell
<1>5. /\ s \in Seq(Byte) /\ Len(s) = n
      /\ \A i \in 1..n : s[i] = Cell(M, StackAddr(Wrap8(1 - i)))
  BY PushedIsSeq
<1>6. /\ t \in Seq(Byte) /\ Len(t) = n + 1
      /\ \A i \in 1..(n + 1) : t[i] = Cell(N, StackAddr(Wrap8(1 - i)))
  <2>1. IsMemory(N)
    BY StackTypes
  <2>2. Wrap8(sp - 1) \in Byte
    BY DEF Wrap8, Byte
  <2> QED BY <1>1, <2>1, <2>2, PushedIsSeq
<1> HIDE DEF s, n, N, t
<1>7. /\ Append(s, v) \in Seq(Byte) /\ Len(Append(s, v)) = n + 1
      /\ \A i \in 1..(n + 1) : Append(s, v)[i] = IF i = n + 1 THEN v ELSE s[i]
  BY <1>1, <1>5
<1>8. \A i \in 1..(n + 1) : Cell(N, StackAddr(Wrap8(1 - i))) = IF i = n + 1 THEN v ELSE s[i]
  <2> SUFFICES ASSUME NEW i \in 1..(n + 1)
               PROVE  Cell(N, StackAddr(Wrap8(1 - i))) = IF i = n + 1 THEN v ELSE s[i]
    OBVIOUS
  <2>1. CASE i = n + 1
    BY <2>1, <1>1, <1>4
  <2>2. CASE i # n + 1
    <3>1. i \in 1..n
      BY <2>2, <1>1
    <3> QED BY <3>1, <2>2, <1>3, <1>5
  <2> QED BY <2>1, <2>2
<1>9. t = Append(s, v)
  <2>1. \A i \in 1..Len(t) : t[i] = Append(s, v)[i]
    BY <1>6, <1>7, <1>8
  <2> QED BY <2>1, <1>6, <1>7, SeqEqual
<1> QED BY <1>1, <1>9 DEF s, n, N, t

\* A pop takes the last byte away; it is the one that STACK_POP reads.
LEMMA PopDropsLast ==
  ASSUME NEW M, IsMemory(M), NEW sp \in Byte, Pushed(sp) >= 1
  PROVE  /\ PushedOn(M, Wrap8(sp + 1)) = SubSeq(PushedOn(M, sp), 1, Len(PushedOn(M, sp)) - 1)
         /\ Pushed(Wrap8(sp + 1)) = Pushed(sp) - 1
         /\ STACK_POP(M, sp) = PushedOn(M, sp)[Len(PushedOn(M, sp))]
<1> DEFINE n == Pushed(sp)
           s == PushedOn(M, sp)
<1>1. /\ n \in 1..255 /\ n \in 1..n /\ Pushed(Wrap8(sp + 1)) = n - 1
      /\ Wrap8(1 - n) = Wrap8(sp + 1)
  BY DEF Pushed, Wrap8, Byte
<1>2. /\ s \in Seq(Byte) /\ Len(s) = n
      /\ \A i \in 1..n : s[i] = Cell(M, StackAddr(Wrap8(1 - i)))
  BY PushedIsSeq
<1>3. STACK_POP(M, sp) = s[n]
  BY <1>1, <1>2 DEF STACK_POP
<1>4. PushedOn(M, Wrap8(sp + 1)) = [i \in 1..(n - 1) |-> Cell(M, StackAddr(Wrap8(1 - i)))]
  BY <1>1 DEF PushedOn
<1> HIDE DEF s, n
<1>5. SubSeq(s, 1, n - 1) = [i \in 1..(n - 1) |-> s[i]]
  BY <1>1, <1>2
<1>6. \A i \in 1..(n - 1) : s[i] = Cell(M, StackAddr(Wrap8(1 - i)))
  BY <1>1, <1>2
<1>7. PushedOn(M, Wrap8(sp + 1)) = SubSeq(s, 1, n - 1)
  BY <1>4, <1>5, <1>6
<1> QED BY <1>1, <1>2, <1>3, <1>7 DEF s, n

LEMMA Push16Appends ==
  ASSUME NEW M, IsMemory(M), NEW sp \in Byte, NEW v \in Word, Pushed(sp) + 2 <= StackRoom
  PROVE  PushedOn(STACK_PUSH16(M, sp, v), Wrap8(sp - 2))
           = PushedOn(M, sp) \o <<v \div 256, v % 256>>
<1> DEFINE s == PushedOn(M, sp)
           hi == v \div 256
           lo == v % 256
           N == STACK_PUSH(M, sp, hi)
<1>1. hi \in Byte /\ lo \in Byte
  <2>1. v \in Int /\ 0 <= v /\ v < 256 * 256
    BY WordRange
  <2> HIDE DEF hi, lo
  <2>2. v \div 256 \in 0..255 /\ v % 256 \in 0..255
    BY <2>1
  <2> QED BY <2>2 DEF Byte, hi, lo
<1>2. Wrap8(sp - 1) \in Byte /\ Wrap8(Wrap8(sp - 1) - 1) = Wrap8(sp - 2)
  BY DEF Wrap8, Byte
<1>3. Pushed(sp) + 1 <= StackRoom
  BY PushedIsSeq DEF StackRoom
<1>4. /\ PushedOn(N, Wrap8(sp - 1)) = Append(s, hi)
      /\ Pushed(Wrap8(sp - 1)) = Pushed(sp) + 1
  BY <1>1, <1>3, PushAppends
<1>5. IsMemory(N)
  BY <1>1, StackTypes
<1>6. Pushed(Wrap8(sp - 1)) + 1 <= StackRoom
  BY <1>4, PushedIsSeq DEF StackRoom
<1>7. PushedOn(STACK_PUSH16(M, sp, v), Wrap8(sp - 2)) = Append(Append(s, hi), lo)
  BY <1>1, <1>2, <1>4, <1>5, <1>6, PushAppends DEF STACK_PUSH16
<1>8. s \in Seq(Byte)
  BY PushedIsSeq
<1> HIDE DEF s, hi, lo
<1>9. Append(Append(s, hi), lo) = s \o <<hi, lo>>
  BY <1>1, <1>8
<1> QED BY <1>7, <1>9 DEF s, hi, lo

LEMMA Pop16Drops ==
  ASSUME NEW M, IsMemory(M), NEW sp \in Byte, Pushed(sp) >= 2
  PROVE  LET s == PushedOn(M, sp)
         IN  /\ PushedOn(M, Wrap8(sp + 2)) = SubSeq(s, 1, Len(s) - 2)
             /\ STACK_POP16(M, sp) = 256 * s[Len(s) - 1] + s[Len(s)]
<1> DEFINE s == PushedOn(M, sp)
           u == PushedOn(M, Wrap8(sp + 1))
<1>1. Wrap8(sp + 1) \in Byte /\ Wrap8(Wrap8(sp + 1) + 1) = Wrap8(sp + 2)
  BY DEF Wrap8, Byte
<1>2. s \in Seq(Byte) /\ Len(s) = Pushed(sp) /\ Pushed(sp) \in 2..255
  <2>1. Pushed(sp) \in 0..255
    BY PushedIsSeq
  <2>2. Pushed(sp) \in 2..255
    BY <2>1
  <2> QED BY <2>2, PushedIsSeq
<1>3. /\ u = SubSeq(s, 1, Len(s) - 1) /\ Pushed(Wrap8(sp + 1)) = Pushed(sp) - 1
      /\ STACK_POP(M, sp) = s[Len(s)]
  <2>1. Pushed(sp) >= 1
    BY <1>2
  <2> QED BY <2>1, PopDropsLast
<1>4. /\ PushedOn(M, Wrap8(sp + 2)) = SubSeq(u, 1, Len(u) - 1)
      /\ STACK_POP(M, Wrap8(sp + 1)) = u[Len(u)]
  <2>1. Pushed(Wrap8(sp + 1)) >= 1
    BY <1>2, <1>3
  <2> QED BY <1>1, <2>1, PopDropsLast
<1> HIDE DEF s, u
<1>5. Len(u) = Len(s) - 1 /\ u[Len(u)] = s[Len(s) - 1]
  BY <1>2, <1>3
<1>6. SubSeq(u, 1, Len(u) - 1) = SubSeq(s, 1, Len(s) - 2)
  BY <1>2, <1>3, <1>5
<1> QED BY <1>3, <1>4, <1>5, <1>6 DEF STACK_POP16, s, u

-----------------------------------------------------------------------------
(* Code that is left alone.                                                 *)

LEMMA StartRange ==
  ProgramStart \in Int /\ 512 <= ProgramStart /\ ProgramStart <= 65529
<1>1. STACK_PAGE = 256 /\ CPU_ADDR_RESERVED_START = 65530
  BY DEF STACK_PAGE, CPU_ADDR_RESERVED_START
<1>2. STACK_PAGE \in Int /\ CPU_ADDR_RESERVED_START \in Int
  BY <1>1
<1>3. /\ ProgramStart \in Int /\ STACK_PAGE + 256 <= ProgramStart
      /\ ProgramStart <= CPU_ADDR_RESERVED_START - 1
  BY <1>2, ProgramAssumption
<1> QED BY <1>1, <1>3

SameCode(M, N) ==
  /\ CodeIn(N) = CodeIn(M)
  /\ \A a \in Word : a >= ProgramStart => Cell(N, a) = Cell(M, a)

LEMMA CellsSameCode ==
  ASSUME NEW M, NEW N, IsMemory(M), IsMemory(N),
         \A a \in Word : a >= ProgramStart =>
           (a \in DOMAIN N <=> a \in DOMAIN M) /\ (a \in DOMAIN M => N[a] = M[a])
  PROVE  SameCode(M, N)
<1>1. {x \in DOMAIN N : x >= ProgramStart} = {x \in DOMAIN M : x >= ProgramStart}
  BY DEF IsMemory
<1>2. \A a \in {x \in DOMAIN M : x >= ProgramStart} : N[a] = M[a]
  BY DEF IsMemory
<1>3. CodeIn(N) = CodeIn(M)
  BY <1>1, <1>2 DEF CodeIn
<1>4. \A a \in Word : a >= ProgramStart => Cell(N, a) = Cell(M, a)
  BY DEF Cell
<1> QED BY <1>3, <1>4 DEF SameCode

LEMMA PushSameCode ==
  ASSUME NEW M, IsMemory(M), NEW sp \in Byte, NEW v \in Byte
  PROVE  SameCode(M, STACK_PUSH(M, sp, v))
<1>1. IsMemory(STACK_PUSH(M, sp, v))
  BY StackTypes
<1>2. StackAddr(sp) \in Int /\ StackAddr(sp) < ProgramStart
  BY StartRange DEF StackAddr, STACK_PAGE, Byte
<1>3. \A a \in Word : a >= ProgramStart => a # StackAddr(sp)
  BY <1>2, StartRange, WordRange
<1> QED BY <1>1, <1>3, CellsSameCode DEF STACK_PUSH, Store

LEMMA Push16SameCode ==
  ASSUME NEW M, IsMemory(M), NEW sp \in Byte, NEW v \in Word
  PROVE  SameCode(M, STACK_PUSH16(M, sp, v))
<1>1. v \div 256 \in Byte /\ v % 256 \in Byte
  <2>1. v \in Int /\ 0 <= v /\ v < 256 * 256
    BY WordRange
  <2>2. v \div 256 \in 0..255 /\ v % 256 \in 0..255
    BY <2>1
  <2> QED BY <2>2 DEF Byte
<1>2. Wrap8(sp - 1) \in Byte
  BY DEF Wrap8, Byte
<1>3. IsMemory(STACK_PUSH(M, sp, v \div 256))
  BY <1>1, StackTypes
<1> QED BY <1>1, <1>2, <1>3, PushSameCode DEF STACK_PUSH16, SameCode

\* A write of data disturbs neither the code nor what is on the stack.
LEMMA DataSameCode ==
  ASSUME TypeOK, TypeOK', OnlyDataChanges
  PROVE  SameCode(mem, mem') /\ PushedOn(mem', sreg["SP"]) = PushedOn(mem, sreg["SP"])
<1> DEFINE sp == sreg["SP"]
<1>1. IsMemory(mem) /\ IsMemory(mem')
  BY DEF TypeOK
<1>2. \A a \in Word : a >= ProgramStart \/ a \in OnStack(sp) => a \notin Data
  BY StartRange, WordRange DEF Data
<1>3. \A a \in Word : a >= ProgramStart \/ a \in OnStack(sp) =>
        /\ a \in DOMAIN mem' <=> a \in DOMAIN mem
        /\ a \in DOMAIN mem => mem'[a] = mem[a]
  BY <1>2 DEF OnlyDataChanges
<1>4. SameCode(mem, mem')
  BY <1>1, <1>3, CellsSameCode
<1>5. \A i \in Int : StackAddr(Wrap8(i)) \in Word
  BY WordRange DEF StackAddr, STACK_PAGE, Wrap8
<1>6. ASSUME NEW i \in 1..Pushed(sp)
      PROVE  Cell(mem', StackAddr(Wrap8(1 - i))) = Cell(mem, StackAddr(Wrap8(1 - i)))
  <2>1. Pushed(sp) \in Int
    BY <1>1, RegisterValues, PushedIsSeq
  <2>2. StackAddr(Wrap8(1 - i)) \in Word
    BY <1>5, <2>1
  <2>3. StackAddr(Wrap8(1 - i)) \in OnStack(sp)
    BY DEF OnStack
  <2> QED BY <1>3, <2>2, <2>3 DEF Cell
<1>7. PushedOn(mem', sp) = PushedOn(mem, sp)
  BY <1>6 DEF PushedOn
<1> QED BY <1>4, <1>7

-----------------------------------------------------------------------------
(* Between instructions.                                                    *)

Opcode == Cell(mem, pc)

LEMMA ReadProgram ==
  ASSUME ProgramUnhooked, NEW M, NEW a \in Word, a >= ProgramStart
  PROVE  MEM_READ(M, a) = {Cell(M, a)}
<1>1. a \notin DOMAIN Transl \cup DOMAIN ReadHook
  BY StartRange, WordRange DEF ProgramUnhooked
<1> QED BY <1>1 DEF MEM_READ, Translate

\* The instruction of the core and the one of the abstract machine.
LEMMA Instructions ==
  ASSUME TypeOK, phase = "exec", InProgram, ProgramUnhooked
  PROVE  /\ pc \in Word /\ ProgramStart <= pc /\ pc <= 65529
         /\ Opcode \in Byte
         /\ Dispatched(Exec) = {OpcodeNames[Opcode]}
         /\ Flow!Name = OpcodeNames[Opcode].exec
         /\ Flow!Mode = OpcodeNames[Opcode].addr_mode
         /\ Flow!Following = pc + opcode_len(Opcode)
         /\ Wrap16(pc + opcode_len(Opcode)) = Flow!Following
         /\ Flow!Operand = 256 * Cell(mem, pc + 2) + Cell(mem, pc + 1)
         /\ Flow!Destination = Wrap16(pc + 2 + Int8(Cell(mem, pc + 1)))
<1>1. NextAt = pc
  BY DEF NextAt
<1>2. pc \in Word /\ ProgramStart <= pc /\ pc <= 65529 /\ pc + 1 \in Word /\ pc + 2 \in Word
  BY <1>1, StartRange, WordRange DEF InProgram, CPU_ADDR_RESERVED_START
<1>3. Opcode \in Byte
  BY <1>2 DEF TypeOK, IsMemory, Cell, Opcode, Byte
<1>4. OpcodeNames[Opcode] \in [exec : Exec, addr_mode : AddrMode]
  BY <1>3, TableAssumption
<1>5. Dispatched(Exec) = {OpcodeNames[Opcode]}
  BY <1>2, <1>4, ReadProgram DEF Dispatched, Opcode
<1>6. \A a \in Word : a >= ProgramStart => Flow!CodeAt(a) = Cell(mem, a)
  BY DEF Flow!CodeAt, CodeIn, Cell
<1>7. /\ Flow!CodeAt(pc) = Opcode /\ Flow!CodeAt(pc + 1) = Cell(mem, pc + 1)
      /\ Flow!CodeAt(pc + 2) = Cell(mem, pc + 2)
  <2>1. pc + 1 >= ProgramStart /\ pc + 2 >= ProgramStart /\ pc >= ProgramStart
    BY <1>2, StartRange, WordRange
  <2> QED BY <1>2, <1>6, <2>1 DEF Opcode
<1>8. /\ Flow!Name = OpcodeNames[Opcode].exec
      /\ Flow!Mode = OpcodeNames[Opcode].addr_mode
      /\ Flow!Following = pc + opcode_len(Opcode)
  BY <1>1, <1>7 DEF Flow!Name, Flow!Mode, Flow!Following
<1>9. Flow!Operand = 256 * Cell(mem, pc + 2) + Cell(mem, pc + 1)
  BY <1>1, <1>7 DEF Flow!Operand
<1>10. Flow!Destination = Wrap16(pc + 2 + Int8(Cell(mem, pc + 1)))
  BY <1>1, <1>7 DEF Flow!Destination, Flow!Wrap16, Flow!Int8, Wrap16, Int8
<1>11. opcode_len(Opcode) \in 1..3
  BY DEF opcode_len
<1>12. Wrap16(pc + opcode_len(Opcode)) = pc + opcode_len(Opcode)
  BY <1>2, <1>11, WordRange DEF Wrap16
<1> QED BY <1>2, <1>3, <1>5, <1>8, <1>9, <1>10, <1>12

\* Behind an instruction is its target, or what follows it.
LEMMA Behind ==
  ASSUME TypeOK, phase = "exec", InProgram, ProgramUnhooked,
         Executed, SameCode(mem, mem')
  PROVE  /\ NextAt' = IF ADDR_VALID(branch') THEN branch' ELSE Flow!Following
         /\ CodeIn(mem)' = CodeIn(mem)
<1>1. pc \in Word /\ pc >= ProgramStart /\ Wrap16(pc + opcode_len(Opcode)) = Flow!Following
  BY Instructions
<1>2. Cell(mem, pc)' = Opcode
  <2>1. Cell(mem', pc) = Cell(mem, pc)
    BY <1>1 DEF SameCode
  <2>2. pc' = pc
    BY DEF Executed
  <2> QED BY <2>1, <2>2 DEF Opcode
<1>3. pc' = pc /\ phase' \in {"step", "fetch"}
  BY DEF Executed
<1>4. NextAt' = IF ADDR_VALID(branch') THEN branch' ELSE Wrap16(pc' + opcode_len(Cell(mem, pc)'))
  BY <1>3 DEF NextAt, AtBreak, NextPc
<1>5. NextAt' = IF ADDR_VALID(branch') THEN branch' ELSE Flow!Following
  BY <1>1, <1>2, <1>3, <1>4
<1> QED BY <1>5 DEF SameCode

-----------------------------------------------------------------------------
(* One step per instruction of the abstract machine.                        *)

Transfers == {"JMP", "JSR", "RTS", "PHA", "PHP", "PLA", "PLP", "TXS", "BRK"}

LEMMA SameBranches == Flow!Branch = DOMAIN BranchOn
BY DEF Flow!Branch, BranchOn

LEMMA StraightStep ==
  ASSUME TypeOK, InProgram, ProgramUnhooked, Executed, SameCode(mem, mem'),
         NEW names, names \cap (Transfers \cup DOMAIN BranchOn) = {},
         Dispatched(names) # {}, branch' = branch,
         PushedOn(mem, sreg["SP"])' = PushedOn(mem, sreg["SP"])
  PROVE  Flow!Step
<1>1. PICK op \in Dispatched(names) : TRUE
  OBVIOUS
<1>2. /\ phase = "exec" /\ ~ADDR_VALID(branch)
      /\ op \in Dispatched(Exec) /\ op.exec \in names
  <2>1. phase = "exec" /\ branch = INVALID_ADDRESS /\ op.exec \in Exec /\ op.exec \in names
    BY <1>1, DispatchTypes
  <2> QED BY <1>1, <2>1 DEF Dispatched, ADDR_VALID
<1>3. Flow!Name \in names /\ NextAt' = Flow!Following /\ CodeIn(mem)' = CodeIn(mem)
  BY <1>2, Instructions, Behind
<1>4. Flow!Name \notin Flow!Branch \cup Transfers
  BY <1>3, SameBranches
<1>5. Flow!Straight
  BY <1>3, <1>4 DEF Flow!Straight, Transfers
<1> QED BY <1>3, <1>5 DEF Flow!Step

\* The same for a step whose instruction is one of several names.
LEMMA TransferStep ==
  ASSUME TypeOK, InProgram, ProgramUnhooked, Executed, SameCode(mem, mem'),
         NEW names, NEW op \in Dispatched(names)
  PROVE  /\ Flow!Name = op.exec /\ Flow!Mode = op.addr_mode /\ op.exec \in names
         /\ op = OpcodeNames[Opcode] /\ phase = "exec" /\ ~ADDR_VALID(branch)
         /\ NextAt' = IF ADDR_VALID(branch') THEN branch' ELSE Flow!Following
         /\ CodeIn(mem)' = CodeIn(mem)
<1>2. /\ phase = "exec" /\ ~ADDR_VALID(branch)
      /\ op \in Dispatched(Exec) /\ op.exec \in names
  <2>1. phase = "exec" /\ branch = INVALID_ADDRESS /\ op.exec \in Exec /\ op.exec \in names
    BY DispatchTypes
  <2> QED BY <2>1 DEF Dispatched, ADDR_VALID
<1> QED BY <1>2, Instructions, Behind

LEMMA PushMaps ==
  ASSUME TypeOK, InProgram, ProgramUnhooked, Disciplined, asm_reg2stack
  PROVE  SameCode(mem, mem') /\ Flow!Step
<1> DEFINE sp == sreg["SP"]
<1>1. PICK op \in Dispatched(DOMAIN PushFrom) :
        /\ mem' = STACK_PUSH(mem, sp, GET_SREG(PushFrom[op.exec]))
        /\ MoveSP(-1) /\ Executed /\ branch' = branch
  BY DEF asm_reg2stack
<1>2. GET_SREG(PushFrom[op.exec]) \in Byte /\ op.exec \in {"PHA", "PHP"}
  BY RegisterValues, DispatchTypes DEF PushFrom, ShortReg
<1>3. PICK v \in Byte : mem' = STACK_PUSH(mem, sp, v)
  BY <1>1, <1>2
<1>4. IsMemory(mem) /\ sp \in Byte /\ sreg'["SP"] = Wrap8(sp - 1)
  BY <1>1, RegisterValues DEF TypeOK, MoveSP, ShortReg
<1>5. Pushed(sp) + 1 <= StackRoom
  BY <1>1 DEF Disciplined
<1>6. SameCode(mem, mem')
  BY <1>3, <1>4, PushSameCode
<1>7. PushedOn(mem, sp)' = Append(PushedOn(mem, sp), v)
  BY <1>3, <1>4, <1>5, PushAppends
<1>8. Flow!Name \in {"PHA", "PHP"} /\ NextAt' = Flow!Following /\ CodeIn(mem)' = CodeIn(mem)
  BY <1>1, <1>2, <1>6, TransferStep
<1>9. Flow!Room(1)
  BY <1>4, <1>5, PushedIsSeq DEF Flow!Room
<1>10. v \in Flow!Byte
  BY DEF Flow!Byte, Byte
<1>11. Flow!Push
  BY <1>7, <1>8, <1>9, <1>10 DEF Flow!Push
<1> QED BY <1>6, <1>8, <1>11 DEF Flow!Step

LEMMA PullMaps ==
  ASSUME TypeOK, InProgram, ProgramUnhooked, Disciplined, asm_stack2reg
  PROVE  SameCode(mem, mem') /\ Flow!Step
<1> DEFINE sp == sreg["SP"]
<1>1. PICK op \in Dispatched(DOMAIN PullInto) :
        /\ sreg'["SP"] = Wrap8(sp + 1)
        /\ Executed /\ branch' = branch /\ mem' = mem
  BY DEF asm_stack2reg, MoveSP, TypeOK, ShortReg
<1>2. op.exec \in {"PLA", "PLP"}
  BY DispatchTypes DEF PullInto
<1>3. IsMemory(mem) /\ sp \in Byte
  BY RegisterValues DEF TypeOK
<1>4. Pushed(sp) >= 1
  BY <1>1 DEF Disciplined
<1>5. SameCode(mem, mem')
  BY <1>1 DEF SameCode
<1>6. PushedOn(mem, sp)' = SubSeq(PushedOn(mem, sp), 1, Len(PushedOn(mem, sp)) - 1)
  BY <1>1, <1>3, <1>4, PopDropsLast
<1>7. Flow!Name \in {"PLA", "PLP"} /\ NextAt' = Flow!Following /\ CodeIn(mem)' = CodeIn(mem)
  BY <1>1, <1>2, <1>5, TransferStep
<1>8. Len(PushedOn(mem, sp)) >= 1
  BY <1>3, <1>4, PushedIsSeq
<1>9. Flow!Pull
  BY <1>6, <1>7, <1>8 DEF Flow!Pull
<1> QED BY <1>5, <1>7, <1>9 DEF Flow!Step

LEMMA TargetValid ==
  ASSUME Disciplined, NEW name \in {"JMP", "JSR", "RTS"}, Dispatched({name}) # {}
  PROVE  ADDR_VALID(branch')
<1>1. Dispatched({name}) \subseteq Dispatched({"JMP", "JSR", "RTS"})
  BY DEF Dispatched
<1>2. Dispatched({"JMP", "JSR", "RTS"}) # {}
  BY <1>1
<1> QED BY <1>2 DEF Disciplined

LEMMA CallMaps ==
  ASSUME TypeOK, InProgram, ProgramUnhooked, Disciplined, asm_JSR
  PROVE  SameCode(mem, mem') /\ Flow!Step
<1> DEFINE sp == sreg["SP"]
<1>1. PICK op \in Dispatched({"JSR"}) :
        /\ mem' = STACK_PUSH16(mem, sp, pc + 2) /\ MoveSP(-2)
        /\ branch' \in ADDR(mem', op.addr_mode) /\ Executed
  BY DEF asm_JSR
<1>2. phase = "exec" /\ op.exec = "JSR"
  BY DispatchTypes
<1>3. pc \in Word /\ ProgramStart <= pc /\ pc <= 65529 /\ Opcode \in Byte
  BY <1>2, Instructions
<1>4. IsMemory(mem) /\ sp \in Byte /\ sreg'["SP"] = Wrap8(sp - 2) /\ pc + 2 \in Word
  <2>1. pc + 2 \in Word
    BY <1>3, WordRange
  <2>2. IsMemory(mem) /\ sp \in Byte
    BY RegisterValues DEF TypeOK
  <2>3. sreg'["SP"] = Wrap8(sp + (-2))
    BY <1>1 DEF TypeOK, MoveSP, ShortReg
  <2>4. sp + (-2) = sp - 2
    BY <2>2 DEF Byte
  <2> QED BY <2>1, <2>2, <2>3, <2>4
<1>5. Pushed(sp) + 2 <= StackRoom /\ ADDR_VALID(branch')
  BY <1>1, TargetValid DEF Disciplined
<1>6. SameCode(mem, mem')
  BY <1>1, <1>4, Push16SameCode
<1>7. PushedOn(mem, sp)' = PushedOn(mem, sp) \o <<(pc + 2) \div 256, (pc + 2) % 256>>
  BY <1>1, <1>4, <1>5, Push16Appends
<1>8. /\ Flow!Name = "JSR" /\ op = OpcodeNames[Opcode]
      /\ NextAt' = branch' /\ CodeIn(mem)' = CodeIn(mem)
  BY <1>1, <1>2, <1>5, <1>6, TransferStep
<1>9. op.addr_mode = "ABS"
  BY <1>2, <1>3, <1>8, ModeAssumption
<1>10. /\ pc + 1 \in Word /\ pc + 1 >= ProgramStart /\ pc + 2 >= ProgramStart
       /\ Wrap16(pc + 1 + 1) = pc + 2
  BY <1>3, StartRange, WordRange DEF Wrap16
<1>11. /\ MEM_READ(mem', pc + 1) = {Cell(mem, pc + 1)}
       /\ MEM_READ(mem', pc + 2) = {Cell(mem, pc + 2)}
  BY <1>4, <1>6, <1>10, ReadProgram DEF SameCode
<1>12. branch' = 256 * Cell(mem, pc + 2) + Cell(mem, pc + 1)
  <2>1. branch' \in MEM_READ16(mem', pc + 1)
    BY <1>1, <1>9 DEF ADDR
  <2> QED BY <2>1, <1>10, <1>11 DEF MEM_READ16
<1>13. branch' = Flow!Operand
  BY <1>2, <1>12, Instructions
<1>14. Flow!Room(2) /\ NextAt = pc
  BY <1>2, <1>4, <1>5, PushedIsSeq DEF Flow!Room, NextAt
<1>15. Flow!Call
  BY <1>7, <1>8, <1>13, <1>14 DEF Flow!Call
<1> QED BY <1>6, <1>8, <1>15 DEF Flow!Step

LEMMA ReturnMaps ==
  ASSUME TypeOK, InProgram, InProgram', ProgramUnhooked, Disciplined, asm_RTS
  PROVE  SameCode(mem, mem') /\ Flow!Step
<1> DEFINE sp == sreg["SP"]
           s == PushedOn(mem, sp)
<1>1. PICK op \in Dispatched({"RTS"}) :
        /\ branch' = Wrap16(STACK_POP16(mem, sp) + 1)
        /\ MoveSP(2) /\ Executed /\ mem' = mem
  BY DEF asm_RTS
<1>2. op.exec = "RTS"
  BY DispatchTypes
<1>3. IsMemory(mem) /\ sp \in Byte /\ sreg'["SP"] = Wrap8(sp + 2)
  BY <1>1, RegisterValues DEF TypeOK, MoveSP, ShortReg
<1>4. Pushed(sp) >= 2 /\ ADDR_VALID(branch')
  BY <1>1, TargetValid DEF Disciplined
<1>5. SameCode(mem, mem')
  BY <1>1 DEF SameCode
<1>6. /\ PushedOn(mem, sp)' = SubSeq(s, 1, Len(s) - 2)
      /\ STACK_POP16(mem, sp) = 256 * s[Len(s) - 1] + s[Len(s)]
  BY <1>1, <1>3, <1>4, Pop16Drops
<1>7. Flow!Name = "RTS" /\ NextAt' = branch' /\ CodeIn(mem)' = CodeIn(mem)
  BY <1>1, <1>2, <1>4, <1>5, TransferStep
<1>8. branch' = STACK_POP16(mem, sp) + 1
  <2>1. NextAt' >= ProgramStart
    BY StartRange DEF InProgram, CPU_ADDR_RESERVED_START
  <2>2. STACK_POP16(mem, sp) \in Word
    BY <1>3, StackTypes
  <2>3. Wrap16(STACK_POP16(mem, sp) + 1) >= 512
    BY <2>1, <1>1, <1>7, StartRange, <2>2, WrapTypes, WordRange
  <2> QED BY <2>2, <2>3, <1>1, WordRange DEF Wrap16
<1>9. Len(s) >= 2
  BY <1>3, <1>4, PushedIsSeq
<1>10. Flow!Return
  BY <1>6, <1>7, <1>8, <1>9 DEF Flow!Return
<1> QED BY <1>5, <1>7, <1>10 DEF Flow!Step

LEMMA CellWord ==
  ASSUME NEW M, IsMemory(M), NEW a \in Word, NEW b \in Word
  PROVE  256 * Cell(M, a) + Cell(M, b) \in Word
<1>1. Cell(M, a) \in Byte /\ Cell(M, b) \in Byte
  BY DEF IsMemory, Cell, Byte
<1>2. ASSUME NEW m \in Byte, NEW l \in Byte PROVE 256 * m + l \in Word
  BY WordRange DEF Byte
<1> QED BY <1>1, <1>2

LEMMA FlowWord == Flow!Word = Word
<1>1. Flow!UINT16_MAX = UINT16_MAX
  BY DEF Flow!UINT16_MAX, UINT16_MAX
<1> QED BY <1>1, Zenon DEF Flow!Word, Word

\* Where an indirect jump reads its target, and the target.
LEMMA OperandTypes ==
  ASSUME TypeOK, phase = "exec", InProgram, ProgramUnhooked, branch' \in ADDR(mem, "IND")
  PROVE  branch' \in Flow!Word /\ Flow!Operand \in Word
<1>1. pc + 1 \in Word /\ pc + 2 \in Word
  BY Instructions, StartRange, WordRange
<1>2. branch' \in Word
  BY AddrTypes DEF TypeOK
<1>3. Flow!Operand = 256 * Cell(mem, pc + 2) + Cell(mem, pc + 1)
  BY Instructions
<1>4. IsMemory(mem)
  BY DEF TypeOK
<1>5. Flow!Operand \in Word
  BY <1>1, <1>3, <1>4, CellWord
<1> QED BY <1>2, <1>5, FlowWord, Zenon

LEMMA TableRead ==
  ASSUME TypeOK, ProgramUnhooked, NEW a \in Int, {a, a + 1} \subseteq DOMAIN CodeIn(mem),
         NEW t \in MEM_READ16(mem, a)
  PROVE  t = 256 * (CodeIn(mem)[a + 1]) + CodeIn(mem)[a]
<1>1. /\ a \in DOMAIN mem /\ a + 1 \in DOMAIN mem /\ a >= ProgramStart /\ a + 1 >= ProgramStart
      /\ CodeIn(mem)[a] = Cell(mem, a) /\ CodeIn(mem)[a + 1] = Cell(mem, a + 1)
  BY DEF CodeIn, Cell
<1>2. a \in Word /\ a + 1 \in Word /\ Wrap16(a + 1) = a + 1
  BY <1>1, WordRange DEF TypeOK, IsMemory, Wrap16
<1>3. MEM_READ(mem, a) = {Cell(mem, a)} /\ MEM_READ(mem, a + 1) = {Cell(mem, a + 1)}
  BY <1>1, <1>2, ReadProgram
<1> QED BY <1>1, <1>2, <1>3 DEF MEM_READ16

LEMMA BranchMaps ==
  ASSUME TypeOK, InProgram, ProgramUnhooked, Disciplined, asm_mem2pc
  PROVE  SameCode(mem, mem') /\ Flow!Step
<1>1. PICK op \in Dispatched({"JMP"} \cup DOMAIN BranchOn) :
        /\ \E a \in ADDR(mem, op.addr_mode) : branch' = IF Taken(op.exec) THEN a ELSE branch
        /\ Executed /\ mem' = mem /\ sreg' = sreg
  BY DEF asm_mem2pc
<1>2. SameCode(mem, mem')
  BY <1>1 DEF SameCode
<1>3. PushedOn(mem, sreg["SP"])' = PushedOn(mem, sreg["SP"])
  BY <1>1
<1>4. /\ Flow!Name = op.exec /\ Flow!Mode = op.addr_mode /\ phase = "exec"
      /\ op.exec \in {"JMP"} \cup DOMAIN BranchOn
      /\ op = OpcodeNames[Opcode] /\ ~ADDR_VALID(branch)
      /\ NextAt' = IF ADDR_VALID(branch') THEN branch' ELSE Flow!Following
      /\ CodeIn(mem)' = CodeIn(mem)
  BY <1>1, <1>2, TransferStep
<1>5. pc \in Word /\ ProgramStart <= pc /\ pc <= 65529 /\ Opcode \in Byte
  BY <1>4, Instructions
<1>6. /\ pc + 1 \in Word /\ pc + 2 \in Word /\ pc + 1 >= ProgramStart /\ pc + 2 >= ProgramStart
      /\ Wrap16(pc + 1 + 1) = pc + 2
  BY <1>5, StartRange, WordRange DEF Wrap16
<1>7. /\ MEM_READ(mem, pc + 1) = {Cell(mem, pc + 1)}
      /\ MEM_READ(mem, pc + 2) = {Cell(mem, pc + 2)}
  BY <1>6, ReadProgram
<1>8. CASE op.exec = "JMP"
  <2>1. ADDR_VALID(branch') /\ NextAt' = branch'
    <3>1. op \in Dispatched({"JMP"})
      BY <1>1, <1>8 DEF Dispatched
    <3> QED BY <1>4, <3>1, TargetValid
  <2>2. branch' \in ADDR(mem, op.addr_mode)
    BY <1>1, <1>8 DEF Taken, BranchOn
  <2>3. MEM_READ16(mem, pc + 1) = {Flow!Operand}
    <3>1. MEM_READ16(mem, pc + 1) = {256 * Cell(mem, pc + 2) + Cell(mem, pc + 1)}
      BY <1>6, <1>7 DEF MEM_READ16
    <3> QED BY <3>1, <1>4, Instructions
  <2>4. CASE op.addr_mode = "ABS"
    <3>1. branch' = Flow!Operand
      BY <2>2, <2>3, <2>4 DEF ADDR
    <3>2. Flow!Jump
      BY <1>3, <1>4, <1>8, <2>1, <2>4, <3>1 DEF Flow!Jump
    <3> QED BY <3>2, <1>2, <1>4 DEF Flow!Step
  <2>5. CASE op.addr_mode = "IND"
    <3>1. branch' \in MEM_READ16(mem, Flow!Operand)
      BY <2>2, <2>3, <2>5 DEF ADDR
    <3>2. branch' \in Flow!Word /\ Flow!Operand \in Int
      BY <1>4, <2>2, <2>5, OperandTypes, WordRange
    <3>3. ASSUME {Flow!Operand, Flow!Operand + 1} \subseteq DOMAIN CodeIn(mem)
          PROVE  branch' = 256 * (CodeIn(mem)[Flow!Operand + 1]) + CodeIn(mem)[Flow!Operand]
      BY <3>1, <3>2, <3>3, TableRead
    <3>4. Flow!JumpIndirect
      BY <1>3, <1>4, <1>8, <2>1, <2>5, <3>2, <3>3 DEF Flow!JumpIndirect
    <3> QED BY <3>4, <1>2, <1>4 DEF Flow!Step
  <2> QED BY <1>4, <1>5, <1>8, <2>4, <2>5, ModeAssumption
<1>9. CASE op.exec \in DOMAIN BranchOn
  <2>1. op.addr_mode = "REL"
    BY <1>4, <1>5, <1>9, ModeAssumption
  <2>2. ADDR(mem, "REL") = {Wrap16(pc + 2 + Int8(Cell(mem, pc + 1)))}
    BY <1>7 DEF ADDR
  <2>3. branch' \in {Flow!Destination, branch}
    BY <1>1, <1>4, <2>1, <2>2, Instructions
  <2>4. Flow!Choose
    BY <1>3, <1>4, <1>9, <2>3, SameBranches DEF Flow!Choose
  <2> QED BY <2>4, <1>2, <1>4 DEF Flow!Step
<1> QED BY <1>4, <1>8, <1>9

\* TXS keeps the bytes that are on the stack before and after.
LEMMA SetPointerMaps ==
  ASSUME TypeOK, TypeOK', InProgram, ProgramUnhooked, asm_reg2reg, Dispatched({"TXS"}) # {}
  PROVE  SameCode(mem, mem') /\ Flow!Step
<1> DEFINE s == PushedOn(mem, sreg["SP"])
           t == PushedOn(mem', sreg'["SP"])
<1>1. PICK op \in Dispatched({"TXS"}) : TRUE
  OBVIOUS
<1>2. Executed /\ mem' = mem /\ branch' = branch
  BY DEF asm_reg2reg
<1>3. SameCode(mem, mem')
  BY <1>2 DEF SameCode
<1>4. /\ Flow!Name = "TXS" /\ ~ADDR_VALID(branch)
      /\ NextAt' = IF ADDR_VALID(branch') THEN branch' ELSE Flow!Following
      /\ CodeIn(mem)' = CodeIn(mem)
  BY <1>1, <1>2, <1>3, TransferStep
<1>5. IsMemory(mem) /\ sreg["SP"] \in Byte /\ sreg'["SP"] \in Byte
  BY DEF TypeOK, ShortReg
<1>6. t \in Seq(Byte) /\ Len(t) = Pushed(sreg'["SP"]) /\ Pushed(sreg'["SP"]) \in 0..255
  BY <1>2, <1>5, PushedIsSeq
<1>11. \A i \in DOMAIN t : t[i] = Cell(mem, StackAddr(Wrap8(1 - i)))
  BY <1>2 DEF PushedOn
<1>7. \A i \in DOMAIN s : s[i] = Cell(mem, StackAddr(Wrap8(1 - i)))
  BY DEF PushedOn
<1>8. t \in Seq(Flow!Byte) /\ Len(t) <= StackRoom
  <2>1. Flow!Byte = Byte
    BY Zenon DEF Flow!Byte, Byte
  <2>2. \A n \in 0..255 : n <= StackRoom
    BY DEF StackRoom
  <2> HIDE DEF t
  <2>3. Len(t) <= StackRoom
    BY <1>6, <2>2, Zenon
  <2>4. t \in Seq(Flow!Byte)
    BY <1>6, <2>1, Zenon
  <2> QED BY <2>3, <2>4
<1>9. PushedOn(mem, sreg["SP"])' = t
  OBVIOUS
<1> HIDE DEF s, t
<1>10. Flow!SetPointer
  BY <1>2, <1>4, <1>7, <1>8, <1>9, <1>11 DEF Flow!SetPointer, s
<1> QED BY <1>3, <1>4, <1>10 DEF Flow!Step

LEMMA StraightNames ==
  \A names \in {DOMAIN LoadInto, DOMAIN StoreFrom, DOMAIN Transfer \ {"TXS"}, {"AND", "BIT"},
                {"EOR", "ORA"}, {"ADC"}, {"SBC"}, DOMAIN CompareWith, DOMAIN StepMem,
                DOMAIN StepReg, DOMAIN ShiftBy, DOMAIN SetsFlag, {"NOP", "RTI"}} :
    names \cap (Transfers \cup DOMAIN BranchOn) = {}
BY DEF LoadInto, StoreFrom, Transfer, CompareWith, StepMem, StepReg, ShiftBy, SetsFlag,
       Transfers, BranchOn

\* An instruction that changes registers other than SP, or flags.
LEMMA StillMaps ==
  ASSUME TypeOK, InProgram, ProgramUnhooked, Executed, branch' = branch, mem' = mem,
         sreg'["SP"] = sreg["SP"],
         NEW names, names \cap (Transfers \cup DOMAIN BranchOn) = {}, Dispatched(names) # {}
  PROVE  SameCode(mem, mem') /\ Flow!Step
<1>1. SameCode(mem, mem')
  BY DEF SameCode
<1>2. PushedOn(mem, sreg["SP"])' = PushedOn(mem, sreg["SP"])
  OBVIOUS
<1> QED BY <1>1, <1>2, StraightStep

\* An instruction that writes memory.
LEMMA WriteMaps ==
  ASSUME TypeOK, TypeOK', InProgram, ProgramUnhooked, Disciplined, Executed, branch' = branch,
         sreg'["SP"] = sreg["SP"], NEW names \in SUBSET Writers,
         names \cap (Transfers \cup DOMAIN BranchOn) = {}, Dispatched(names) # {}
  PROVE  SameCode(mem, mem') /\ Flow!Step
<1>1. Dispatched(names) \subseteq Dispatched(Writers)
  BY DEF Dispatched
<1>2. OnlyDataChanges
  BY <1>1 DEF Disciplined
<1>3. SameCode(mem, mem') /\ PushedOn(mem', sreg["SP"]) = PushedOn(mem, sreg["SP"])
  BY <1>2, DataSameCode, RegisterValues
<1> QED BY <1>3, StraightStep

LEMMA KeepsSP ==
  ASSUME TypeOK, NEW r \in {"ACC", "X", "Y"}, NEW v, SetRegister(r, v)
  PROVE  sreg'["SP"] = sreg["SP"]
BY DEF SetRegister, TypeOK, ShortReg

LEMMA StraightMaps ==
  ASSUME TypeOK, TypeOK', InProgram, ProgramUnhooked, Disciplined,
         \/ asm_mem2reg \/ asm_reg2mem \/ asm_reg2reg \/ asm_logic_and \/ asm_logic_eor_ora
         \/ asm_arith_add \/ asm_arith_sub \/ asm_arith_cmp \/ asm_inc_mem \/ asm_inc_reg
         \/ asm_shrot \/ asm_flag \/ asm_NOP
  PROVE  SameCode(mem, mem') /\ Flow!Step
<1>1. CASE asm_mem2reg
  <2>1. PICK op \in Dispatched(DOMAIN LoadInto) : \E v : SetRegister(LoadInto[op.exec], v)
    BY <1>1 DEF asm_mem2reg
  <2>2. LoadInto[op.exec] \in {"ACC", "X", "Y"}
    BY DispatchTypes DEF LoadInto
  <2> QED BY <1>1, <2>1, <2>2, KeepsSP, StraightNames, StillMaps DEF asm_mem2reg
<1>2. CASE asm_reg2mem
  <2>1. DOMAIN StoreFrom \in SUBSET Writers
    BY DEF Writers
  <2> QED BY <1>2, <2>1, StraightNames, WriteMaps DEF asm_reg2mem
<1>3. CASE asm_reg2reg
  <2>1. PICK op \in Dispatched(DOMAIN Transfer) :
          SetRegister(Transfer[op.exec][1], sreg[Transfer[op.exec][2]])
    BY <1>3 DEF asm_reg2reg
  <2>2. CASE op.exec = "TXS"
    <3>1. op \in Dispatched({"TXS"})
      BY <2>1, <2>2 DEF Dispatched
    <3> QED BY <1>3, <3>1, SetPointerMaps
  <2>3. CASE op.exec # "TXS"
    <3>1. Transfer[op.exec][1] \in {"ACC", "X", "Y"}
      BY <2>3, DispatchTypes DEF Transfer
    <3>2. sreg'["SP"] = sreg["SP"]
      BY <2>1, <3>1, KeepsSP
    <3>3. op \in Dispatched(DOMAIN Transfer \ {"TXS"})
      BY <2>1, <2>3 DEF Dispatched
    <3> QED BY <1>3, <3>2, <3>3, StraightNames, StillMaps DEF asm_reg2reg
  <2> QED BY <2>2, <2>3
<1>4. CASE asm_logic_and
  <2>1. sreg'["SP"] = sreg["SP"]
    BY <1>4 DEF asm_logic_and, TypeOK, ShortReg
  <2> QED BY <1>4, <2>1, StraightNames, StillMaps DEF asm_logic_and
<1>5. CASE asm_logic_eor_ora
  <2>1. sreg'["SP"] = sreg["SP"]
    BY <1>5 DEF asm_logic_eor_ora, TypeOK, ShortReg
  <2> QED BY <1>5, <2>1, StraightNames, StillMaps DEF asm_logic_eor_ora
<1>6. CASE asm_arith_add
  <2>1. sreg'["SP"] = sreg["SP"]
    BY <1>6 DEF asm_arith_add, TypeOK, ShortReg
  <2> QED BY <1>6, <2>1, StraightNames, StillMaps DEF asm_arith_add
<1>7. CASE asm_arith_sub
  <2>1. sreg'["SP"] = sreg["SP"]
    BY <1>7 DEF asm_arith_sub, TypeOK, ShortReg
  <2> QED BY <1>7, <2>1, StraightNames, StillMaps DEF asm_arith_sub
<1>8. CASE asm_arith_cmp
  BY <1>8, StraightNames, StillMaps DEF asm_arith_cmp
<1>9. CASE asm_inc_mem
  <2>1. DOMAIN StepMem \in SUBSET Writers
    BY DEF Writers
  <2> QED BY <1>9, <2>1, StraightNames, WriteMaps DEF asm_inc_mem
<1>10. CASE asm_inc_reg
  <2>1. PICK op \in Dispatched(DOMAIN StepReg) : \E v : SetRegister(StepReg[op.exec][1], v)
    BY <1>10 DEF asm_inc_reg
  <2>2. StepReg[op.exec][1] \in {"ACC", "X", "Y"}
    BY DispatchTypes DEF StepReg
  <2> QED BY <1>10, <2>1, <2>2, KeepsSP, StraightNames, StillMaps DEF asm_inc_reg
<1>11. CASE asm_shrot
  <2>1. DOMAIN ShiftBy \in SUBSET Writers
    BY DEF Writers
  <2>2. Executed /\ branch' = branch /\ Dispatched(DOMAIN ShiftBy) # {}
    BY <1>11 DEF asm_shrot
  <2>3. sreg'["SP"] = sreg["SP"]
    BY <1>11 DEF asm_shrot, TypeOK, ShortReg
  <2> QED BY <2>1, <2>2, <2>3, StraightNames, WriteMaps
<1>12. CASE asm_flag
  BY <1>12, StraightNames, StillMaps DEF asm_flag
<1>13. CASE asm_NOP
  BY <1>13, StraightNames, StillMaps DEF asm_NOP
<1> QED BY <1>1, <1>2, <1>3, <1>4, <1>5, <1>6, <1>7, <1>8, <1>9, <1>10, <1>11, <1>12, <1>13

LEMMA InstructionMaps ==
  ASSUME TypeOK, TypeOK', InProgram, InProgram', ProgramUnhooked, Disciplined,
         opcode_exec, ~asm_break
  PROVE  SameCode(mem, mem') /\ Flow!Step
BY StraightMaps, PushMaps, PullMaps, CallMaps, ReturnMaps, BranchMaps DEF opcode_exec

LEMMA ExecutedIsLast ==
  ASSUME opcode_exec, ~asm_break
  PROVE  phase = "exec" /\ Executed
<1>1. \A names : Dispatched(names) # {} => phase = "exec"
  BY DEF Dispatched
<1>2. CASE \/ asm_mem2reg \/ asm_reg2mem \/ asm_reg2reg \/ asm_reg2stack \/ asm_stack2reg
  BY <1>1, <1>2 DEF asm_mem2reg, asm_reg2mem, asm_reg2reg, asm_reg2stack, asm_stack2reg
<1>3. CASE \/ asm_logic_and \/ asm_logic_eor_ora \/ asm_arith_add \/ asm_arith_sub
           \/ asm_arith_cmp
  BY <1>1, <1>3 DEF asm_logic_and, asm_logic_eor_ora, asm_arith_add, asm_arith_sub, asm_arith_cmp
<1>4. CASE \/ asm_inc_mem \/ asm_inc_reg \/ asm_shrot \/ asm_mem2pc
  BY <1>1, <1>4 DEF asm_inc_mem, asm_inc_reg, asm_shrot, asm_mem2pc
<1>5. CASE asm_JSR \/ asm_RTS \/ asm_flag \/ asm_NOP
  BY <1>1, <1>5 DEF asm_JSR, asm_RTS, asm_flag, asm_NOP
<1> QED BY <1>2, <1>3, <1>4, <1>5 DEF opcode_exec

\* BRK ends the thread where it is.
LEMMA BreakStops ==
  ASSUME TypeOK, InProgram, ProgramUnhooked, BrkHook = "exits", asm_break
  PROVE  phase' = "stopped" /\ UNCHANGED Flow!flowVars
<1>1. PICK op \in Dispatched({"BRK"}) : TRUE
  BY DEF asm_break
<1>2. phase' = "stopped" /\ UNCHANGED <<mem, sreg, pc, branch>>
  BY DEF asm_break
<1>3. op.exec = "BRK" /\ phase = "exec" /\ op \in Dispatched(Exec)
  <2>1. phase = "exec" /\ op.exec \in Exec /\ op.exec = "BRK"
    BY <1>1, DispatchTypes
  <2> QED BY <1>1, <2>1 DEF Dispatched
<1>4. OpcodeNames[Cell(mem, pc)].exec = "BRK"
  BY <1>3, Instructions DEF Opcode
<1>5. NextAt' = pc /\ NextAt = pc
  BY <1>2, <1>3, <1>4 DEF NextAt, AtBreak
<1> QED BY <1>2, <1>5 DEF Flow!flowVars

-----------------------------------------------------------------------------
(* The invariant: a fetch that has no target continues inside the program,  *)
(* and no BRK is ever reported to the step callback.                        *)

FlowInv ==
  /\ TypeOK
  /\ phase = "fetch" => ADDR_VALID(branch) \/ pc >= ProgramStart
  /\ phase = "step" => /\ pc >= ProgramStart
                       /\ OpcodeNames[Cell(mem, pc)].exec # "BRK"

LEMMA FlowInvInit == Init /\ InProgram => FlowInv
<1> SUFFICES ASSUME Init, InProgram PROVE FlowInv
  OBVIOUS
<1>1. TypeOK /\ phase = "fetch" /\ pc = 0
  BY TypeInit DEF Init
<1>2. CASE ~ADDR_VALID(branch)
  <2>1. NextAt = Wrap16(0 + opcode_len(Cell(mem, pc)))
    BY <1>1, <1>2 DEF NextAt, AtBreak, NextPc
  <2>2. opcode_len(Cell(mem, pc)) \in 1..3
    BY DEF opcode_len
  <2>3. NextAt < 512
    BY <2>1, <2>2 DEF Wrap16
  <2> QED BY <2>3, StartRange DEF InProgram, CPU_ADDR_RESERVED_START
<1> QED BY <1>1, <1>2 DEF FlowInv

\* The instruction that opcode_fetch() finds is the one the mapping expects.
LEMMA FetchStutters ==
  ASSUME FlowInv, InProgram, ProgramUnhooked, opcode_fetch
  PROVE  phase' = "exec" /\ UNCHANGED Flow!flowVars
<1>1. PICK b \in MEM_READ(mem, pc) :
        IF NextPc(b) < CPU_ADDR_RESERVED_START
        THEN pc' = NextPc(b) /\ phase' = "exec"
        ELSE phase' = "aborted" /\ UNCHANGED pc
  BY DEF opcode_fetch
<1>2. NextPc(b) = NextPc(Cell(mem, pc))
  <2>1. CASE ADDR_VALID(branch)
    BY <2>1 DEF NextPc
  <2>2. CASE ~ADDR_VALID(branch)
    <3>1. pc \in Word /\ pc >= ProgramStart
      BY <2>2, WordRange, PcRange DEF FlowInv, TypeOK, opcode_fetch
    <3> QED BY <3>1, <1>1, ReadProgram
  <2> QED BY <2>1, <2>2
<1>3. NextAt = NextPc(b)
  BY <1>2 DEF NextAt, AtBreak, opcode_fetch
<1>4. NextPc(b) < CPU_ADDR_RESERVED_START
  BY <1>3, StartRange DEF InProgram, CPU_ADDR_RESERVED_START
<1>5. phase' = "exec" /\ pc' = NextAt
  BY <1>1, <1>3, <1>4
<1>6. NextAt' = NextAt
  BY <1>5 DEF NextAt
<1> QED BY <1>5, <1>6 DEF Flow!flowVars, opcode_fetch

LEMMA CallbackStutters ==
  ASSUME FlowInv, step_callback
  PROVE  UNCHANGED Flow!flowVars
<1>1. phase = "step" /\ phase' \in {"aborted", "stopped", "fetch"}
      /\ UNCHANGED <<mem, sreg, pc, branch>>
  BY DEF step_callback
<1>2. NextAt = NextPc(Cell(mem, pc))
  BY <1>1 DEF NextAt, AtBreak
<1>3. ~AtBreak'
  BY <1>1 DEF FlowInv, AtBreak
<1>4. NextAt' = NextAt
  BY <1>1, <1>2, <1>3 DEF NextAt, NextPc
<1> QED BY <1>1, <1>4 DEF Flow!flowVars

LEMMA FlowStep ==
  ASSUME FlowInv, TypeOK', InProgram, InProgram', ProgramUnhooked, BrkHook = "exits",
         [Disciplined]_vars, [cpu_thread]_vars
  PROVE  FlowInv' /\ [Flow!Step]_(Flow!flowVars)
<1>1. CASE opcode_fetch
  <2>1. phase' = "exec" /\ UNCHANGED Flow!flowVars
    BY <1>1, FetchStutters
  <2> QED BY <2>1 DEF FlowInv
<1>2. CASE step_callback
  <2>1. phase = "step" /\ UNCHANGED <<mem, pc, branch>> /\ phase' # "step"
    BY <1>2 DEF step_callback
  <2>2. FlowInv'
    BY <2>1 DEF FlowInv
  <2> QED BY <1>2, <2>2, CallbackStutters
<1>3. CASE asm_break
  <2>1. phase' = "stopped" /\ UNCHANGED Flow!flowVars
    BY <1>3, BreakStops DEF FlowInv
  <2> QED BY <2>1 DEF FlowInv
<1>4. CASE opcode_exec /\ ~asm_break /\ Disciplined
  <2>1. SameCode(mem, mem') /\ Flow!Step
    BY <1>4, InstructionMaps DEF FlowInv
  <2>2. Executed /\ phase = "exec"
    BY <1>4, ExecutedIsLast
  <2>3. pc \in Word /\ pc >= ProgramStart
    BY <2>2, Instructions DEF FlowInv
  <2>4. pc' = pc /\ Cell(mem, pc)' = Cell(mem, pc)
    BY <2>1, <2>2, <2>3 DEF Executed, SameCode
  <2>5. OpcodeNames[Cell(mem, pc)].exec # "BRK"
    <3>1. Flow!Name # "BRK"
      BY <2>1, SameBranches
      DEF Flow!Step, Flow!Straight, Flow!Choose, Flow!Jump, Flow!JumpIndirect, Flow!Push,
          Flow!Pull, Flow!Call, Flow!Return, Flow!SetPointer, BranchOn
    <3> QED BY <2>2, <3>1, Instructions DEF FlowInv, Opcode
  <2>6. FlowInv'
    BY <2>2, <2>3, <2>4, <2>5 DEF FlowInv
  <2> QED BY <2>1, <2>6
<1>5. CASE UNCHANGED vars
  <2>1. NextAt' = NextAt
    BY <1>5 DEF vars, NextAt, AtBreak, NextPc
  <2>2. UNCHANGED Flow!flowVars
    BY <1>5, <2>1 DEF vars, Flow!flowVars
  <2> QED BY <1>5, <2>2 DEF vars, FlowInv
<1>6. ASSUME opcode_exec PROVE Disciplined \/ UNCHANGED vars
  OBVIOUS
<1> QED BY <1>1, <1>2, <1>3, <1>4, <1>5, <1>6 DEF cpu_thread

LEMMA FlowInitMaps == Init => Flow!FlowInit
<1> SUFFICES ASSUME Init PROVE PushedOn(mem, sreg["SP"]) = << >>
  BY DEF Flow!FlowInit, Flow!Start
<1>1. IsMemory(mem) /\ sreg["SP"] = 0
  BY TypeInit DEF TypeOK, Init, Cleared, ShortReg
<1>2. 0 \in Byte /\ Pushed(0) = 0
  BY DEF Byte, Pushed, Wrap8
<1>3. PushedOn(mem, 0) \in Seq(Byte) /\ Len(PushedOn(mem, 0)) = 0
  BY <1>1, <1>2, PushedIsSeq
<1>4. PushedOn(mem, 0) = << >>
  BY <1>3, EmptySeq
<1> QED BY <1>1, <1>4

\* Every program that stays in its memory and keeps the discipline of CpuFlow
\* runs as ProgramFlow says, whatever its instructions, its data, the hooks on
\* them and the step callback: its instructions follow each other along the
\* edges of its flow graph, the stack is last in, first out, and RTS goes back
\* behind the JSR that pushed the address.
THEOREM DisciplinedProgramsFlow ==
  ASSUME ProgramUnhooked, BrkHook = "exits"
  PROVE  RunSpec /\ []InProgram /\ [][Disciplined]_vars => FollowsProgramFlow
<1>1. TypeOK /\ [cpu_thread]_vars => TypeOK'
  BY TypeInductive DEF Next
<1>2. RunSpec => []TypeOK
  BY <1>1, TypeInit, PTL DEF RunSpec
<1>3. /\ FlowInv /\ TypeOK' /\ InProgram /\ InProgram'
      /\ [Disciplined]_vars /\ [cpu_thread]_vars
      => FlowInv' /\ [Flow!Step]_(Flow!flowVars)
  BY FlowStep
<1> QED BY <1>2, <1>3, FlowInvInit, FlowInitMaps, PTL
        DEF RunSpec, FollowsProgramFlow, Flow!FlowSpec

-----------------------------------------------------------------------------
(* What single instructions do in programs on the zero page: the registers, *)
(* the carry and Z that they leave, and the bytes they write.               *)

DataAt == XAt..(EAt + 1)

DataUnhooked == \A a \in DOMAIN Transl \cup DOMAIN ReadHook \cup DOMAIN WriteHook : a \notin DataAt

Zero(p) == FLAG_Z \in p

\* The instruction at an address.
Ins(M, a, name, mode, operand) ==
  /\ OpcodeNames[Cell(M, a)].exec = name /\ OpcodeNames[Cell(M, a)].addr_mode = mode
  /\ mode \notin {"IMP", "ACC"} => Cell(M, a + 1) = operand

\* The next instruction is executed.
Runs(name, mode, operand) ==
  /\ FlowInv /\ InProgram /\ opcode_exec
  /\ Ins(mem, NextAt, name, mode, operand)

LEMMA ExecNext ==
  ASSUME FlowInv, opcode_exec
  PROVE  TypeOK /\ phase = "exec" /\ NextAt = pc /\ NextAt \in Int
<1>1. \E names : Dispatched(names) # {}
  BY DEF opcode_exec, asm_mem2reg, asm_reg2mem, asm_reg2reg, asm_reg2stack,
         asm_stack2reg, asm_logic_and, asm_logic_eor_ora, asm_arith_add, asm_arith_sub,
         asm_arith_cmp, asm_inc_mem, asm_inc_reg, asm_shrot, asm_mem2pc, asm_JSR, asm_RTS,
         asm_flag, asm_break, asm_NOP
<1>2. TypeOK /\ phase = "exec"
  BY <1>1 DEF FlowInv, Dispatched
<1>3. pc \in Int
  BY <1>2, PcRange DEF TypeOK
<1> QED BY <1>2, <1>3 DEF NextAt

LEMMA RunFacts ==
  ASSUME ProgramUnhooked, NEW name, NEW mode, NEW z, Runs(name, mode, z)
  PROVE  /\ TypeOK /\ phase = "exec" /\ ~ADDR_VALID(branch) /\ NextAt = pc
         /\ pc \in Word /\ ProgramStart <= pc /\ Opcode \in Byte
         /\ OpcodeNames[Opcode].exec = name /\ OpcodeNames[Opcode].addr_mode = mode
         /\ MEM_READ(mem, pc) = {Opcode}
         /\ MEM_READ(mem, pc + 1) = {Cell(mem, pc + 1)}
         /\ mode \notin {"IMP", "ACC"} => Cell(mem, pc + 1) = z
<1>1. TypeOK /\ phase = "exec" /\ InProgram
  BY ExecNext DEF Runs
<1>2. NextAt = pc /\ ~ADDR_VALID(branch)
  BY <1>1 DEF NextAt, TypeOK, ADDR_VALID
<1>3. pc \in Word /\ ProgramStart <= pc /\ Opcode \in Byte /\ pc <= 65529
  BY <1>1, Instructions
<1>4. OpcodeNames[Opcode].exec = name /\ OpcodeNames[Opcode].addr_mode = mode
  BY <1>2 DEF Runs, Ins, Opcode
<1>5. MEM_READ(mem, pc) = {Opcode}
  BY <1>3, ReadProgram DEF Opcode
<1>7. MEM_READ(mem, pc + 1) = {Cell(mem, pc + 1)}
  <2>1. pc + 1 \in Word /\ pc + 1 >= ProgramStart
    BY <1>3, StartRange, WordRange
  <2> QED BY <2>1, ReadProgram
<1>8. mode \notin {"IMP", "ACC"} => Cell(mem, pc + 1) = z
  BY <1>2 DEF Runs, Ins
<1> QED BY <1>1, <1>2, <1>3, <1>4, <1>5, <1>7, <1>8

LEMMA RunDispatch ==
  ASSUME ProgramUnhooked, NEW name, NEW mode, NEW z, Runs(name, mode, z), NEW names,
         NEW op \in Dispatched(names)
  PROVE  op.exec = name /\ op.addr_mode = mode /\ name \in names
<1>1. phase = "exec" /\ MEM_READ(mem, pc) = {Opcode}
      /\ OpcodeNames[Opcode].exec = name /\ OpcodeNames[Opcode].addr_mode = mode
  BY RunFacts
<1> QED BY <1>1 DEF Dispatched

\* Which primitive it is executed by.
LEMMA RunAction ==
  ASSUME ProgramUnhooked, NEW name, NEW mode, NEW z, Runs(name, mode, z)
  PROVE  /\ name \in {"LDA", "LDX"} => asm_mem2reg
         /\ name = "STA" => asm_reg2mem
         /\ name = "ADC" => asm_arith_add
         /\ name = "SBC" => asm_arith_sub
         /\ name = "CMP" => asm_arith_cmp
         /\ name \in {"INC", "DEC"} => asm_inc_mem
         /\ name = "DEX" => asm_inc_reg
         /\ name \in {"ASL", "ROL", "LSR", "ROR"} => asm_shrot
         /\ name \in {"BNE", "BCC"} => asm_mem2pc
         /\ name \in {"CLC", "SEC"} => asm_flag
         /\ name = "BRK" => asm_break
<1>1. \A names : Dispatched(names) # {} => name \in names
  BY RunDispatch, Zenon
<1>2. /\ asm_mem2reg => name \in DOMAIN LoadInto
      /\ asm_reg2mem => name \in DOMAIN StoreFrom
      /\ asm_reg2reg => name \in DOMAIN Transfer
      /\ asm_reg2stack => name \in DOMAIN PushFrom
      /\ asm_stack2reg => name \in DOMAIN PullInto
  BY <1>1 DEF asm_mem2reg, asm_reg2mem, asm_reg2reg, asm_reg2stack, asm_stack2reg
<1>3. /\ asm_logic_and => name \in {"AND", "BIT"}
      /\ asm_logic_eor_ora => name \in {"EOR", "ORA"}
      /\ asm_arith_add => name = "ADC"
      /\ asm_arith_sub => name = "SBC"
      /\ asm_arith_cmp => name \in DOMAIN CompareWith
  BY <1>1 DEF asm_logic_and, asm_logic_eor_ora, asm_arith_add, asm_arith_sub, asm_arith_cmp
<1>4. /\ asm_inc_mem => name \in DOMAIN StepMem
      /\ asm_inc_reg => name \in DOMAIN StepReg
      /\ asm_shrot => name \in DOMAIN ShiftBy
      /\ asm_mem2pc => name \in {"JMP"} \cup DOMAIN BranchOn
      /\ asm_JSR => name = "JSR"
  BY <1>1 DEF asm_inc_mem, asm_inc_reg, asm_shrot, asm_mem2pc, asm_JSR
<1>5. /\ asm_RTS => name = "RTS"
      /\ asm_flag => name \in DOMAIN SetsFlag
      /\ asm_break => name = "BRK"
      /\ asm_NOP => name \in {"NOP", "RTI"}
  BY <1>1 DEF asm_RTS, asm_flag, asm_break, asm_NOP
<1>6. opcode_exec
  BY DEF Runs
<1> QED BY <1>2, <1>3, <1>4, <1>5, <1>6
        DEF opcode_exec, LoadInto, StoreFrom, Transfer, PushFrom, PullInto, CompareWith,
            StepMem, StepReg, ShiftBy, BranchOn, SetsFlag

\* How far into the program the next instruction is; a step that moves it on.
Offset == NextAt - ProgramStart

Steps(len, M, s) == FlowInv' /\ Offset' = Offset + len /\ mem' = M /\ sreg' = s

LEMMA StepOn ==
  ASSUME ProgramUnhooked, NEW name, NEW mode, NEW z, Runs(name, mode, z),
         name # "BRK", Executed, SameCode(mem, mem')
  PROVE  /\ FlowInv'
         /\ NextAt' = IF ADDR_VALID(branch') THEN branch'
                      ELSE pc + (IF mode \in {"IMP", "ACC"} THEN 1
                                 ELSE IF mode \in {"ABS", "ABX", "ABY", "IND"} THEN 3 ELSE 2)
<1>1. TypeOK /\ phase = "exec" /\ pc \in Word /\ pc >= ProgramStart
      /\ OpcodeNames[Opcode].exec = name /\ OpcodeNames[Opcode].addr_mode = mode
  BY RunFacts
<1>2. TypeOK'
  BY <1>1, TypeInductive DEF Runs, Next, cpu_thread
<1>3. pc' = pc /\ Cell(mem, pc)' = Cell(mem, pc) /\ phase' \in {"step", "fetch"}
  BY <1>1 DEF Executed, SameCode
<1>4. FlowInv'
  BY <1>1, <1>2, <1>3 DEF FlowInv, Opcode
<1>5. NextAt' = IF ADDR_VALID(branch') THEN branch' ELSE Flow!Following
  BY <1>1, Behind DEF Runs
<1>6. Flow!Following = pc + opcode_len(Opcode)
  BY <1>1, Instructions DEF Runs
<1> QED BY <1>1, <1>4, <1>5, <1>6 DEF opcode_len

LEMMA StepsOn ==
  ASSUME ProgramUnhooked, NEW name, NEW mode, NEW z, Runs(name, mode, z),
         name # "BRK", Executed, SameCode(mem, mem'), branch' = branch
  PROVE  /\ mode \in {"IMP", "ACC"} => Steps(1, mem', sreg')
         /\ mode \in {"ZPA", "IMM", "REL"} => Steps(2, mem', sreg')
<1>1. ~ADDR_VALID(branch) /\ NextAt = pc /\ pc \in Int
  BY RunFacts, WordRange
<1>2. ~ADDR_VALID(branch')
  BY <1>1
<1>3. /\ FlowInv'
      /\ mode \in {"IMP", "ACC"} => NextAt' = pc + 1
      /\ mode \in {"ZPA", "IMM", "REL"} => NextAt' = pc + 2
  BY <1>2, StepOn
<1> QED BY <1>1, <1>3, StartRange DEF Steps, Offset

\* The zero page below the hooks.
LEMMA ReadData ==
  ASSUME DataUnhooked, NEW M, NEW a \in DataAt, NEW v
  PROVE  /\ a \in Word /\ MEM_READ(M, a) = {Cell(M, a)}
         /\ MEM_WRITE(M, a, v) = Store(M, a, v)
         /\ MEM_INC(M, a, v) = Store(M, a, Wrap8(Cell(M, a) + v))
<1>1. a \in Word
  BY WordRange DEF DataAt, XAt, EAt
<1>2. a \notin DOMAIN Transl \cup DOMAIN ReadHook \cup DOMAIN WriteHook
  BY DEF DataUnhooked
<1> QED BY <1>1, <1>2 DEF MEM_READ, MEM_WRITE, MEM_INC, Translate, Filtered

LEMMA DataIsData ==
  ASSUME NEW a \in DataAt
  PROVE  a \in Int /\ a >= 16 /\ a <= 23 /\ a < ProgramStart /\ a # INVALID_ADDRESS
BY StartRange DEF DataAt, XAt, EAt, INVALID_ADDRESS

LEMMA StoreCells ==
  ASSUME NEW M, NEW a, NEW v, NEW b
  PROVE  Cell(Store(M, a, v), b) = IF b = a THEN v ELSE Cell(M, b)
BY DEF Cell, Store

LEMMA StoreSameCode ==
  ASSUME NEW M, IsMemory(M), NEW a \in DataAt, NEW v \in Byte
  PROVE  SameCode(M, Store(M, a, v))
<1>1. a \in Word
  BY DataIsData, WordRange
<1>2. IsMemory(Store(M, a, v))
  BY <1>1, StoreType
<1>3. \A b \in Word : b >= ProgramStart => b # a
  BY DataIsData, StartRange, WordRange
<1> QED BY <1>2, <1>3, CellsSameCode DEF Store

\* What an instruction addresses, and the value it finds there.
LEMMA RunOperand ==
  ASSUME ProgramUnhooked, DataUnhooked, NEW name, NEW mode \in {"ZPA", "IMM", "REL"}, NEW z,
         Runs(name, mode, z)
  PROVE  /\ mode = "ZPA" => ADDR(mem, mode) = {z}
         /\ mode = "IMM" => ADDR(mem, mode) = {pc + 1}
         /\ mode = "REL" => ADDR(mem, mode) = {Wrap16(pc + 2 + Int8(z))}
         /\ mode = "IMM" => MEM_READ(mem, pc + 1) = {z}
<1>1. MEM_READ(mem, pc + 1) = {z}
  BY RunFacts
<1> QED BY <1>1 DEF ADDR

LEMMA RunValue ==
  ASSUME ProgramUnhooked, DataUnhooked, NEW name, NEW z \in DataAt, Runs(name, "ZPA", z)
  PROVE  ADDR_MODE_GET_VALUE("ZPA") = {Cell(mem, z)}
<1>1. ADDR(mem, "ZPA") = {z}
  BY RunOperand
<1>2. ADDR_VALID(z) /\ MEM_READ(mem, z) = {Cell(mem, z)}
  BY DataIsData, ReadData DEF ADDR_VALID
<1> QED BY <1>1, <1>2 DEF ADDR_MODE_GET_VALUE

LEMMA DataTypes ==
  ASSUME FlowInv
  PROVE  /\ IsMemory(mem) /\ sreg \in [ShortReg -> Byte]
         /\ sreg["ACC"] \in Byte /\ sreg["X"] \in Byte
         /\ \A a \in DataAt : Cell(mem, a) \in Byte
<1>1. IsMemory(mem) /\ sreg \in [ShortReg -> Byte]
  BY DEF FlowInv, TypeOK
<1>2. sreg["ACC"] \in Byte /\ sreg["X"] \in Byte
  BY <1>1 DEF ShortReg
<1>3. \A a \in DataAt : Cell(mem, a) \in Byte
  BY <1>1 DEF IsMemory, Cell, Byte
<1> QED BY <1>1, <1>2, <1>3

LEMMA RunTypes ==
  ASSUME NEW name, NEW mode, NEW z, Runs(name, mode, z)
  PROVE  /\ IsMemory(mem) /\ sreg \in [ShortReg -> Byte]
         /\ sreg["ACC"] \in Byte /\ sreg["X"] \in Byte
         /\ \A a \in DataAt : Cell(mem, a) \in Byte
BY DataTypes DEF Runs

LEMMA BasicZero ==
  ASSUME NEW p, NEW v
  PROVE  /\ Carry(flags_update_basic_by_value(p, v)) = Carry(p)
         /\ Zero(flags_update_basic_by_value(p, v)) <=> v = 0
<1>1. FLAG_C \in flags_update_basic_by_value(p, v) <=> FLAG_C \in p
  BY CarryStays
<1>2. FLAG_Z \in flags_update_basic_by_value(p, v) <=> v = 0
  BY DEF flags_update_basic_by_value, SET_FLAG, FLAG_Z, FLAG_N
<1> QED BY <1>1, <1>2 DEF Carry, Zero, GET_FLAG

LEMMA LoadRuns ==
  ASSUME ProgramUnhooked, DataUnhooked, NEW name \in {"LDA", "LDX"},
         NEW mode \in {"ZPA", "IMM"}, NEW z, mode = "ZPA" => z \in DataAt, Runs(name, mode, z)
  PROVE  LET v == IF mode = "ZPA" THEN Cell(mem, z) ELSE z
         IN  /\ Steps(2, mem, [sreg EXCEPT ![LoadInto[name]] = v])
             /\ Carry(flags') = Carry(flags) /\ (Zero(flags') <=> v = 0)
<1> DEFINE v == IF mode = "ZPA" THEN Cell(mem, z) ELSE z
<1>1. asm_mem2reg
  BY RunAction
<1>2. PICK op \in Dispatched(DOMAIN LoadInto) :
        /\ \E a \in ADDR(mem, op.addr_mode) : \E w \in MEM_READ(mem, a) :
             SetRegister(LoadInto[op.exec], w)
        /\ Executed /\ mem' = mem /\ branch' = branch
  BY <1>1 DEF asm_mem2reg
<1>3. op.exec = name /\ op.addr_mode = mode
  BY <1>2, RunDispatch
<1>4. mode = "ZPA" => SetRegister(LoadInto[name], v)
  <2> SUFFICES ASSUME mode = "ZPA" PROVE SetRegister(LoadInto[name], v)
    OBVIOUS
  <2>1. ADDR(mem, mode) = {z} /\ MEM_READ(mem, z) = {v}
    BY RunOperand, ReadData
  <2> QED BY <1>2, <1>3, <2>1
<1>5. mode = "IMM" => SetRegister(LoadInto[name], v)
  <2> SUFFICES ASSUME mode = "IMM" PROVE SetRegister(LoadInto[name], v)
    OBVIOUS
  <2>1. ADDR(mem, mode) = {pc + 1} /\ MEM_READ(mem, pc + 1) = {v}
    BY RunOperand
  <2> QED BY <1>2, <1>3, <2>1
<1>6. SetRegister(LoadInto[name], v)
  BY <1>4, <1>5
<1>7. sreg' = [sreg EXCEPT ![LoadInto[name]] = v] /\ flags' = flags_update_basic_by_value(flags, v)
  BY <1>6 DEF SetRegister, LoadInto
<1>8. SameCode(mem, mem')
  BY <1>2 DEF SameCode
<1>9. Steps(2, mem', sreg')
  BY <1>2, <1>8, StepsOn
<1> QED BY <1>2, <1>7, <1>9, BasicZero

LEMMA StoreRuns ==
  ASSUME ProgramUnhooked, DataUnhooked, NEW z \in DataAt, Runs("STA", "ZPA", z)
  PROVE  Steps(2, Store(mem, z, sreg["ACC"]), sreg) /\ flags' = flags
<1>1. PICK op \in Dispatched(DOMAIN StoreFrom) :
        /\ \E a \in ADDR(mem, op.addr_mode) :
             mem' = MEM_WRITE(mem, a, sreg[StoreFrom[op.exec]])
        /\ Executed /\ UNCHANGED <<sreg, flags, branch>>
  BY RunAction DEF asm_reg2mem
<1>2. op.exec = "STA" /\ op.addr_mode = "ZPA"
  BY <1>1, RunDispatch
<1>3. ADDR(mem, "ZPA") = {z}
  BY RunOperand
<1>4. mem' = Store(mem, z, sreg["ACC"])
  BY <1>1, <1>2, <1>3, ReadData DEF StoreFrom
<1>5. SameCode(mem, mem')
  BY <1>4, RunTypes, StoreSameCode
<1>6. Steps(2, mem', sreg')
  BY <1>1, <1>5, StepsOn
<1> QED BY <1>1, <1>4, <1>6

LEMMA AddRuns ==
  ASSUME ProgramUnhooked, DataUnhooked, NEW z \in DataAt, Runs("ADC", "ZPA", z)
  PROVE  \E r \in 0..255 :
           /\ Steps(2, mem, [sreg EXCEPT !["ACC"] = r])
           /\ r + 256 * Carry(flags') = sreg["ACC"] + Cell(mem, z) + Carry(flags)
<1> DEFINE v == Cell(mem, z)  r == AddResult(flags, sreg["ACC"], v)
<1>1. PICK op \in Dispatched({"ADC"}) :
        /\ \E w \in ADDR_MODE_GET_VALUE(op.addr_mode) :
             /\ sreg' = [sreg EXCEPT !["ACC"] = AddResult(flags, @, w)]
             /\ flags' = AddFlags(flags, sreg["ACC"], w)
  BY RunAction DEF asm_arith_add
<1>2. op.addr_mode = "ZPA"
  BY <1>1, RunDispatch
<1>3. sreg' = [sreg EXCEPT !["ACC"] = r] /\ flags' = AddFlags(flags, sreg["ACC"], v)
  BY <1>1, <1>2, RunValue
<1>4. v \in Byte /\ sreg["ACC"] \in Byte
  BY RunTypes
<1>5. Executed /\ mem' = mem /\ branch' = branch
  BY RunAction DEF asm_arith_add
<1>6. Steps(2, mem', sreg')
  BY <1>5, StepsOn DEF SameCode
<1>7. Steps(2, mem, [sreg EXCEPT !["ACC"] = r])
  BY <1>3, <1>5, <1>6
<1>8. r \in 0..255 /\ r + 256 * Carry(flags') = sreg["ACC"] + v + Carry(flags)
  <2>1. /\ r \in 0..255
        /\ r + 256 * Carry(AddFlags(flags, sreg["ACC"], v)) = sreg["ACC"] + v + Carry(flags)
    BY <1>4, AddExact
  <2> HIDE DEF r, v
  <2> QED BY <1>3, <2>1
<1> HIDE DEF r
<1> QED BY <1>7, <1>8, Zenon

LEMMA SubRuns ==
  ASSUME ProgramUnhooked, DataUnhooked, NEW z \in DataAt, Runs("SBC", "ZPA", z)
  PROVE  \E r \in 0..255 :
           /\ Steps(2, mem, [sreg EXCEPT !["ACC"] = r])
           /\ r - 256 * (1 - Carry(flags')) = sreg["ACC"] - Cell(mem, z) - (1 - Carry(flags))
<1> DEFINE v == Cell(mem, z)  r == SubResult(flags, sreg["ACC"], v)
<1>1. PICK op \in Dispatched({"SBC"}) :
        /\ \E w \in ADDR_MODE_GET_VALUE(op.addr_mode) :
             /\ sreg' = [sreg EXCEPT !["ACC"] = SubResult(flags, @, w)]
             /\ flags' = SubFlags(flags, sreg["ACC"], w)
  BY RunAction DEF asm_arith_sub
<1>2. op.addr_mode = "ZPA"
  BY <1>1, RunDispatch
<1>3. sreg' = [sreg EXCEPT !["ACC"] = r] /\ flags' = SubFlags(flags, sreg["ACC"], v)
  BY <1>1, <1>2, RunValue
<1>4. v \in Byte /\ sreg["ACC"] \in Byte
  BY RunTypes
<1>5. Executed /\ mem' = mem /\ branch' = branch
  BY RunAction DEF asm_arith_sub
<1>6. Steps(2, mem', sreg')
  BY <1>5, StepsOn DEF SameCode
<1>7. Steps(2, mem, [sreg EXCEPT !["ACC"] = r])
  BY <1>3, <1>5, <1>6
<1>8. r \in 0..255 /\ r - 256 * (1 - Carry(flags')) = sreg["ACC"] - v - (1 - Carry(flags))
  <2>1. /\ r \in 0..255
        /\ r - 256 * (1 - Carry(SubFlags(flags, sreg["ACC"], v)))
             = sreg["ACC"] - v - (1 - Carry(flags))
    BY <1>4, SubExact
  <2> HIDE DEF r, v
  <2> QED BY <1>3, <2>1
<1> HIDE DEF r
<1> QED BY <1>7, <1>8, Zenon

LEMMA CompareRuns ==
  ASSUME ProgramUnhooked, DataUnhooked, NEW z \in DataAt, Runs("CMP", "ZPA", z)
  PROVE  Steps(2, mem, sreg) /\ (Carry(flags') = 1 <=> sreg["ACC"] >= Cell(mem, z))
<1>1. PICK op \in Dispatched(DOMAIN CompareWith) :
        /\ \E w \in ADDR_MODE_GET_VALUE(op.addr_mode) :
             flags' = CmpFlags(flags, sreg[CompareWith[op.exec]], w)
        /\ Executed /\ UNCHANGED <<mem, sreg, branch>>
  BY RunAction DEF asm_arith_cmp
<1>2. op.exec = "CMP" /\ op.addr_mode = "ZPA"
  BY <1>1, RunDispatch
<1>3. flags' = CmpFlags(flags, sreg["ACC"], Cell(mem, z))
  BY <1>1, <1>2, RunValue DEF CompareWith
<1>4. SameCode(mem, mem')
  BY <1>1 DEF SameCode
<1>5. Steps(2, mem', sreg')
  BY <1>1, <1>4, StepsOn
<1> QED BY <1>1, <1>3, <1>5, CmpExact

\* A shift or rotation of a byte in memory leaves r there.
Shifted(name, z, r) ==
  LET v    == Cell(mem, z)
      fill == IF name \in {"ROL", "ROR"} THEN Carry(flags) ELSE 0
  IN  /\ Steps(2, Store(mem, z, r), sreg)
      /\ name \in {"ASL", "ROL"} => r + 256 * Carry(flags') = 2 * v + fill
      /\ name \in {"LSR", "ROR"} => 2 * r + Carry(flags') = v + 256 * fill

LEMMA ShiftRuns ==
  ASSUME ProgramUnhooked, DataUnhooked, NEW name \in {"ASL", "ROL", "LSR", "ROR"},
         NEW z \in DataAt, Runs(name, "ZPA", z)
  PROVE  \E r \in 0..255 : Shifted(name, z, r)
<1> DEFINE v    == Cell(mem, z)
           fill == IF name \in {"ROL", "ROR"} THEN Carry(flags) ELSE 0
           r    == ShiftResult(v, ShiftBy[name], fill)
<1>1. PICK op \in Dispatched(DOMAIN ShiftBy) :
        LET direction == ShiftBy[op.exec]
            filled == IF op.exec \in {"ROL", "ROR"} THEN GET_FLAG(flags, FLAG_C) ELSE 0
        IN
        /\ \E a \in ADDR(mem, op.addr_mode) :
             ADDR_VALID(a) =>
               \E w \in MEM_READ(mem, a) :
                 /\ mem' = MEM_WRITE(mem, a, ShiftResult(w, direction, filled))
                 /\ \E q \in MEM_READ(mem', a) :
                      flags' = flags_update_basic_by_value(
                                 flags_update_shrot_carry(flags, w, direction), q)
                 /\ UNCHANGED sreg
        /\ Executed /\ branch' = branch
  BY RunAction DEF asm_shrot
<1>2. op.exec = name /\ op.addr_mode = "ZPA"
  BY <1>1, RunDispatch
<1>3. ADDR(mem, "ZPA") = {z} /\ ADDR_VALID(z)
  BY RunOperand, DataIsData DEF ADDR_VALID
<1>4. MEM_READ(mem, z) = {v}
  BY ReadData
<1>5. /\ mem' = MEM_WRITE(mem, z, r) /\ sreg' = sreg
      /\ \E q : flags' = ShiftFlags(flags, v, ShiftBy[name], q)
  BY <1>1, <1>2, <1>3, <1>4 DEF ShiftFlags, Carry
<1>6. mem' = Store(mem, z, r)
  BY <1>5, ReadData
<1>7. v \in Byte /\ fill \in {0, 1} /\ IsMemory(mem)
  BY RunTypes DEF Carry, GET_FLAG
<1>8. r \in Byte
  BY <1>7, ResultTypes
<1>9. SameCode(mem, mem')
  BY <1>6, <1>7, <1>8, StoreSameCode
<1>10. Steps(2, Store(mem, z, r), sreg)
  BY <1>1, <1>5, <1>6, <1>9, StepsOn
<1>11. PICK q : flags' = ShiftFlags(flags, v, ShiftBy[name], q)
  BY <1>5
<1>12. /\ ShiftResult(v, 1, fill) + 256 * Carry(ShiftFlags(flags, v, 1, q)) = 2 * v + fill
       /\ 2 * ShiftResult(v, -1, fill) + Carry(ShiftFlags(flags, v, -1, q)) = v + 256 * fill
  BY <1>7, ShiftExact
<1>13. name \in {"ASL", "ROL"} => r + 256 * Carry(flags') = 2 * v + fill
  <2>1. name \in {"ASL", "ROL"} => ShiftBy[name] = 1
    BY DEF ShiftBy
  <2> HIDE DEF v, fill
  <2> QED BY <1>11, <1>12, <2>1
<1>14. name \in {"LSR", "ROR"} => 2 * r + Carry(flags') = v + 256 * fill
  <2>1. name \in {"LSR", "ROR"} => ShiftBy[name] = -1
    BY DEF ShiftBy
  <2> HIDE DEF v, fill
  <2> QED BY <1>11, <1>12, <2>1
<1>15. r \in 0..255
  BY <1>8 DEF Byte
<1>16. Shifted(name, z, r)
  BY <1>10, <1>13, <1>14 DEF Shifted
<1> QED BY <1>15, <1>16, Zenon

\* A rotation of the accumulator.
LEMMA RotateRuns ==
  ASSUME ProgramUnhooked, DataUnhooked, NEW name \in {"ROL", "ROR"}, NEW z,
         Runs(name, "ACC", z)
  PROVE  LET v == sreg["ACC"]
         IN  \E r \in 0..255 :
               /\ Steps(1, mem, [sreg EXCEPT !["ACC"] = r])
               /\ name = "ROL" => r + 256 * Carry(flags') = 2 * v + Carry(flags)
               /\ name = "ROR" => 2 * r + Carry(flags') = v + 256 * Carry(flags)
<1> DEFINE v == sreg["ACC"]
           r == ShiftResult(v, ShiftBy[name], Carry(flags))
<1>1. PICK op \in Dispatched(DOMAIN ShiftBy) :
        LET direction == ShiftBy[op.exec]
            filled == IF op.exec \in {"ROL", "ROR"} THEN GET_FLAG(flags, FLAG_C) ELSE 0
            q == ShiftResult(v, direction, filled)
        IN
        /\ \E a \in ADDR(mem, op.addr_mode) :
             ~ADDR_VALID(a) =>
               /\ sreg' = [sreg EXCEPT !["ACC"] = q]
               /\ flags' = flags_update_basic_by_value(
                             flags_update_shrot_carry(flags, v, direction), q)
               /\ UNCHANGED mem
        /\ Executed /\ branch' = branch
  BY RunAction DEF asm_shrot
<1>2. op.exec = name /\ op.addr_mode = "ACC"
  BY <1>1, RunDispatch
<1>3. ADDR(mem, "ACC") = {INVALID_ADDRESS}
  BY DEF ADDR
<1>4. /\ sreg' = [sreg EXCEPT !["ACC"] = r] /\ mem' = mem
      /\ flags' = ShiftFlags(flags, v, ShiftBy[name], r)
  BY <1>1, <1>2, <1>3 DEF ShiftFlags, Carry, ADDR_VALID
<1>5. v \in Byte /\ Carry(flags) \in {0, 1}
  BY RunTypes DEF Carry, GET_FLAG
<1>6. r \in Byte
  BY <1>5, ResultTypes
<1>7. SameCode(mem, mem')
  BY <1>4 DEF SameCode
<1>8. Steps(1, mem, [sreg EXCEPT !["ACC"] = r])
  BY <1>1, <1>4, <1>7, StepsOn
<1>9. name = "ROL" => r + 256 * Carry(flags') = 2 * v + Carry(flags)
  BY <1>4, <1>5, ShiftExact DEF ShiftBy
<1>10. name = "ROR" => 2 * r + Carry(flags') = v + 256 * Carry(flags)
  BY <1>4, <1>5, ShiftExact DEF ShiftBy
<1>11. r \in 0..255
  BY <1>6 DEF Byte
<1> QED BY <1>8, <1>9, <1>10, <1>11, Zenon

LEMMA StepMemRuns ==
  ASSUME ProgramUnhooked, DataUnhooked, NEW name \in {"INC", "DEC"},
         NEW z \in DataAt, Runs(name, "ZPA", z)
  PROVE  LET r == Wrap8(Cell(mem, z) + StepMem[name])
         IN  /\ Steps(2, Store(mem, z, r), sreg)
             /\ Carry(flags') = Carry(flags) /\ (Zero(flags') <=> r = 0)
<1> DEFINE r == Wrap8(Cell(mem, z) + StepMem[name])
<1>1. PICK op \in Dispatched(DOMAIN StepMem) :
        /\ \E a \in ADDR(mem, op.addr_mode) :
             /\ mem' = MEM_INC(mem, a, StepMem[op.exec])
             /\ \E v \in MEM_READ(mem', a) : flags' = flags_update_basic_by_value(flags, v)
        /\ Executed /\ UNCHANGED <<sreg, branch>>
  BY RunAction DEF asm_inc_mem
<1>2. op.exec = name /\ op.addr_mode = "ZPA"
  BY <1>1, RunDispatch
<1>3. ADDR(mem, "ZPA") = {z}
  BY RunOperand
<1>4. /\ mem' = MEM_INC(mem, z, StepMem[name])
      /\ \E v \in MEM_READ(mem', z) : flags' = flags_update_basic_by_value(flags, v)
  BY <1>1, <1>2, <1>3
<1>5. mem' = Store(mem, z, r)
  BY <1>4, ReadData
<1>6. MEM_READ(mem', z) = {r}
  BY <1>5, ReadData, StoreCells
<1>7. flags' = flags_update_basic_by_value(flags, r)
  BY <1>4, <1>6
<1>8. r \in Byte
  <2>1. Cell(mem, z) \in Int /\ StepMem[name] \in Int
    BY RunTypes DEF Byte, StepMem
  <2> QED BY <2>1, WrapTypes
<1>9. SameCode(mem, mem')
  BY <1>5, <1>8, RunTypes, StoreSameCode
<1>10. Steps(2, mem', sreg')
  BY <1>1, <1>9, StepsOn
<1> QED BY <1>1, <1>5, <1>7, <1>10, BasicZero

LEMMA CountRuns ==
  ASSUME ProgramUnhooked, NEW z, Runs("DEX", "IMP", z)
  PROVE  LET r == Wrap8(sreg["X"] - 1)
         IN  /\ Steps(1, mem, [sreg EXCEPT !["X"] = r])
             /\ Carry(flags') = Carry(flags) /\ (Zero(flags') <=> r = 0)
<1> DEFINE r == Wrap8(sreg["X"] - 1)
<1>1. PICK op \in Dispatched(DOMAIN StepReg) :
        /\ SetRegister(StepReg[op.exec][1],
                       Wrap8(sreg[StepReg[op.exec][1]] + StepReg[op.exec][2]))
        /\ Executed /\ UNCHANGED <<mem, branch>>
  BY RunAction DEF asm_inc_reg
<1>2. op.exec = "DEX"
  BY <1>1, RunDispatch
<1>3. SetRegister("X", Wrap8(sreg["X"] + (-1)))
  BY <1>1, <1>2 DEF StepReg
<1>4. sreg["X"] + (-1) = sreg["X"] - 1
  BY RunTypes DEF Byte
<1>5. sreg' = [sreg EXCEPT !["X"] = r] /\ flags' = flags_update_basic_by_value(flags, r)
  BY <1>3, <1>4 DEF SetRegister
<1>6. SameCode(mem, mem')
  BY <1>1 DEF SameCode
<1>7. Steps(1, mem', sreg')
  BY <1>1, <1>6, StepsOn
<1> QED BY <1>1, <1>5, <1>7, BasicZero

LEMMA CarryRuns ==
  ASSUME ProgramUnhooked, NEW name \in {"CLC", "SEC"}, NEW z, Runs(name, "IMP", z)
  PROVE  Steps(1, mem, sreg) /\ Carry(flags') = IF name = "SEC" THEN 1 ELSE 0
<1>1. PICK op \in Dispatched(DOMAIN SetsFlag) :
        /\ flags' = SET_FLAG(flags, SetsFlag[op.exec][1], SetsFlag[op.exec][2])
        /\ Executed /\ UNCHANGED <<mem, sreg, branch>>
  BY RunAction DEF asm_flag
<1>2. op.exec = name
  BY <1>1, RunDispatch
<1>3. flags' = IF name = "SEC" THEN flags \cup {FLAG_C} ELSE flags \ {FLAG_C}
  <2>1. CASE name = "SEC"
    BY <1>1, <1>2, <2>1 DEF SetsFlag, SET_FLAG
  <2>2. CASE name = "CLC"
    BY <1>1, <1>2, <2>2 DEF SetsFlag, SET_FLAG
  <2> QED BY <2>1, <2>2
<1>4. SameCode(mem, mem')
  BY <1>1 DEF SameCode
<1>5. Steps(1, mem', sreg')
  BY <1>1, <1>4, StepsOn
<1> QED BY <1>1, <1>3, <1>5 DEF Carry, GET_FLAG

LEMMA NotMember ==
  ASSUME NEW x, NEW S
  PROVE  (x \in S) = FALSE <=> x \notin S
BY SMT

LEMMA TakenNames == (Taken("BNE") <=> ~Zero(flags)) /\ (Taken("BCC") <=> Carry(flags) = 0)
<1>1. /\ "BNE" \in DOMAIN BranchOn /\ BranchOn["BNE"][1] = FLAG_Z
      /\ "BCC" \in DOMAIN BranchOn /\ BranchOn["BCC"][1] = FLAG_C
  BY DEF BranchOn
<1>2. BranchOn["BNE"][2] = FALSE /\ BranchOn["BCC"][2] = FALSE
  BY DEF BranchOn
<1>3. Taken("BNE") <=> ((FLAG_Z \in flags) = FALSE)
  BY <1>1, <1>2, Zenon DEF Taken
<1>4. Taken("BCC") <=> ((FLAG_C \in flags) = FALSE)
  BY <1>1, <1>2, Zenon DEF Taken
<1>5. Taken("BNE") <=> ~Zero(flags)
  BY <1>3, NotMember, Zenon DEF Zero
<1>6. FLAG_C \notin flags <=> Carry(flags) = 0
  BY DEF Carry, GET_FLAG
<1>7. Taken("BCC") <=> Carry(flags) = 0
  BY <1>4, <1>6, NotMember, Zenon
<1> QED BY <1>5, <1>7

LEMMA BranchRuns ==
  ASSUME ProgramUnhooked, DataUnhooked, NEW name \in {"BNE", "BCC"}, NEW z \in Byte,
         Runs(name, "REL", z), 0 <= NextAt + 2 + Int8(z), NextAt + 2 + Int8(z) < INVALID_ADDRESS
  PROVE  LET taken == IF name = "BNE" THEN ~Zero(flags) ELSE Carry(flags) = 0
         IN  /\ Steps(2 + (IF taken THEN Int8(z) ELSE 0), mem, sreg)
             /\ flags' = flags
<1> DEFINE to == pc + 2 + Int8(z)
           taken == IF name = "BNE" THEN ~Zero(flags) ELSE Carry(flags) = 0
<1>1. PICK op \in Dispatched({"JMP"} \cup DOMAIN BranchOn) :
        /\ \E a \in ADDR(mem, op.addr_mode) : branch' = IF Taken(op.exec) THEN a ELSE branch
        /\ Executed /\ UNCHANGED <<mem, sreg, flags>>
  BY RunAction DEF asm_mem2pc
<1>2. op.exec = name /\ op.addr_mode = "REL"
  BY <1>1, RunDispatch
<1>3. ADDR(mem, "REL") = {Wrap16(to)}
  BY RunOperand
<1>4. pc \in Word /\ NextAt = pc /\ ~ADDR_VALID(branch)
  BY RunFacts
<1>5. Wrap16(to) = to /\ ADDR_VALID(to) /\ to = NextAt + (2 + Int8(z))
  BY <1>4, WordRange DEF Wrap16, ADDR_VALID, INVALID_ADDRESS, Int8, Byte
<1>6. branch' = IF Taken(name) THEN to ELSE branch
  BY <1>1, <1>2, <1>3, <1>5
<1>7. Taken(name) <=> taken
  BY TakenNames
<1>8. SameCode(mem, mem')
  BY <1>1 DEF SameCode
<1>9. FlowInv' /\ NextAt' = IF ADDR_VALID(branch') THEN branch' ELSE pc + 2
  BY <1>1, <1>8, StepOn
<1>10. NextAt' = NextAt + (2 + (IF taken THEN Int8(z) ELSE 0))
  <2> HIDE DEF to, taken
  <2>1. CASE taken
    BY <1>4, <1>5, <1>6, <1>7, <1>9, <2>1
  <2>2. CASE ~taken
    <3>1. NextAt' = pc + 2
      BY <1>4, <1>6, <1>7, <1>9, <2>2
    <3> QED BY <1>4, <2>2, <3>1, WordRange
  <2> QED BY <2>1, <2>2
<1>11. Offset' = Offset + (2 + (IF taken THEN Int8(z) ELSE 0))
  BY <1>4, <1>10, StartRange, WordRange DEF Offset, Int8, Byte
<1> QED BY <1>1, <1>9, <1>11 DEF Steps

-----------------------------------------------------------------------------
(* Programs in memory.                                                      *)

\* The instruction at an offset of the program.
Code(M, k, name, mode, operand) ==
  /\ k \in Nat /\ ProgramStart + k + 1 < CPU_ADDR_RESERVED_START
  /\ Ins(M, ProgramStart + k, name, mode, operand)

LEMMA ListedCode ==
  ASSUME NEW M, NEW listing, Listed(M, listing), NEW i \in DOMAIN listing,
         NEW k, NEW name, NEW mode, NEW operand, listing[i] = <<k, name, mode, operand>>
  PROVE  Code(M, k, name, mode, Wrap8(operand))
<1>1. listing[i][1] = k /\ listing[i][2] = name /\ listing[i][3] = mode /\ listing[i][4] = operand
  OBVIOUS
<1> QED BY <1>1 DEF Listed, Code, Ins

LEMMA ExecRuns ==
  ASSUME FlowInv, opcode_exec, NEW name, NEW mode, NEW z, Code(mem, Offset, name, mode, z)
  PROVE  Runs(name, mode, z)
<1>1. ProgramStart + Offset = NextAt
  BY ExecNext, StartRange DEF Offset
<1>2. InProgram
  BY <1>1, StartRange DEF Code, InProgram, CPU_ADDR_RESERVED_START
<1> QED BY <1>1, <1>2 DEF Code, Runs

\* Data is not code.
LEMMA StoreListed ==
  ASSUME NEW M, NEW z \in DataAt, NEW v, NEW listing, Listed(M, listing)
  PROVE  Listed(Store(M, z, v), listing)
<1> SUFFICES ASSUME NEW i \in DOMAIN listing
             PROVE  /\ Cell(Store(M, z, v), ProgramStart + listing[i][1])
                         = Cell(M, ProgramStart + listing[i][1])
                    /\ Cell(Store(M, z, v), ProgramStart + listing[i][1] + 1)
                         = Cell(M, ProgramStart + listing[i][1] + 1)
  BY DEF Listed
<1>1. listing[i][1] \in Nat
  BY DEF Listed
<1>2. ProgramStart + listing[i][1] # z /\ ProgramStart + listing[i][1] + 1 # z
  BY <1>1, DataIsData, StartRange
<1> QED BY <1>2, StoreCells

\* The program has arrived at the number expected.
Done(M) == Cell(M, RAt) = Cell(M, EAt) /\ Cell(M, RAt + 1) = Cell(M, EAt + 1)

\* The bytes that programs work on.
DataBytes(M) ==
  /\ Cell(M, 16) \in 0..255 /\ Cell(M, 17) \in 0..255
  /\ Cell(M, 18) \in 0..255 /\ Cell(M, 19) \in 0..255
  /\ Cell(M, 20) \in 0..255 /\ Cell(M, 21) \in 0..255
  /\ Cell(M, 22) \in 0..255 /\ Cell(M, 23) \in 0..255

LEMMA DataAddresses ==
  /\ XAt = 16 /\ XAt + 1 = 17 /\ YAt = 18 /\ YAt + 1 = 19
  /\ RAt = 20 /\ RAt + 1 = 21 /\ EAt = 22 /\ EAt + 1 = 23
  /\ DataAt = 16..23
BY DEF XAt, YAt, RAt, EAt, DataAt

LEMMA DataMembers ==
  /\ 16 \in DataAt /\ 17 \in DataAt /\ 18 \in DataAt /\ 19 \in DataAt
  /\ 20 \in DataAt /\ 21 \in DataAt
BY DataAddresses

LEMMA Numbers ==
  ASSUME NEW M
  PROVE  /\ Number(M, XAt) = 256 * Cell(M, 17) + Cell(M, 16)
         /\ Number(M, YAt) = 256 * Cell(M, 19) + Cell(M, 18)
         /\ Number(M, RAt) = 256 * Cell(M, 21) + Cell(M, 20)
         /\ Number(M, EAt) = 256 * Cell(M, 23) + Cell(M, 22)
BY DataAddresses DEF Number

LEMMA MachineBytes ==
  ASSUME FlowInv
  PROVE  /\ DataBytes(mem) /\ sreg["ACC"] \in 0..255 /\ sreg["X"] \in 0..255
         /\ sreg \in [ShortReg -> Byte] /\ Carry(flags) \in {0, 1} /\ Carry(flags') \in {0, 1}
<1>1. \A a \in 16..23 : Cell(mem, a) \in 0..255
  BY DataTypes, DataAddresses DEF Byte
<1>2. DataBytes(mem)
  BY <1>1 DEF DataBytes
<1> QED BY <1>2, DataTypes DEF Carry, GET_FLAG, Byte

\* A step that moves on by len bytes and leaves M in memory, a in A and x in X.
Moves(len, M, a, x) ==
  FlowInv' /\ Offset' = Offset + len /\ mem' = M /\ sreg'["ACC"] = a /\ sreg'["X"] = x

LEMMA StepsMove ==
  ASSUME FlowInv, NEW len, NEW M
  PROVE  /\ Steps(len, M, sreg) => Moves(len, M, sreg["ACC"], sreg["X"])
         /\ \A v : Steps(len, M, [sreg EXCEPT !["ACC"] = v]) => Moves(len, M, v, sreg["X"])
         /\ \A v : Steps(len, M, [sreg EXCEPT !["X"] = v]) => Moves(len, M, sreg["ACC"], v)
BY MachineBytes DEF Steps, Moves, ShortReg

\* The instructions again, in a program: what each leaves behind.
Going(name, mode, z) ==
  /\ ProgramUnhooked /\ DataUnhooked /\ FlowInv /\ opcode_exec
  /\ Code(mem, Offset, name, mode, z)

LEMMA LdaGoes ==
  ASSUME NEW z \in DataAt, Going("LDA", "ZPA", z)
  PROVE  /\ Moves(2, mem, Cell(mem, z), sreg["X"]) /\ Carry(flags') = Carry(flags)
         /\ Zero(flags') <=> Cell(mem, z) = 0
<1>1. Runs("LDA", "ZPA", z)
  BY ExecRuns DEF Going
<1> QED BY <1>1, LoadRuns, StepsMove DEF Going, LoadInto

LEMMA ImmediateGoes ==
  ASSUME NEW z
  PROVE  /\ Going("LDA", "IMM", z)
              => Moves(2, mem, z, sreg["X"]) /\ Carry(flags') = Carry(flags)
         /\ Going("LDX", "IMM", z)
              => Moves(2, mem, sreg["ACC"], z) /\ Carry(flags') = Carry(flags)
<1>1. ASSUME Going("LDA", "IMM", z)
      PROVE  Moves(2, mem, z, sreg["X"]) /\ Carry(flags') = Carry(flags)
  <2>1. Runs("LDA", "IMM", z)
    BY <1>1, ExecRuns DEF Going
  <2> QED BY <1>1, <2>1, LoadRuns, StepsMove DEF Going, LoadInto
<1>2. ASSUME Going("LDX", "IMM", z)
      PROVE  Moves(2, mem, sreg["ACC"], z) /\ Carry(flags') = Carry(flags)
  <2>1. Runs("LDX", "IMM", z)
    BY <1>2, ExecRuns DEF Going
  <2> QED BY <1>2, <2>1, LoadRuns, StepsMove DEF Going, LoadInto
<1> QED BY <1>1, <1>2

LEMMA StaGoes ==
  ASSUME NEW z \in DataAt, Going("STA", "ZPA", z)
  PROVE  Moves(2, Store(mem, z, sreg["ACC"]), sreg["ACC"], sreg["X"]) /\ flags' = flags
<1>1. Runs("STA", "ZPA", z)
  BY ExecRuns DEF Going
<1> QED BY <1>1, StoreRuns, StepsMove DEF Going

LEMMA AdcGoes ==
  ASSUME NEW z \in DataAt, Going("ADC", "ZPA", z)
  PROVE  \E r \in 0..255 :
           /\ Moves(2, mem, r, sreg["X"])
           /\ r + 256 * Carry(flags') = sreg["ACC"] + Cell(mem, z) + Carry(flags)
<1>1. Runs("ADC", "ZPA", z)
  BY ExecRuns DEF Going
<1>2. PICK r \in 0..255 :
        /\ Steps(2, mem, [sreg EXCEPT !["ACC"] = r])
        /\ r + 256 * Carry(flags') = sreg["ACC"] + Cell(mem, z) + Carry(flags)
  BY <1>1, AddRuns, Zenon DEF Going
<1>3. Moves(2, mem, r, sreg["X"])
  BY <1>2, StepsMove DEF Going
<1> QED BY <1>2, <1>3, Zenon

LEMMA SbcGoes ==
  ASSUME NEW z \in DataAt, Going("SBC", "ZPA", z)
  PROVE  \E r \in 0..255 :
           /\ Moves(2, mem, r, sreg["X"])
           /\ r - 256 * (1 - Carry(flags')) = sreg["ACC"] - Cell(mem, z) - (1 - Carry(flags))
<1>1. Runs("SBC", "ZPA", z)
  BY ExecRuns DEF Going
<1>2. PICK r \in 0..255 :
        /\ Steps(2, mem, [sreg EXCEPT !["ACC"] = r])
        /\ r - 256 * (1 - Carry(flags')) = sreg["ACC"] - Cell(mem, z) - (1 - Carry(flags))
  BY <1>1, SubRuns, Zenon DEF Going
<1>3. Moves(2, mem, r, sreg["X"])
  BY <1>2, StepsMove DEF Going
<1> QED BY <1>2, <1>3, Zenon

LEMMA CmpGoes ==
  ASSUME NEW z \in DataAt, Going("CMP", "ZPA", z)
  PROVE  /\ Moves(2, mem, sreg["ACC"], sreg["X"])
         /\ Carry(flags') = 1 <=> sreg["ACC"] >= Cell(mem, z)
<1>1. Runs("CMP", "ZPA", z)
  BY ExecRuns DEF Going
<1> QED BY <1>1, CompareRuns, StepsMove DEF Going

LEMMA LeftGoes ==
  ASSUME NEW name \in {"ASL", "ROL"}, NEW z \in DataAt, Going(name, "ZPA", z)
  PROVE  \E r \in 0..255 :
           /\ Moves(2, Store(mem, z, r), sreg["ACC"], sreg["X"])
           /\ r + 256 * Carry(flags')
                = 2 * Cell(mem, z) + (IF name = "ROL" THEN Carry(flags) ELSE 0)
<1>1. Runs(name, "ZPA", z) /\ name \in {"ASL", "ROL", "LSR", "ROR"}
  BY ExecRuns DEF Going
<1>2. PICK r \in 0..255 : Shifted(name, z, r)
  BY <1>1, ShiftRuns, Zenon DEF Going
<1>3. Moves(2, Store(mem, z, r), sreg["ACC"], sreg["X"])
  BY <1>2, StepsMove DEF Going, Shifted
<1>4. r + 256 * Carry(flags') = 2 * Cell(mem, z) + (IF name = "ROL" THEN Carry(flags) ELSE 0)
  BY <1>2 DEF Shifted
<1> QED BY <1>3, <1>4, Zenon

LEMMA RightGoes ==
  ASSUME NEW name \in {"LSR", "ROR"}, NEW z \in DataAt, Going(name, "ZPA", z)
  PROVE  \E r \in 0..255 :
           /\ Moves(2, Store(mem, z, r), sreg["ACC"], sreg["X"])
           /\ 2 * r + Carry(flags')
                = Cell(mem, z) + 256 * (IF name = "ROR" THEN Carry(flags) ELSE 0)
<1>1. Runs(name, "ZPA", z) /\ name \in {"ASL", "ROL", "LSR", "ROR"}
  BY ExecRuns DEF Going
<1>2. PICK r \in 0..255 : Shifted(name, z, r)
  BY <1>1, ShiftRuns, Zenon DEF Going
<1>3. Moves(2, Store(mem, z, r), sreg["ACC"], sreg["X"])
  BY <1>2, StepsMove DEF Going, Shifted
<1>4. 2 * r + Carry(flags') = Cell(mem, z) + 256 * (IF name = "ROR" THEN Carry(flags) ELSE 0)
  BY <1>2 DEF Shifted
<1> QED BY <1>3, <1>4, Zenon

LEMMA RotateGoes ==
  ASSUME NEW name \in {"ROL", "ROR"}, NEW z, Going(name, "ACC", z)
  PROVE  \E r \in 0..255 :
           /\ Moves(1, mem, r, sreg["X"])
           /\ name = "ROL" => r + 256 * Carry(flags') = 2 * sreg["ACC"] + Carry(flags)
           /\ name = "ROR" => 2 * r + Carry(flags') = sreg["ACC"] + 256 * Carry(flags)
<1>1. Runs(name, "ACC", z)
  BY ExecRuns DEF Going
<1>2. PICK r \in 0..255 :
        /\ Steps(1, mem, [sreg EXCEPT !["ACC"] = r])
        /\ name = "ROL" => r + 256 * Carry(flags') = 2 * sreg["ACC"] + Carry(flags)
        /\ name = "ROR" => 2 * r + Carry(flags') = sreg["ACC"] + 256 * Carry(flags)
  BY <1>1, RotateRuns, ZenonT(30) DEF Going
<1>3. Moves(1, mem, r, sreg["X"])
  BY <1>2, StepsMove DEF Going
<1> QED BY <1>2, <1>3, Zenon

LEMMA IncDecGoes ==
  ASSUME NEW z \in DataAt
  PROVE  /\ Going("INC", "ZPA", z)
              => LET r == Wrap8(Cell(mem, z) + 1)
                 IN  /\ Moves(2, Store(mem, z, r), sreg["ACC"], sreg["X"])
                     /\ Carry(flags') = Carry(flags) /\ (Zero(flags') <=> r = 0)
         /\ Going("DEC", "ZPA", z)
              => LET r == Wrap8(Cell(mem, z) - 1)
                 IN  /\ Moves(2, Store(mem, z, r), sreg["ACC"], sreg["X"])
                     /\ Carry(flags') = Carry(flags) /\ (Zero(flags') <=> r = 0)
<1>1. ASSUME Going("INC", "ZPA", z)
      PROVE  LET r == Wrap8(Cell(mem, z) + 1)
             IN  /\ Moves(2, Store(mem, z, r), sreg["ACC"], sreg["X"])
                 /\ Carry(flags') = Carry(flags) /\ (Zero(flags') <=> r = 0)
  <2>1. Runs("INC", "ZPA", z) /\ StepMem["INC"] = 1
    BY <1>1, ExecRuns DEF Going, StepMem
  <2> QED BY <1>1, <2>1, StepMemRuns, StepsMove DEF Going
<1>2. ASSUME Going("DEC", "ZPA", z)
      PROVE  LET r == Wrap8(Cell(mem, z) - 1)
             IN  /\ Moves(2, Store(mem, z, r), sreg["ACC"], sreg["X"])
                 /\ Carry(flags') = Carry(flags) /\ (Zero(flags') <=> r = 0)
  <2>1. Runs("DEC", "ZPA", z) /\ StepMem["DEC"] = -1
    BY <1>2, ExecRuns DEF Going, StepMem
  <2>2. Cell(mem, z) - 1 = Cell(mem, z) + StepMem["DEC"]
    BY <1>2, <2>1, DataTypes DEF Going, Byte
  <2> QED BY <1>2, <2>1, <2>2, StepMemRuns, StepsMove DEF Going
<1> QED BY <1>1, <1>2

LEMMA DexGoes ==
  ASSUME NEW z, Going("DEX", "IMP", z)
  PROVE  LET r == Wrap8(sreg["X"] - 1)
         IN  /\ Moves(1, mem, sreg["ACC"], r)
             /\ Carry(flags') = Carry(flags) /\ (Zero(flags') <=> r = 0)
<1>1. Runs("DEX", "IMP", z)
  BY ExecRuns DEF Going
<1> QED BY <1>1, CountRuns, StepsMove DEF Going

LEMMA CarryGoes ==
  ASSUME NEW z
  PROVE  /\ Going("CLC", "IMP", z)
              => Moves(1, mem, sreg["ACC"], sreg["X"]) /\ Carry(flags') = 0
         /\ Going("SEC", "IMP", z)
              => Moves(1, mem, sreg["ACC"], sreg["X"]) /\ Carry(flags') = 1
<1>1. ASSUME NEW name \in {"CLC", "SEC"}, Going(name, "IMP", z)
      PROVE  /\ Moves(1, mem, sreg["ACC"], sreg["X"])
             /\ Carry(flags') = IF name = "SEC" THEN 1 ELSE 0
  <2>1. Runs(name, "IMP", z)
    BY <1>1, ExecRuns DEF Going
  <2> QED BY <1>1, <2>1, CarryRuns, StepsMove DEF Going
<1> QED BY <1>1

LEMMA BranchGoes ==
  ASSUME NEW name \in {"BNE", "BCC"}, NEW z \in Byte, Going(name, "REL", z),
         NEW k, NEW m, NEW n, NEW y, Code(mem, k, m, n, y),
         0 <= Offset + 2 + Int8(z), Offset + 2 + Int8(z) <= k
  PROVE  LET taken == IF name = "BNE" THEN ~Zero(flags) ELSE Carry(flags) = 0
         IN  /\ Moves(2 + (IF taken THEN Int8(z) ELSE 0), mem, sreg["ACC"], sreg["X"])
             /\ flags' = flags
<1>1. Runs(name, "REL", z)
  BY ExecRuns DEF Going
<1>2. NextAt \in Int /\ ProgramStart \in Int /\ ProgramStart >= 0
  BY ExecNext, StartRange DEF Going
<1>3. k \in Nat /\ ProgramStart + k + 1 < INVALID_ADDRESS
  BY <1>2 DEF Code, CPU_ADDR_RESERVED_START, INVALID_ADDRESS
<1>4. 0 <= NextAt + 2 + Int8(z) /\ NextAt + 2 + Int8(z) < INVALID_ADDRESS
  BY <1>2, <1>3 DEF Offset, Int8, Byte, INVALID_ADDRESS
<1> QED BY <1>1, <1>4, BranchRuns, StepsMove DEF Going

\* The programs end at their BRK.
LEMMA BrkGoes ==
  ASSUME NEW z, Going("BRK", "IMP", z)
  PROVE  asm_break
<1>1. Runs("BRK", "IMP", z)
  BY ExecRuns DEF Going
<1> QED BY <1>1, RunAction DEF Going

\* Writing the result leaves the operands and the program.
LEMMA StoreResult ==
  ASSUME NEW M, NEW z \in {20, 21}, NEW v
  PROVE  /\ Cell(Store(M, z, v), 16) = Cell(M, 16) /\ Cell(Store(M, z, v), 17) = Cell(M, 17)
         /\ Cell(Store(M, z, v), 18) = Cell(M, 18) /\ Cell(Store(M, z, v), 19) = Cell(M, 19)
         /\ Cell(Store(M, z, v), 22) = Cell(M, 22) /\ Cell(Store(M, z, v), 23) = Cell(M, 23)
         /\ Cell(Store(M, z, v), z) = v
         /\ z = 20 => Cell(Store(M, z, v), 21) = Cell(M, 21)
         /\ z = 21 => Cell(Store(M, z, v), 20) = Cell(M, 20)
         /\ \A listing : Listed(M, listing) => Listed(Store(M, z, v), listing)
<1>1. z \in DataAt
  BY DataMembers
<1>2. \A listing : Listed(M, listing) => Listed(Store(M, z, v), listing)
  BY <1>1, StoreListed
<1> QED BY <1>2, StoreCells

-----------------------------------------------------------------------------
(* Addition.                                                                *)

\* What is true before the instruction at an offset, of the memory, the
\* accumulator and the carry.
Adding(k, M, a, c) ==
  LET sum == Number(M, XAt) + Number(M, YAt)
      low == Cell(M, 16) + Cell(M, 18)
  IN  /\ Listed(M, AddListing) /\ Number(M, EAt) = Wrap16(sum)
      /\ \/ k = 0
         \/ k = 1 /\ c = 0
         \/ k = 3 /\ c = 0 /\ a = Cell(M, 16)
         \/ k = 5 /\ a + 256 * c = low
         \/ k = 7 /\ Cell(M, 20) + 256 * c = low
         \/ k = 9 /\ Cell(M, 20) + 256 * c = low /\ a = Cell(M, 17)
         \/ k = 11 /\ Cell(M, 20) + 256 * (a + 256 * c) = sum
         \/ k = 13 /\ Done(M)

LEMMA AddCode ==
  ASSUME NEW M, Listed(M, AddListing)
  PROVE  /\ Code(M, 0, "CLC", "IMP", 0)
         /\ Code(M, 1, "LDA", "ZPA", 16) /\ Code(M, 3, "ADC", "ZPA", 18)
         /\ Code(M, 5, "STA", "ZPA", 20) /\ Code(M, 7, "LDA", "ZPA", 17)
         /\ Code(M, 9, "ADC", "ZPA", 19) /\ Code(M, 11, "STA", "ZPA", 21)
         /\ Code(M, 13, "BRK", "IMP", 0)
<1> DEFINE L == AddListing
<1>1. /\ L[1] = <<0, "CLC", "IMP", 0>> /\ L[2] = <<1, "LDA", "ZPA", 16>>
      /\ L[3] = <<3, "ADC", "ZPA", 18>> /\ L[4] = <<5, "STA", "ZPA", 20>>
      /\ L[5] = <<7, "LDA", "ZPA", 17>> /\ L[6] = <<9, "ADC", "ZPA", 19>>
      /\ L[7] = <<11, "STA", "ZPA", 21>> /\ L[8] = <<13, "BRK", "IMP", 0>>
      /\ DOMAIN L = 1..8
  BY DataAddresses DEF AddListing, PerByte
<1>2. \A n \in 0..255 : Wrap8(n) = n
  BY DEF Wrap8
<1> HIDE DEF L
<1>3. \A i \in 1..8 : \A k, name, mode, z :
        L[i] = <<k, name, mode, z>> => Code(M, k, name, mode, Wrap8(z))
  BY <1>1, ListedCode DEF L
<1> QED BY <1>1, <1>2, <1>3

LEMMA AddGoes ==
  ASSUME ProgramUnhooked, DataUnhooked, FlowInv, opcode_exec, ~asm_break,
         Adding(Offset, mem, sreg["ACC"], Carry(flags))
  PROVE  FlowInv' /\ Adding(Offset', mem', sreg'["ACC"], Carry(flags'))
<1> DEFINE a  == sreg["ACC"]      x  == sreg["X"]
           c  == Carry(flags)     d  == Carry(flags')
           x0 == Cell(mem, 16)    x1 == Cell(mem, 17)
           y0 == Cell(mem, 18)    y1 == Cell(mem, 19)
           r0 == Cell(mem, 20)
           e0 == Cell(mem, 22)    e1 == Cell(mem, 23)
           sum == (256 * x1 + x0) + (256 * y1 + y0)
<1>1. /\ a \in 0..255 /\ c \in {0, 1} /\ d \in {0, 1} /\ r0 \in 0..255
      /\ x0 \in 0..255 /\ x1 \in 0..255 /\ y0 \in 0..255 /\ y1 \in 0..255
      /\ e0 \in 0..255 /\ e1 \in 0..255
  BY MachineBytes DEF DataBytes
<1>2. /\ Listed(mem, AddListing)
      /\ Number(mem, EAt) = Wrap16(Number(mem, XAt) + Number(mem, YAt))
      /\ 256 * e1 + e0 = Wrap16(sum)
  BY Numbers DEF Adding
<1>3. /\ Offset = 0  => Going("CLC", "IMP", 0)
      /\ Offset = 1  => Going("LDA", "ZPA", 16)
      /\ Offset = 3  => Going("ADC", "ZPA", 18)
      /\ Offset = 5  => Going("STA", "ZPA", 20)
      /\ Offset = 7  => Going("LDA", "ZPA", 17)
      /\ Offset = 9  => Going("ADC", "ZPA", 19)
      /\ Offset = 11 => Going("STA", "ZPA", 21)
      /\ Offset = 13 => Going("BRK", "IMP", 0)
  BY <1>2, AddCode DEF Going
<1>4. /\ Offset = 3 => c = 0 /\ a = x0
      /\ Offset = 5 => a + 256 * c = x0 + y0
      /\ Offset = 7 => r0 + 256 * c = x0 + y0
      /\ Offset = 9 => r0 + 256 * c = x0 + y0 /\ a = x1
      /\ Offset = 11 => r0 + 256 * (a + 256 * c) = sum
      /\ Offset \in {0, 1, 3, 5, 7, 9, 11, 13}
  BY Numbers DEF Adding
<1> HIDE DEF a, x, c, d, x0, x1, y0, y1, r0, e0, e1
<1>5. CASE Offset = 0
  <2>1. Moves(1, mem, a, x) /\ d = 0
    BY <1>3, <1>5, CarryGoes DEF a, x, d
  <2> QED BY <1>2, <1>5, <2>1 DEF Adding, Moves, d
<1>6. CASE Offset = 1
  <2>1. Moves(2, mem, x0, x) /\ d = c
    BY <1>3, <1>6, LdaGoes, DataMembers DEF x, x0, c, d
  <2> QED BY <1>2, <1>6, <2>1 DEF Adding, Moves, x0, c, d
<1>7. CASE Offset = 3
  <2>1. PICK r \in 0..255 : Moves(2, mem, r, x) /\ r + 256 * d = a + y0 + c
    BY <1>3, <1>7, AdcGoes, DataMembers, Zenon DEF a, x, y0, c, d
  <2>2. r + 256 * d = x0 + y0
    BY <1>1, <1>4, <1>7, <2>1
  <2> QED BY <1>2, <1>7, <2>1, <2>2 DEF Adding, Moves, x0, y0, d
<1>8. CASE Offset = 5
  <2>1. Moves(2, Store(mem, 20, a), a, x) /\ d = c
    BY <1>3, <1>8, StaGoes, DataMembers DEF a, x, c, d
  <2> QED BY <1>2, <1>4, <1>8, <2>1, StoreResult, Numbers DEF Adding, Moves, x0, y0, d
<1>9. CASE Offset = 7
  <2>1. Moves(2, mem, x1, x) /\ d = c
    BY <1>3, <1>9, LdaGoes, DataMembers DEF x, x1, c, d
  <2> QED BY <1>2, <1>4, <1>9, <2>1 DEF Adding, Moves, x0, x1, y0, r0, d
<1>10. CASE Offset = 9
  <2>1. PICK r \in 0..255 : Moves(2, mem, r, x) /\ r + 256 * d = a + y1 + c
    BY <1>3, <1>10, AdcGoes, DataMembers, Zenon DEF a, x, y1, c, d
  <2>2. r0 + 256 * (r + 256 * d) = sum
    BY <1>1, <1>4, <1>10, <2>1
  <2> QED BY <1>2, <1>10, <2>1, <2>2, Numbers DEF Adding, Moves, x0, x1, y0, y1, r0, d
<1>11. CASE Offset = 11
  <2>1. Moves(2, Store(mem, 21, a), a, x)
    BY <1>3, <1>11, StaGoes, DataMembers DEF a, x
  <2>2. r0 + 256 * (a + 256 * c) = sum
    BY <1>1, <1>4, <1>11
  <2>3. a = e1 /\ r0 = e0
    <3> DEFINE t == 256 * a + r0
    <3>1. sum \in Int /\ t \in Int /\ 0 <= t /\ t < 65536 /\ (sum = t \/ sum = t + 65536)
      BY <1>1, <2>2
    <3> HIDE DEF sum, t
    <3>2. Wrap16(sum) = t
      BY <3>1, WrapUnique
    <3>3. 256 * e1 + e0 = 256 * a + r0
      BY <1>2, <3>2 DEF t
    <3> QED BY <1>1, <3>3
  <2>4. Done(mem')
    BY <2>1, <2>3, StoreResult, DataAddresses DEF Done, Moves, a, r0, e0, e1
  <2> QED BY <1>2, <1>11, <2>1, <2>4, StoreResult, Numbers DEF Adding, Moves
<1>12. CASE Offset = 13
  BY <1>3, <1>12, BrkGoes
<1> QED BY <1>4, <1>5, <1>6, <1>7, <1>8, <1>9, <1>10, <1>11, <1>12

-----------------------------------------------------------------------------
(* Subtraction: the carry is 1 when nothing is borrowed.                    *)

\* What is true before the instruction at an offset, of the memory, the
\* accumulator and the carry.
Subtracting(k, M, a, c) ==
  LET difference == Number(M, XAt) - Number(M, YAt)
      low        == Cell(M, 16) - Cell(M, 18)
  IN  /\ Listed(M, SubListing) /\ Number(M, EAt) = Wrap16(difference)
      /\ \/ k = 0
         \/ k = 1 /\ c = 1
         \/ k = 3 /\ c = 1 /\ a = Cell(M, 16)
         \/ k = 5 /\ a - 256 * (1 - c) = low
         \/ k = 7 /\ Cell(M, 20) - 256 * (1 - c) = low
         \/ k = 9 /\ Cell(M, 20) - 256 * (1 - c) = low /\ a = Cell(M, 17)
         \/ k = 11 /\ Cell(M, 20) + 256 * (a - 256 * (1 - c)) = difference
         \/ k = 13 /\ Done(M)

LEMMA SubCode ==
  ASSUME NEW M, Listed(M, SubListing)
  PROVE  /\ Code(M, 0, "SEC", "IMP", 0)
         /\ Code(M, 1, "LDA", "ZPA", 16) /\ Code(M, 3, "SBC", "ZPA", 18)
         /\ Code(M, 5, "STA", "ZPA", 20) /\ Code(M, 7, "LDA", "ZPA", 17)
         /\ Code(M, 9, "SBC", "ZPA", 19) /\ Code(M, 11, "STA", "ZPA", 21)
         /\ Code(M, 13, "BRK", "IMP", 0)
<1> DEFINE L == SubListing
<1>1. /\ L[1] = <<0, "SEC", "IMP", 0>> /\ L[2] = <<1, "LDA", "ZPA", 16>>
      /\ L[3] = <<3, "SBC", "ZPA", 18>> /\ L[4] = <<5, "STA", "ZPA", 20>>
      /\ L[5] = <<7, "LDA", "ZPA", 17>> /\ L[6] = <<9, "SBC", "ZPA", 19>>
      /\ L[7] = <<11, "STA", "ZPA", 21>> /\ L[8] = <<13, "BRK", "IMP", 0>>
      /\ DOMAIN L = 1..8
  BY DataAddresses DEF SubListing, PerByte
<1>2. \A n \in 0..255 : Wrap8(n) = n
  BY DEF Wrap8
<1> HIDE DEF L
<1>3. \A i \in 1..8 : \A k, name, mode, z :
        L[i] = <<k, name, mode, z>> => Code(M, k, name, mode, Wrap8(z))
  BY <1>1, ListedCode DEF L
<1> QED BY <1>1, <1>2, <1>3

LEMMA SubGoes ==
  ASSUME ProgramUnhooked, DataUnhooked, FlowInv, opcode_exec, ~asm_break,
         Subtracting(Offset, mem, sreg["ACC"], Carry(flags))
  PROVE  FlowInv' /\ Subtracting(Offset', mem', sreg'["ACC"], Carry(flags'))
<1> DEFINE a  == sreg["ACC"]      x  == sreg["X"]
           c  == Carry(flags)     d  == Carry(flags')
           x0 == Cell(mem, 16)    x1 == Cell(mem, 17)
           y0 == Cell(mem, 18)    y1 == Cell(mem, 19)
           r0 == Cell(mem, 20)
           e0 == Cell(mem, 22)    e1 == Cell(mem, 23)
           difference == (256 * x1 + x0) - (256 * y1 + y0)
<1>1. /\ a \in 0..255 /\ c \in {0, 1} /\ d \in {0, 1} /\ r0 \in 0..255
      /\ x0 \in 0..255 /\ x1 \in 0..255 /\ y0 \in 0..255 /\ y1 \in 0..255
      /\ e0 \in 0..255 /\ e1 \in 0..255
  BY MachineBytes DEF DataBytes
<1>2. /\ Listed(mem, SubListing)
      /\ Number(mem, EAt) = Wrap16(Number(mem, XAt) - Number(mem, YAt))
      /\ 256 * e1 + e0 = Wrap16(difference)
  BY Numbers DEF Subtracting
<1>3. /\ Offset = 0  => Going("SEC", "IMP", 0)
      /\ Offset = 1  => Going("LDA", "ZPA", 16)
      /\ Offset = 3  => Going("SBC", "ZPA", 18)
      /\ Offset = 5  => Going("STA", "ZPA", 20)
      /\ Offset = 7  => Going("LDA", "ZPA", 17)
      /\ Offset = 9  => Going("SBC", "ZPA", 19)
      /\ Offset = 11 => Going("STA", "ZPA", 21)
      /\ Offset = 13 => Going("BRK", "IMP", 0)
  BY <1>2, SubCode DEF Going
<1>4. /\ Offset = 3 => c = 1 /\ a = x0
      /\ Offset = 5 => a - 256 * (1 - c) = x0 - y0
      /\ Offset = 7 => r0 - 256 * (1 - c) = x0 - y0
      /\ Offset = 9 => r0 - 256 * (1 - c) = x0 - y0 /\ a = x1
      /\ Offset = 11 => r0 + 256 * (a - 256 * (1 - c)) = difference
      /\ Offset \in {0, 1, 3, 5, 7, 9, 11, 13}
  BY Numbers DEF Subtracting
<1> HIDE DEF a, x, c, d, x0, x1, y0, y1, r0, e0, e1
<1>5. CASE Offset = 0
  <2>1. Moves(1, mem, a, x) /\ d = 1
    BY <1>3, <1>5, CarryGoes DEF a, x, d
  <2> QED BY <1>2, <1>5, <2>1 DEF Subtracting, Moves, d
<1>6. CASE Offset = 1
  <2>1. Moves(2, mem, x0, x) /\ d = c
    BY <1>3, <1>6, LdaGoes, DataMembers DEF x, x0, c, d
  <2> QED BY <1>2, <1>6, <2>1 DEF Subtracting, Moves, x0, c, d
<1>7. CASE Offset = 3
  <2>1. PICK r \in 0..255 : Moves(2, mem, r, x) /\ r - 256 * (1 - d) = a - y0 - (1 - c)
    BY <1>3, <1>7, SbcGoes, DataMembers, Zenon DEF a, x, y0, c, d
  <2>2. r - 256 * (1 - d) = x0 - y0
    BY <1>1, <1>4, <1>7, <2>1
  <2> QED BY <1>2, <1>7, <2>1, <2>2 DEF Subtracting, Moves, x0, y0, d
<1>8. CASE Offset = 5
  <2>1. Moves(2, Store(mem, 20, a), a, x) /\ d = c
    BY <1>3, <1>8, StaGoes, DataMembers DEF a, x, c, d
  <2> QED BY <1>2, <1>4, <1>8, <2>1, StoreResult, Numbers DEF Subtracting, Moves, x0, y0, d
<1>9. CASE Offset = 7
  <2>1. Moves(2, mem, x1, x) /\ d = c
    BY <1>3, <1>9, LdaGoes, DataMembers DEF x, x1, c, d
  <2> QED BY <1>2, <1>4, <1>9, <2>1 DEF Subtracting, Moves, x0, x1, y0, r0, d
<1>10. CASE Offset = 9
  <2>1. PICK r \in 0..255 : Moves(2, mem, r, x) /\ r - 256 * (1 - d) = a - y1 - (1 - c)
    BY <1>3, <1>10, SbcGoes, DataMembers, Zenon DEF a, x, y1, c, d
  <2>2. r0 + 256 * (r - 256 * (1 - d)) = difference
    BY <1>1, <1>4, <1>10, <2>1
  <2> QED BY <1>2, <1>10, <2>1, <2>2, Numbers DEF Subtracting, Moves, x0, x1, y0, y1, r0, d
<1>11. CASE Offset = 11
  <2>1. Moves(2, Store(mem, 21, a), a, x)
    BY <1>3, <1>11, StaGoes, DataMembers DEF a, x
  <2>2. r0 + 256 * (a - 256 * (1 - c)) = difference
    BY <1>1, <1>4, <1>11
  <2>3. a = e1 /\ r0 = e0
    <3> DEFINE t == 256 * a + r0
    <3>1. /\ difference \in Int /\ t \in Int /\ 0 <= t /\ t < 65536
          /\ (difference = t \/ difference = t - 65536)
      BY <1>1, <2>2
    <3> HIDE DEF difference, t
    <3>2. Wrap16(difference) = t
      BY <3>1, WrapUnique
    <3>3. 256 * e1 + e0 = 256 * a + r0
      BY <1>2, <3>2 DEF t
    <3> QED BY <1>1, <3>3
  <2>4. Done(mem')
    BY <2>1, <2>3, StoreResult, DataAddresses DEF Done, Moves, a, r0, e0, e1
  <2> QED BY <1>2, <1>11, <2>1, <2>4, StoreResult, Numbers DEF Subtracting, Moves
<1>12. CASE Offset = 13
  BY <1>3, <1>12, BrkGoes
<1> QED BY <1>4, <1>5, <1>6, <1>7, <1>8, <1>9, <1>10, <1>11, <1>12

-----------------------------------------------------------------------------
(* Comparison.                                                              *)

\* What is true before the instruction at an offset.
Comparing(k, M, a, c) ==
  LET atLeast == Number(M, XAt) >= Number(M, YAt)
      low     == c = 1 <=> Cell(M, 16) >= Cell(M, 18)
  IN  /\ Listed(M, NotBelowListing) /\ Number(M, EAt) = IF atLeast THEN 1 ELSE 0
      /\ Cell(M, 21) = 0
      /\ \/ k = 0
         \/ k = 2  /\ a = Cell(M, 16)
         \/ k = 4  /\ low
         \/ k = 6  /\ low /\ a = Cell(M, 17)
         \/ k = 8  /\ c = IF atLeast THEN 1 ELSE 0
         \/ k = 10 /\ c = (IF atLeast THEN 1 ELSE 0) /\ a = 0
         \/ k = 11 /\ a = IF atLeast THEN 1 ELSE 0
         \/ k = 13 /\ Done(M)

LEMMA NotBelowCode ==
  ASSUME NEW M, Listed(M, NotBelowListing)
  PROVE  /\ Code(M, 0, "LDA", "ZPA", 16) /\ Code(M, 2, "CMP", "ZPA", 18)
         /\ Code(M, 4, "LDA", "ZPA", 17) /\ Code(M, 6, "SBC", "ZPA", 19)
         /\ Code(M, 8, "LDA", "IMM", 0) /\ Code(M, 10, "ROL", "ACC", 0)
         /\ Code(M, 11, "STA", "ZPA", 20) /\ Code(M, 13, "BRK", "IMP", 0)
<1> DEFINE L == NotBelowListing
<1>1. /\ L[1] = <<0, "LDA", "ZPA", 16>> /\ L[2] = <<2, "CMP", "ZPA", 18>>
      /\ L[3] = <<4, "LDA", "ZPA", 17>> /\ L[4] = <<6, "SBC", "ZPA", 19>>
      /\ L[5] = <<8, "LDA", "IMM", 0>> /\ L[6] = <<10, "ROL", "ACC", 0>>
      /\ L[7] = <<11, "STA", "ZPA", 20>> /\ L[8] = <<13, "BRK", "IMP", 0>>
      /\ DOMAIN L = 1..8
  BY DataAddresses DEF NotBelowListing
<1>2. \A n \in 0..255 : Wrap8(n) = n
  BY DEF Wrap8
<1> HIDE DEF L
<1>3. \A i \in 1..8 : \A k, name, mode, z :
        L[i] = <<k, name, mode, z>> => Code(M, k, name, mode, Wrap8(z))
  BY <1>1, ListedCode DEF L
<1> QED BY <1>1, <1>2, <1>3

LEMMA NotBelowGoes ==
  ASSUME ProgramUnhooked, DataUnhooked, FlowInv, opcode_exec, ~asm_break,
         Comparing(Offset, mem, sreg["ACC"], Carry(flags))
  PROVE  FlowInv' /\ Comparing(Offset', mem', sreg'["ACC"], Carry(flags'))
<1> DEFINE a  == sreg["ACC"]      x  == sreg["X"]
           c  == Carry(flags)     d  == Carry(flags')
           x0 == Cell(mem, 16)    x1 == Cell(mem, 17)
           y0 == Cell(mem, 18)    y1 == Cell(mem, 19)
           r1 == Cell(mem, 21)
           e0 == Cell(mem, 22)    e1 == Cell(mem, 23)
           atLeast == 256 * x1 + x0 >= 256 * y1 + y0
<1>1. /\ a \in 0..255 /\ c \in {0, 1} /\ d \in {0, 1}
      /\ x0 \in 0..255 /\ x1 \in 0..255 /\ y0 \in 0..255 /\ y1 \in 0..255
      /\ e0 \in 0..255 /\ e1 \in 0..255
  BY MachineBytes DEF DataBytes
<1>2. /\ Listed(mem, NotBelowListing) /\ r1 = 0
      /\ Number(mem, EAt) = IF Number(mem, XAt) >= Number(mem, YAt) THEN 1 ELSE 0
      /\ 256 * e1 + e0 = IF atLeast THEN 1 ELSE 0
  BY Numbers DEF Comparing
<1>3. /\ Offset = 0  => Going("LDA", "ZPA", 16)
      /\ Offset = 2  => Going("CMP", "ZPA", 18)
      /\ Offset = 4  => Going("LDA", "ZPA", 17)
      /\ Offset = 6  => Going("SBC", "ZPA", 19)
      /\ Offset = 8  => Going("LDA", "IMM", 0)
      /\ Offset = 10 => Going("ROL", "ACC", 0)
      /\ Offset = 11 => Going("STA", "ZPA", 20)
      /\ Offset = 13 => Going("BRK", "IMP", 0)
  BY <1>2, NotBelowCode DEF Going
<1>4. /\ Offset = 2  => a = x0
      /\ Offset = 4  => (c = 1 <=> x0 >= y0)
      /\ Offset = 6  => (c = 1 <=> x0 >= y0) /\ a = x1
      /\ Offset = 8  => c = IF atLeast THEN 1 ELSE 0
      /\ Offset = 10 => c = (IF atLeast THEN 1 ELSE 0) /\ a = 0
      /\ Offset = 11 => a = IF atLeast THEN 1 ELSE 0
      /\ Offset \in {0, 2, 4, 6, 8, 10, 11, 13}
  BY Numbers DEF Comparing
<1> HIDE DEF a, x, c, d, x0, x1, y0, y1, r1, e0, e1
<1>5. CASE Offset = 0
  <2>1. Moves(2, mem, x0, x)
    BY <1>3, <1>5, LdaGoes, DataMembers DEF x0, x
  <2> QED BY <1>2, <1>5, <2>1 DEF Comparing, Moves, x0, r1
<1>6. CASE Offset = 2
  <2>1. Moves(2, mem, a, x) /\ (d = 1 <=> a >= y0)
    BY <1>3, <1>6, CmpGoes, DataMembers DEF a, x, y0, d
  <2> QED BY <1>2, <1>4, <1>6, <2>1 DEF Comparing, Moves, x0, y0, r1, d
<1>7. CASE Offset = 4
  <2>1. Moves(2, mem, x1, x) /\ d = c
    BY <1>3, <1>7, LdaGoes, DataMembers DEF x, x1, c, d
  <2> QED BY <1>2, <1>4, <1>7, <2>1 DEF Comparing, Moves, x0, x1, y0, r1, d
<1>8. CASE Offset = 6
  <2>1. PICK r \in 0..255 : Moves(2, mem, r, x) /\ r - 256 * (1 - d) = a - y1 - (1 - c)
    BY <1>3, <1>8, SbcGoes, DataMembers, Zenon DEF a, x, y1, c, d
  <2>2. d = IF atLeast THEN 1 ELSE 0
    BY <1>1, <1>4, <1>8, <2>1
  <2> QED BY <1>2, <1>8, <2>1, <2>2, Numbers DEF Comparing, Moves, x0, x1, y0, y1, r1, d
<1>9. CASE Offset = 8
  <2>1. Moves(2, mem, 0, x) /\ d = c
    BY <1>3, <1>9, ImmediateGoes DEF x, c, d
  <2> QED BY <1>2, <1>4, <1>9, <2>1, Numbers DEF Comparing, Moves, x0, x1, y0, y1, r1, d
<1>10. CASE Offset = 10
  <2>1. PICK r \in 0..255 : Moves(1, mem, r, x) /\ r + 256 * d = 2 * a + c
    BY <1>3, <1>10, RotateGoes DEF a, x, c, d
  <2>2. r = IF atLeast THEN 1 ELSE 0
    BY <1>1, <1>4, <1>10, <2>1
  <2> QED BY <1>2, <1>10, <2>1, <2>2, Numbers DEF Comparing, Moves, x0, x1, y0, y1, r1
<1>11. CASE Offset = 11
  <2>1. Moves(2, Store(mem, 20, a), a, x)
    BY <1>3, <1>11, StaGoes, DataMembers DEF a, x
  <2>2. a = e0 /\ r1 = e1
    BY <1>1, <1>2, <1>4, <1>11
  <2>3. Done(mem')
    BY <2>1, <2>2, StoreResult, DataAddresses DEF Done, Moves, a, r1, e0, e1
  <2> QED BY <1>2, <1>11, <2>1, <2>3, StoreResult, Numbers DEF Comparing, Moves, r1
<1>12. CASE Offset = 13
  BY <1>3, <1>12, BrkGoes
<1> QED BY <1>4, <1>5, <1>6, <1>7, <1>8, <1>9, <1>10, <1>11, <1>12

-----------------------------------------------------------------------------
(* The programs that work on a copy of x, and the copying.                  *)

Copied(k, M, a) ==
  \/ k = 0
  \/ k = 2 /\ a = Cell(M, 16)
  \/ k = 4 /\ Cell(M, 20) = Cell(M, 16)
  \/ k = 6 /\ Cell(M, 20) = Cell(M, 16) /\ a = Cell(M, 17)
  \/ k = 8 /\ Cell(M, 20) = Cell(M, 16) /\ Cell(M, 21) = Cell(M, 17)

\* The operands and the program are in N what they are in M.
Kept(M, N) ==
  /\ Cell(N, 16) = Cell(M, 16) /\ Cell(N, 17) = Cell(M, 17)
  /\ Cell(N, 18) = Cell(M, 18) /\ Cell(N, 19) = Cell(M, 19)
  /\ Cell(N, 22) = Cell(M, 22) /\ Cell(N, 23) = Cell(M, 23)
  /\ \A listing : Listed(M, listing) => Listed(N, listing)

LEMMA StoreKeeps ==
  ASSUME NEW M, NEW z \in {20, 21}, NEW v
  PROVE  Kept(M, M) /\ Kept(M, Store(M, z, v))
BY StoreResult DEF Kept

LEMMA KeptNumbers ==
  ASSUME NEW M, NEW N, Kept(M, N)
  PROVE  Number(N, XAt) = Number(M, XAt) /\ Number(N, EAt) = Number(M, EAt)
BY Numbers DEF Kept

LEMMA CopyCode ==
  ASSUME NEW M, Listed(M, CopyX)
  PROVE  /\ Code(M, 0, "LDA", "ZPA", 16) /\ Code(M, 2, "STA", "ZPA", 20)
         /\ Code(M, 4, "LDA", "ZPA", 17) /\ Code(M, 6, "STA", "ZPA", 21)
<1> DEFINE L == CopyX
<1>1. /\ L[1] = <<0, "LDA", "ZPA", 16>> /\ L[2] = <<2, "STA", "ZPA", 20>>
      /\ L[3] = <<4, "LDA", "ZPA", 17>> /\ L[4] = <<6, "STA", "ZPA", 21>>
      /\ DOMAIN L = 1..4
  BY DataAddresses DEF CopyX
<1>2. \A n \in 0..255 : Wrap8(n) = n
  BY DEF Wrap8
<1> HIDE DEF L
<1>3. \A i \in 1..4 : \A k, name, mode, z :
        L[i] = <<k, name, mode, z>> => Code(M, k, name, mode, Wrap8(z))
  BY <1>1, ListedCode DEF L
<1> QED BY <1>1, <1>2, <1>3

LEMMA CopyGoes ==
  ASSUME ProgramUnhooked, DataUnhooked, FlowInv, opcode_exec,
         Listed(mem, CopyX), Copied(Offset, mem, sreg["ACC"]), Offset # 8
  PROVE  /\ FlowInv' /\ Kept(mem, mem')
         /\ Copied(Offset', mem', sreg'["ACC"]) /\ Offset' \in {2, 4, 6, 8}
<1> DEFINE a  == sreg["ACC"]      x  == sreg["X"]
           x0 == Cell(mem, 16)    x1 == Cell(mem, 17)
           r0 == Cell(mem, 20)
<1>1. /\ Offset = 0  => Going("LDA", "ZPA", 16)
      /\ Offset = 2  => Going("STA", "ZPA", 20)
      /\ Offset = 4  => Going("LDA", "ZPA", 17)
      /\ Offset = 6  => Going("STA", "ZPA", 21)
  BY CopyCode DEF Going
<1>2. /\ Offset = 2 => a = x0
      /\ Offset = 4 => r0 = x0
      /\ Offset = 6 => r0 = x0 /\ a = x1
      /\ Offset \in {0, 2, 4, 6}
  BY DEF Copied
<1> HIDE DEF a, x, x0, x1, r0
<1>3. CASE Offset = 0
  <2>1. Moves(2, mem, x0, x)
    BY <1>1, <1>3, LdaGoes, DataMembers DEF x, x0
  <2> QED BY <1>3, <2>1, StoreKeeps DEF Copied, Moves, x0
<1>4. CASE Offset = 2
  <2>1. Moves(2, Store(mem, 20, a), a, x)
    BY <1>1, <1>4, StaGoes, DataMembers DEF a, x
  <2> QED BY <1>2, <1>4, <2>1, StoreKeeps, StoreResult DEF Copied, Moves, x0
<1>5. CASE Offset = 4
  <2>1. Moves(2, mem, x1, x)
    BY <1>1, <1>5, LdaGoes, DataMembers DEF x, x1
  <2> QED BY <1>2, <1>5, <2>1, StoreKeeps DEF Copied, Moves, x0, x1, r0
<1>6. CASE Offset = 6
  <2>1. Moves(2, Store(mem, 21, a), a, x)
    BY <1>1, <1>6, StaGoes, DataMembers DEF a, x
  <2>2. Kept(mem, Store(mem, 21, a))
    BY StoreKeeps
  <2>3. /\ Cell(Store(mem, 21, a), 20) = Cell(Store(mem, 21, a), 16)
        /\ Cell(Store(mem, 21, a), 21) = Cell(Store(mem, 21, a), 17)
    BY <1>2, <1>6, StoreResult DEF x0, x1, r0
  <2> QED BY <1>6, <2>1, <2>2, <2>3 DEF Copied, Moves
<1> QED BY <1>2, <1>3, <1>4, <1>5, <1>6

-----------------------------------------------------------------------------
(* Doubling.                                                                *)

DoublingAt(k, M, a, c) ==
  /\ Listed(M, CopyX) /\ Listed(M, Doubling) /\ Number(M, EAt) = Wrap16(2 * Number(M, XAt))
  /\ \/ k \in {0, 2, 4, 6, 8} /\ Copied(k, M, a)
     \/ k = 10 /\ Cell(M, 20) + 256 * c = 2 * Cell(M, 16) /\ Cell(M, 21) = Cell(M, 17)
     \/ k = 12 /\ Done(M)

LEMMA DoublingCode ==
  ASSUME NEW M, Listed(M, Doubling)
  PROVE  /\ Code(M, 8, "ASL", "ZPA", 20) /\ Code(M, 10, "ROL", "ZPA", 21)
         /\ Code(M, 12, "BRK", "IMP", 0)
<1> DEFINE L == Doubling
<1>1. /\ L[1] = <<8, "ASL", "ZPA", 20>> /\ L[2] = <<10, "ROL", "ZPA", 21>>
      /\ L[3] = <<12, "BRK", "IMP", 0>> /\ DOMAIN L = 1..3
  BY DataAddresses DEF Doubling
<1>2. \A n \in 0..255 : Wrap8(n) = n
  BY DEF Wrap8
<1> HIDE DEF L
<1>3. \A i \in 1..3 : \A k, name, mode, z :
        L[i] = <<k, name, mode, z>> => Code(M, k, name, mode, Wrap8(z))
  BY <1>1, ListedCode DEF L
<1> QED BY <1>1, <1>2, <1>3

LEMMA DoublingGoes ==
  ASSUME ProgramUnhooked, DataUnhooked, FlowInv, opcode_exec, ~asm_break,
         DoublingAt(Offset, mem, sreg["ACC"], Carry(flags))
  PROVE  FlowInv' /\ DoublingAt(Offset', mem', sreg'["ACC"], Carry(flags'))
<1> DEFINE a  == sreg["ACC"]      x  == sreg["X"]
           c  == Carry(flags)     d  == Carry(flags')
           x0 == Cell(mem, 16)    x1 == Cell(mem, 17)
           r0 == Cell(mem, 20)    r1 == Cell(mem, 21)
           e0 == Cell(mem, 22)    e1 == Cell(mem, 23)
<1>1. /\ c \in {0, 1} /\ d \in {0, 1} /\ r0 \in 0..255 /\ r1 \in 0..255
      /\ x0 \in 0..255 /\ x1 \in 0..255 /\ e0 \in 0..255 /\ e1 \in 0..255
  BY MachineBytes DEF DataBytes
<1>2. /\ Listed(mem, CopyX) /\ Listed(mem, Doubling)
      /\ Number(mem, EAt) = Wrap16(2 * Number(mem, XAt))
      /\ 256 * e1 + e0 = Wrap16(2 * (256 * x1 + x0))
  BY Numbers DEF DoublingAt
<1>3. /\ Offset = 8  => Going("ASL", "ZPA", 20)
      /\ Offset = 10 => Going("ROL", "ZPA", 21)
      /\ Offset = 12 => Going("BRK", "IMP", 0)
  BY <1>2, DoublingCode DEF Going
<1>4. /\ Offset = 8  => r0 = x0 /\ r1 = x1
      /\ Offset = 10 => r0 + 256 * c = 2 * x0 /\ r1 = x1
      /\ Offset \in {0, 2, 4, 6} \/ Offset = 8 \/ Offset = 10 \/ Offset = 12
  BY DEF DoublingAt, Copied
<1>5. CASE Offset \in {0, 2, 4, 6}
  <2>1. Copied(Offset, mem, sreg["ACC"])
    BY <1>5 DEF DoublingAt
  <2>2. /\ FlowInv' /\ Kept(mem, mem')
        /\ Copied(Offset', mem', sreg'["ACC"]) /\ Offset' \in {2, 4, 6, 8}
    BY <1>2, <1>5, <2>1, CopyGoes
  <2> QED BY <1>2, <2>2, KeptNumbers DEF DoublingAt, Kept
<1> HIDE DEF a, x, c, d, x0, x1, r0, r1, e0, e1
<1>6. CASE Offset = 8
  <2>1. PICK r \in 0..255 : Moves(2, Store(mem, 20, r), a, x) /\ r + 256 * d = 2 * r0 + 0
    BY <1>3, <1>6, LeftGoes, DataMembers DEF a, x, r0, d
  <2>2. r + 256 * d = 2 * x0
    BY <1>1, <1>4, <1>6, <2>1
  <2> QED BY <1>2, <1>4, <1>6, <2>1, <2>2, StoreResult, Numbers
          DEF DoublingAt, Moves, x0, x1, r1, d
<1>7. CASE Offset = 10
  <2>1. PICK r \in 0..255 : Moves(2, Store(mem, 21, r), a, x) /\ r + 256 * d = 2 * r1 + c
    BY <1>3, <1>7, LeftGoes, DataMembers DEF a, x, r1, c, d
  <2>2. r = e1 /\ r0 = e0
    <3> DEFINE t == 256 * r + r0  double == 2 * (256 * x1 + x0)
    <3>1. /\ double \in Int /\ t \in Int /\ 0 <= t /\ t < 65536
          /\ double = t \/ double = t + 65536
      BY <1>1, <1>4, <1>7, <2>1
    <3> HIDE DEF double, t
    <3>2. Wrap16(double) = t
      BY <3>1, WrapUnique
    <3>3. 256 * e1 + e0 = 256 * r + r0
      BY <1>2, <3>2 DEF double, t
    <3> QED BY <1>1, <3>3
  <2>3. Done(mem')
    BY <2>1, <2>2, StoreResult, DataAddresses DEF Done, Moves, r0, e0, e1
  <2> QED BY <1>2, <1>7, <2>1, <2>3, StoreResult, Numbers DEF DoublingAt, Moves
<1>8. CASE Offset = 12
  BY <1>3, <1>8, BrkGoes
<1> QED BY <1>4, <1>5, <1>6, <1>7, <1>8

-----------------------------------------------------------------------------
(* Halving.                                                                 *)

HalvingAt(k, M, a, c) ==
  /\ Listed(M, CopyX) /\ Listed(M, Halving) /\ Number(M, EAt) = Number(M, XAt) \div 2
  /\ \/ k \in {0, 2, 4, 6, 8} /\ Copied(k, M, a)
     \/ k = 10 /\ 2 * Cell(M, 21) + c = Cell(M, 17) /\ Cell(M, 20) = Cell(M, 16)
     \/ k = 12 /\ Done(M)

LEMMA HalvingCode ==
  ASSUME NEW M, Listed(M, Halving)
  PROVE  /\ Code(M, 8, "LSR", "ZPA", 21) /\ Code(M, 10, "ROR", "ZPA", 20)
         /\ Code(M, 12, "BRK", "IMP", 0)
<1> DEFINE L == Halving
<1>1. /\ L[1] = <<8, "LSR", "ZPA", 21>> /\ L[2] = <<10, "ROR", "ZPA", 20>>
      /\ L[3] = <<12, "BRK", "IMP", 0>> /\ DOMAIN L = 1..3
  BY DataAddresses DEF Halving
<1>2. \A n \in 0..255 : Wrap8(n) = n
  BY DEF Wrap8
<1> HIDE DEF L
<1>3. \A i \in 1..3 : \A k, name, mode, z :
        L[i] = <<k, name, mode, z>> => Code(M, k, name, mode, Wrap8(z))
  BY <1>1, ListedCode DEF L
<1> QED BY <1>1, <1>2, <1>3

LEMMA HalvingGoes ==
  ASSUME ProgramUnhooked, DataUnhooked, FlowInv, opcode_exec, ~asm_break,
         HalvingAt(Offset, mem, sreg["ACC"], Carry(flags))
  PROVE  FlowInv' /\ HalvingAt(Offset', mem', sreg'["ACC"], Carry(flags'))
<1> DEFINE a  == sreg["ACC"]      x  == sreg["X"]
           c  == Carry(flags)     d  == Carry(flags')
           x0 == Cell(mem, 16)    x1 == Cell(mem, 17)
           r0 == Cell(mem, 20)    r1 == Cell(mem, 21)
           e0 == Cell(mem, 22)    e1 == Cell(mem, 23)
<1>1. /\ c \in {0, 1} /\ d \in {0, 1} /\ r0 \in 0..255 /\ r1 \in 0..255
      /\ x0 \in 0..255 /\ x1 \in 0..255 /\ e0 \in 0..255 /\ e1 \in 0..255
  BY MachineBytes DEF DataBytes
<1>2. /\ Listed(mem, CopyX) /\ Listed(mem, Halving)
      /\ Number(mem, EAt) = Number(mem, XAt) \div 2
      /\ 256 * e1 + e0 = (256 * x1 + x0) \div 2
  BY Numbers DEF HalvingAt
<1>3. /\ Offset = 8  => Going("LSR", "ZPA", 21)
      /\ Offset = 10 => Going("ROR", "ZPA", 20)
      /\ Offset = 12 => Going("BRK", "IMP", 0)
  BY <1>2, HalvingCode DEF Going
<1>4. /\ Offset = 8  => r0 = x0 /\ r1 = x1
      /\ Offset = 10 => 2 * r1 + c = x1 /\ r0 = x0
      /\ Offset \in {0, 2, 4, 6} \/ Offset = 8 \/ Offset = 10 \/ Offset = 12
  BY DEF HalvingAt, Copied
<1>5. CASE Offset \in {0, 2, 4, 6}
  <2>1. Copied(Offset, mem, sreg["ACC"])
    BY <1>5 DEF HalvingAt
  <2>2. /\ FlowInv' /\ Kept(mem, mem')
        /\ Copied(Offset', mem', sreg'["ACC"]) /\ Offset' \in {2, 4, 6, 8}
    BY <1>2, <1>5, <2>1, CopyGoes
  <2> QED BY <1>2, <2>2, KeptNumbers DEF HalvingAt, Kept
<1> HIDE DEF a, x, c, d, x0, x1, r0, r1, e0, e1
<1>6. CASE Offset = 8
  <2>1. PICK r \in 0..255 : Moves(2, Store(mem, 21, r), a, x) /\ 2 * r + d = r1 + 256 * 0
    BY <1>3, <1>6, RightGoes, DataMembers DEF a, x, r1, d
  <2>2. 2 * r + d = x1
    BY <1>1, <1>4, <1>6, <2>1
  <2> QED BY <1>2, <1>4, <1>6, <2>1, <2>2, StoreResult, Numbers
          DEF HalvingAt, Moves, x0, x1, r0, d
<1>7. CASE Offset = 10
  <2>1. PICK r \in 0..255 : Moves(2, Store(mem, 20, r), a, x) /\ 2 * r + d = r0 + 256 * c
    BY <1>3, <1>7, RightGoes, DataMembers DEF a, x, r0, c, d
  <2>2. 2 * (256 * r1 + r) + d = 256 * x1 + x0
    BY <1>1, <1>4, <1>7, <2>1
  <2>3. (256 * x1 + x0) \div 2 = 256 * r1 + r
    BY <1>1, <2>1, <2>2
  <2>4. r1 = e1 /\ r = e0
    BY <1>1, <1>2, <2>3
  <2>5. Done(mem')
    BY <2>1, <2>4, StoreResult, DataAddresses DEF Done, Moves, r1, e0, e1
  <2> QED BY <1>2, <1>7, <2>1, <2>5, StoreResult, Numbers DEF HalvingAt, Moves
<1>8. CASE Offset = 12
  BY <1>3, <1>8, BrkGoes
<1> QED BY <1>4, <1>5, <1>6, <1>7, <1>8

\* A byte up and down by one.
LEMMA ByteSteps ==
  ASSUME NEW v \in 0..255
  PROVE  /\ Wrap8(v + 1) = IF v = 255 THEN 0 ELSE v + 1
         /\ Wrap8(v - 1) = IF v = 0 THEN 255 ELSE v - 1
BY DEF Wrap8

-----------------------------------------------------------------------------
(* Counting up.                                                             *)

\* A branch over the next instruction.
LEMMA SkipGoes ==
  ASSUME Going("BNE", "REL", 2), Offset \in Nat,
         NEW m, NEW n, NEW y, Code(mem, Offset + 4, m, n, y)
  PROVE  /\ ~Zero(flags) => Moves(4, mem, sreg["ACC"], sreg["X"])
         /\ Zero(flags) => Moves(2, mem, sreg["ACC"], sreg["X"])
         /\ flags' = flags
<1>1. 2 \in Byte /\ Int8(2) = 2
  BY DEF Byte, Int8
<1>2. /\ Moves(2 + (IF ~Zero(flags) THEN Int8(2) ELSE 0), mem, sreg["ACC"], sreg["X"])
      /\ flags' = flags
  <2>1. 0 <= Offset + 2 + Int8(2) /\ Offset + 2 + Int8(2) <= Offset + 4
    BY <1>1
  <2> QED BY <1>1, <2>1, BranchGoes
<1> QED BY <1>1, <1>2

CountingUpAt(k, M, a, f) ==
  /\ Listed(M, CopyX) /\ Listed(M, CountingUp) /\ Number(M, EAt) = Wrap16(Number(M, XAt) + 1)
  /\ \/ k \in {0, 2, 4, 6, 8} /\ Copied(k, M, a)
     \/ /\ k = 10
        /\ Cell(M, 20) = Wrap8(Cell(M, 16) + 1) /\ Cell(M, 21) = Cell(M, 17)
        /\ Zero(f) <=> Cell(M, 20) = 0
     \/ k = 12 /\ Cell(M, 20) = 0 /\ Cell(M, 16) = 255 /\ Cell(M, 21) = Cell(M, 17)
     \/ k = 14 /\ Done(M)

LEMMA CountingUpCode ==
  ASSUME NEW M, Listed(M, CountingUp)
  PROVE  /\ Code(M, 8, "INC", "ZPA", 20) /\ Code(M, 10, "BNE", "REL", 2)
         /\ Code(M, 12, "INC", "ZPA", 21) /\ Code(M, 14, "BRK", "IMP", 0)
<1> DEFINE L == CountingUp
<1>1. /\ L[1] = <<8, "INC", "ZPA", 20>> /\ L[2] = <<10, "BNE", "REL", 2>>
      /\ L[3] = <<12, "INC", "ZPA", 21>> /\ L[4] = <<14, "BRK", "IMP", 0>>
      /\ DOMAIN L = 1..4
  BY DataAddresses DEF CountingUp
<1>2. \A n \in 0..255 : Wrap8(n) = n
  BY DEF Wrap8
<1> HIDE DEF L
<1>3. \A i \in 1..4 : \A k, name, mode, z :
        L[i] = <<k, name, mode, z>> => Code(M, k, name, mode, Wrap8(z))
  BY <1>1, ListedCode DEF L
<1> QED BY <1>1, <1>2, <1>3

LEMMA CountingUpGoes ==
  ASSUME ProgramUnhooked, DataUnhooked, FlowInv, opcode_exec, ~asm_break,
         CountingUpAt(Offset, mem, sreg["ACC"], flags)
  PROVE  FlowInv' /\ CountingUpAt(Offset', mem', sreg'["ACC"], flags')
<1> DEFINE a  == sreg["ACC"]      x  == sreg["X"]
           x0 == Cell(mem, 16)    x1 == Cell(mem, 17)
           r0 == Cell(mem, 20)    r1 == Cell(mem, 21)
           e0 == Cell(mem, 22)    e1 == Cell(mem, 23)
           whole == 256 * x1 + x0
<1>1. /\ r0 \in 0..255 /\ r1 \in 0..255
      /\ x0 \in 0..255 /\ x1 \in 0..255 /\ e0 \in 0..255 /\ e1 \in 0..255
  BY MachineBytes DEF DataBytes
<1>2. /\ Listed(mem, CopyX) /\ Listed(mem, CountingUp)
      /\ Number(mem, EAt) = Wrap16(Number(mem, XAt) + 1)
      /\ 256 * e1 + e0 = Wrap16(whole + 1)
  BY Numbers DEF CountingUpAt
<1>3. /\ Offset = 8  => Going("INC", "ZPA", 20)
      /\ Offset = 10 => Going("BNE", "REL", 2)
      /\ Offset = 12 => Going("INC", "ZPA", 21)
      /\ Offset = 14 => Going("BRK", "IMP", 0)
  BY <1>2, CountingUpCode DEF Going
<1>4. /\ Offset = 8  => r0 = x0 /\ r1 = x1
      /\ Offset = 10 => r0 = Wrap8(x0 + 1) /\ r1 = x1 /\ (Zero(flags) <=> r0 = 0)
      /\ Offset = 12 => r0 = 0 /\ x0 = 255 /\ r1 = x1
      /\ Offset \in {0, 2, 4, 6} \/ Offset = 8 \/ Offset = 10 \/ Offset = 12 \/ Offset = 14
  BY DEF CountingUpAt, Copied
<1>5. CASE Offset \in {0, 2, 4, 6}
  <2>1. Copied(Offset, mem, sreg["ACC"])
    BY <1>5 DEF CountingUpAt
  <2>2. /\ FlowInv' /\ Kept(mem, mem')
        /\ Copied(Offset', mem', sreg'["ACC"]) /\ Offset' \in {2, 4, 6, 8}
    BY <1>2, <1>5, <2>1, CopyGoes
  <2> QED BY <1>2, <2>2, KeptNumbers DEF CountingUpAt, Kept
<1> HIDE DEF a, x, x0, x1, r0, r1, e0, e1
<1>6. CASE Offset = 8
  <2> DEFINE r == Wrap8(r0 + 1)
  <2>1. Moves(2, Store(mem, 20, r), a, x) /\ (Zero(flags') <=> r = 0)
    BY <1>3, <1>6, IncDecGoes, DataMembers DEF a, x, r0
  <2>2. r = Wrap8(x0 + 1)
    BY <1>4, <1>6
  <2> HIDE DEF r
  <2> QED BY <1>2, <1>4, <1>6, <2>1, <2>2, StoreResult, Numbers
          DEF CountingUpAt, Moves, x0, x1, r1
<1>7. CASE Offset = 10
  <2>1. /\ ~Zero(flags) => Moves(4, mem, a, x)
        /\ Zero(flags) => Moves(2, mem, a, x)
    BY <1>2, <1>3, <1>7, CountingUpCode, SkipGoes DEF a, x
  <2>2. CASE r0 = 0
    <3>1. x0 = 255
      BY <1>1, <1>4, <1>7, <2>2, ByteSteps
    <3> QED BY <1>2, <1>4, <1>7, <2>1, <2>2, <3>1 DEF CountingUpAt, Moves, x0, x1, r0, r1
  <2>3. CASE r0 # 0
    <3>1. r0 = x0 + 1
      BY <1>1, <1>4, <1>7, <2>3, ByteSteps
    <3>2. r1 = e1 /\ r0 = e0
      <4>1. 256 * e1 + e0 = 256 * r1 + r0
        <5> DEFINE w == whole + 1
        <5>1. w \in Int /\ 0 <= w /\ w < 65536 /\ w = 256 * r1 + r0
          BY <1>1, <1>4, <1>7, <3>1
        <5> HIDE DEF w
        <5>2. Wrap16(w) = w
          BY <5>1, WrapUnique
        <5> QED BY <1>2, <5>1, <5>2 DEF w
      <4> QED BY <1>1, <4>1
    <3>3. Done(mem)
      BY <3>2, DataAddresses DEF Done, r0, r1, e0, e1
    <3> QED BY <1>2, <1>4, <1>7, <2>1, <2>3, <3>3 DEF CountingUpAt, Moves
  <2> QED BY <2>2, <2>3
<1>8. CASE Offset = 12
  <2> DEFINE r == Wrap8(r1 + 1)
  <2>1. Moves(2, Store(mem, 21, r), a, x)
    BY <1>3, <1>8, IncDecGoes, DataMembers DEF a, x, r1
  <2>2. r \in 0..255 /\ (r = x1 + 1 \/ r = x1 + 1 - 256) /\ r0 = 0 /\ x0 = 255
    BY <1>1, <1>4, <1>8, ByteSteps
  <2> HIDE DEF r
  <2>3. r = e1 /\ r0 = e0
    <3> DEFINE t == 256 * r + r0  w == whole + 1
    <3>1. /\ w \in Int /\ t \in Int /\ 0 <= t /\ t < 65536
          /\ w = t \/ w = t + 65536
      BY <1>1, <2>2
    <3> HIDE DEF w, t
    <3>2. Wrap16(w) = t
      BY <3>1, WrapUnique
    <3>3. 256 * e1 + e0 = 256 * r + r0
      BY <1>2, <3>2 DEF w, t
    <3>4. r \in 0..255 /\ r0 \in 0..255
      BY <1>1, <2>2
    <3> QED BY <1>1, <3>3, <3>4
  <2>4. Done(mem')
    BY <2>1, <2>3, StoreResult, DataAddresses DEF Done, Moves, r0, e0, e1
  <2> QED BY <1>2, <1>8, <2>1, <2>4, StoreResult, Numbers DEF CountingUpAt, Moves
<1>9. CASE Offset = 14
  BY <1>3, <1>9, BrkGoes
<1> QED BY <1>4, <1>5, <1>6, <1>7, <1>8, <1>9

-----------------------------------------------------------------------------
(* Counting down.                                                           *)

CountingDownAt(k, M, a, f) ==
  LET borrowed == IF Cell(M, 16) = 0 THEN Wrap8(Cell(M, 17) - 1) ELSE Cell(M, 17)
  IN  /\ Listed(M, CopyX) /\ Listed(M, CountingDown)
      /\ Number(M, EAt) = Wrap16(Number(M, XAt) - 1)
      /\ \/ k \in {0, 2, 4, 6, 8} /\ Copied(k, M, a)
         \/ /\ k = 10 /\ Copied(8, M, a)
            /\ Zero(f) <=> Cell(M, 16) = 0
         \/ k = 12 /\ Copied(8, M, a) /\ Cell(M, 16) = 0
         \/ k = 14 /\ Cell(M, 20) = Cell(M, 16) /\ Cell(M, 21) = borrowed
         \/ k = 16 /\ Done(M)

LEMMA CountingDownCode ==
  ASSUME NEW M, Listed(M, CountingDown)
  PROVE  /\ Code(M, 8, "LDA", "ZPA", 20) /\ Code(M, 10, "BNE", "REL", 2)
         /\ Code(M, 12, "DEC", "ZPA", 21) /\ Code(M, 14, "DEC", "ZPA", 20)
         /\ Code(M, 16, "BRK", "IMP", 0)
<1> DEFINE L == CountingDown
<1>1. /\ L[1] = <<8, "LDA", "ZPA", 20>> /\ L[2] = <<10, "BNE", "REL", 2>>
      /\ L[3] = <<12, "DEC", "ZPA", 21>> /\ L[4] = <<14, "DEC", "ZPA", 20>>
      /\ L[5] = <<16, "BRK", "IMP", 0>> /\ DOMAIN L = 1..5
  BY DataAddresses DEF CountingDown
<1>2. \A n \in 0..255 : Wrap8(n) = n
  BY DEF Wrap8
<1> HIDE DEF L
<1>3. \A i \in 1..5 : \A k, name, mode, z :
        L[i] = <<k, name, mode, z>> => Code(M, k, name, mode, Wrap8(z))
  BY <1>1, ListedCode DEF L
<1> QED BY <1>1, <1>2, <1>3

LEMMA CountingDownGoes ==
  ASSUME ProgramUnhooked, DataUnhooked, FlowInv, opcode_exec, ~asm_break,
         CountingDownAt(Offset, mem, sreg["ACC"], flags)
  PROVE  FlowInv' /\ CountingDownAt(Offset', mem', sreg'["ACC"], flags')
<1> DEFINE a  == sreg["ACC"]      x  == sreg["X"]
           x0 == Cell(mem, 16)    x1 == Cell(mem, 17)
           r0 == Cell(mem, 20)    r1 == Cell(mem, 21)
           e0 == Cell(mem, 22)    e1 == Cell(mem, 23)
           whole == 256 * x1 + x0
<1>1. /\ r0 \in 0..255 /\ r1 \in 0..255
      /\ x0 \in 0..255 /\ x1 \in 0..255 /\ e0 \in 0..255 /\ e1 \in 0..255
  BY MachineBytes DEF DataBytes
<1>2. /\ Listed(mem, CopyX) /\ Listed(mem, CountingDown)
      /\ Number(mem, EAt) = Wrap16(Number(mem, XAt) - 1)
      /\ 256 * e1 + e0 = Wrap16(whole - 1)
  BY Numbers DEF CountingDownAt
<1>3. /\ Offset = 8  => Going("LDA", "ZPA", 20)
      /\ Offset = 10 => Going("BNE", "REL", 2)
      /\ Offset = 12 => Going("DEC", "ZPA", 21)
      /\ Offset = 14 => Going("DEC", "ZPA", 20)
      /\ Offset = 16 => Going("BRK", "IMP", 0)
  BY <1>2, CountingDownCode DEF Going
<1>4. /\ Offset \in {8, 10, 12} => r0 = x0 /\ r1 = x1
      /\ Offset = 10 => (Zero(flags) <=> x0 = 0)
      /\ Offset = 12 => x0 = 0
      /\ Offset = 14 => r0 = x0 /\ r1 = IF x0 = 0 THEN Wrap8(x1 - 1) ELSE x1
      /\ Offset \in {0, 2, 4, 6} \/ Offset = 8 \/ Offset = 10 \/ Offset = 12 \/ Offset = 14
                              \/ Offset = 16
  BY DEF CountingDownAt, Copied
<1>5. CASE Offset \in {0, 2, 4, 6}
  <2>1. Copied(Offset, mem, sreg["ACC"])
    BY <1>5 DEF CountingDownAt
  <2>2. /\ FlowInv' /\ Kept(mem, mem')
        /\ Copied(Offset', mem', sreg'["ACC"]) /\ Offset' \in {2, 4, 6, 8}
    BY <1>2, <1>5, <2>1, CopyGoes
  <2> QED BY <1>2, <2>2, KeptNumbers DEF CountingDownAt, Kept
<1> HIDE DEF a, x, x0, x1, r0, r1, e0, e1
<1>6. CASE Offset = 8
  <2>1. Moves(2, mem, r0, x) /\ (Zero(flags') <=> r0 = 0)
    BY <1>3, <1>6, LdaGoes, DataMembers DEF x, r0
  <2> QED BY <1>2, <1>4, <1>6, <2>1 DEF CountingDownAt, Copied, Moves, x0, x1, r0, r1
<1>7. CASE Offset = 10
  <2>1. /\ ~Zero(flags) => Moves(4, mem, a, x)
        /\ Zero(flags) => Moves(2, mem, a, x)
    BY <1>2, <1>3, <1>7, CountingDownCode, SkipGoes DEF a, x
  <2> QED BY <1>2, <1>4, <1>7, <2>1 DEF CountingDownAt, Copied, Moves, x0, x1, r0, r1
<1>8. CASE Offset = 12
  <2> DEFINE r == Wrap8(r1 - 1)
  <2>1. Moves(2, Store(mem, 21, r), a, x)
    BY <1>3, <1>8, IncDecGoes, DataMembers DEF a, x, r1
  <2>2. r = Wrap8(x1 - 1) /\ x0 = 0 /\ r0 = x0
    BY <1>4, <1>8
  <2> HIDE DEF r
  <2> QED BY <1>2, <1>8, <2>1, <2>2, StoreResult, Numbers
          DEF CountingDownAt, Moves, x0, x1, r0
<1>9. CASE Offset = 14
  <2> DEFINE r == Wrap8(r0 - 1)
  <2>1. Moves(2, Store(mem, 20, r), a, x)
    BY <1>3, <1>9, IncDecGoes, DataMembers DEF a, x, r0
  <2>2. /\ r \in 0..255
        /\ \/ x0 # 0 /\ r = x0 - 1 /\ r1 = x1
           \/ x0 = 0 /\ r = 255 /\ (r1 = x1 - 1 \/ r1 = x1 + 255)
    BY <1>1, <1>4, <1>9, ByteSteps
  <2> HIDE DEF r
  <2>3. r1 = e1 /\ r = e0
    <3> DEFINE t == 256 * r1 + r  w == whole - 1
    <3>1. /\ w \in Int /\ t \in Int /\ 0 <= t /\ t < 65536
          /\ w = t \/ w = t - 65536
      BY <1>1, <2>2
    <3> HIDE DEF w, t
    <3>2. Wrap16(w) = t
      BY <3>1, WrapUnique
    <3>3. 256 * e1 + e0 = 256 * r1 + r
      BY <1>2, <3>2 DEF w, t
    <3>4. r1 \in 0..255 /\ r \in 0..255
      BY <1>1, <2>2
    <3> QED BY <1>1, <3>3, <3>4
  <2>4. Done(mem')
    BY <2>1, <2>3, StoreResult, DataAddresses DEF Done, Moves, r1, e0, e1
  <2> QED BY <1>2, <1>9, <2>1, <2>4, StoreResult, Numbers DEF CountingDownAt, Moves
<1>10. CASE Offset = 16
  BY <1>3, <1>10, BrkGoes
<1> QED BY <1>4, <1>5, <1>6, <1>7, <1>8, <1>9, <1>10

-----------------------------------------------------------------------------
(* Multiplication: the loop of the eight bits of x.                         *)

TwoTo(n) == IF n = 0 THEN 1 ELSE 2 * Weight(n - 1)

LEMMA TwoToSteps ==
  /\ TwoTo(0) = 1 /\ TwoTo(8) = 256
  /\ \A n \in 1..8 : TwoTo(n - 1) \in 1..128 /\ TwoTo(n) = 2 * TwoTo(n - 1)
<1>1. TwoTo(0) = 1 /\ TwoTo(8) = 256
  BY DEF TwoTo, Weight
<1>2. ASSUME NEW n \in 1..8
      PROVE  TwoTo(n - 1) \in 1..128 /\ TwoTo(n) = 2 * TwoTo(n - 1)
  <2>1. n \in {1, 2, 3, 4, 5, 6, 7, 8}
    OBVIOUS
  <2> QED BY <2>1 DEF TwoTo, Weight
<1> QED BY <1>1, <1>2

LEMMA Halved ==
  ASSUME NEW n \in 1..8, NEW p \in Int
  PROVE  TwoTo(n - 1) * p \in Int /\ TwoTo(n) * p = 2 * (TwoTo(n - 1) * p)
<1> DEFINE w == TwoTo(n - 1)
<1>1. w \in Int /\ TwoTo(n) = 2 * w
  BY TwoToSteps
<1> HIDE DEF w
<1>2. w * p \in Int /\ (2 * w) * p = 2 * (w * p)
  BY <1>1
<1> QED BY <1>1, <1>2 DEF w

LEMMA BitTimes ==
  ASSUME NEW y \in Int, NEW m \in Int, NEW r \in Int, NEW b \in {0, 1}, 2 * r + b = m
  PROVE  y * m \in Int /\ y * r \in Int /\ y * m = 2 * (y * r) + (IF b = 1 THEN y ELSE 0)
<1>1. CASE b = 0
  BY <1>1
<1>2. CASE b = 1
  BY <1>2
<1> QED BY <1>1, <1>2

\* What is true before the instruction at an offset, of X and the status too:
\* the product times the weight of the bits still to come is the sum of what
\* they will add and of what has been added, which is in the accumulator and
\* the result and moves to the right with every bit.
Multiplying(k, M, a, x, f) ==
  LET y == Cell(M, 18)
      r == Cell(M, 20)
      e == Number(M, EAt)
      ToCome(n, later, now) ==
        /\ Cell(M, 16) < TwoTo(n)
        /\ TwoTo(later) * e = 256 * (now + a) + r
      all   == y * Cell(M, 16)
      Bit(now) == x \in 1..8 /\ ToCome(x - 1, x, 2 * all + now)
  IN  /\ Listed(M, TimesListing)
      /\ \/ k \in {0, 2} /\ r = 0 /\ e = all /\ (k = 2 => a = 0)
         \/ k = 4  /\ x \in 1..8 /\ ToCome(x, x, all)
         \/ k = 6  /\ Bit(IF Carry(f) = 1 THEN y ELSE 0)
         \/ k = 8  /\ Bit(y)
         \/ k = 9  /\ Bit(y) /\ Carry(f) = 0
         \/ k = 11 /\ Bit(256 * Carry(f))
         \/ k = 12 /\ Bit(a + Carry(f))
         \/ k = 14 /\ x \in 1..8 /\ ToCome(x - 1, x - 1, all)
         \/ k = 15 /\ x \in 0..7 /\ ToCome(x, x, all) /\ (Zero(f) <=> x = 0)
         \/ k = 17 /\ e = 256 * a + r
         \/ k = 19 /\ Done(M)

LEMMA TimesCode ==
  ASSUME NEW M, Listed(M, TimesListing)
  PROVE  /\ Code(M, 0, "LDA", "IMM", 0) /\ Code(M, 2, "LDX", "IMM", 8)
         /\ Code(M, 4, "LSR", "ZPA", 16) /\ Code(M, 6, "BCC", "REL", 3)
         /\ Code(M, 8, "CLC", "IMP", 0) /\ Code(M, 9, "ADC", "ZPA", 18)
         /\ Code(M, 11, "ROR", "ACC", 0) /\ Code(M, 12, "ROR", "ZPA", 20)
         /\ Code(M, 14, "DEX", "IMP", 0) /\ Code(M, 15, "BNE", "REL", 243)
         /\ Code(M, 17, "STA", "ZPA", 21) /\ Code(M, 19, "BRK", "IMP", 0)
<1> DEFINE L == TimesListing
<1>1. /\ L[1] = <<0, "LDA", "IMM", 0>> /\ L[2] = <<2, "LDX", "IMM", 8>>
      /\ L[3] = <<4, "LSR", "ZPA", 16>> /\ L[4] = <<6, "BCC", "REL", 3>>
      /\ L[5] = <<8, "CLC", "IMP", 0>> /\ L[6] = <<9, "ADC", "ZPA", 18>>
      /\ L[7] = <<11, "ROR", "ACC", 0>> /\ L[8] = <<12, "ROR", "ZPA", 20>>
      /\ L[9] = <<14, "DEX", "IMP", 0>> /\ L[10] = <<15, "BNE", "REL", -13>>
      /\ L[11] = <<17, "STA", "ZPA", 21>> /\ L[12] = <<19, "BRK", "IMP", 0>>
      /\ DOMAIN L = 1..12
  BY DataAddresses DEF TimesListing
<1>2. (\A n \in 0..255 : Wrap8(n) = n) /\ Wrap8(-13) = 243
  <2>1. \A n \in 0..255 : Wrap8(n) = n
    BY DEF Wrap8
  <2>2. \A n \in -256..(-1) : Wrap8(n) = n + 256
    BY DEF Wrap8
  <2> QED BY <2>1, <2>2
<1> HIDE DEF L
<1>3. \A i \in 1..12 : \A k, name, mode, z :
        L[i] = <<k, name, mode, z>> => Code(M, k, name, mode, Wrap8(z))
  BY <1>1, ListedCode DEF L
<1> QED BY <1>1, <1>2, <1>3

LEMMA TimesGoes ==
  ASSUME ProgramUnhooked, DataUnhooked, FlowInv, opcode_exec, ~asm_break,
         Multiplying(Offset, mem, sreg["ACC"], sreg["X"], flags)
  PROVE  FlowInv' /\ Multiplying(Offset', mem', sreg'["ACC"], sreg'["X"], flags')
<1> DEFINE a   == sreg["ACC"]      x  == sreg["X"]
           c   == Carry(flags)     d  == Carry(flags')
           m   == Cell(mem, 16)    y  == Cell(mem, 18)
           r0  == Cell(mem, 20)
           e0  == Cell(mem, 22)    e1 == Cell(mem, 23)
           e   == 256 * e1 + e0
           all == y * m
           now == TwoTo(x) * e
           then == TwoTo(x - 1) * e
<1>1. /\ a \in 0..255 /\ c \in {0, 1} /\ d \in {0, 1} /\ r0 \in 0..255
      /\ m \in 0..255 /\ y \in 0..255 /\ e0 \in 0..255 /\ e1 \in 0..255
  BY MachineBytes DEF DataBytes
<1>2. Listed(mem, TimesListing) /\ Number(mem, EAt) = e
  BY Numbers DEF Multiplying
<1>3. /\ Offset = 0  => Going("LDA", "IMM", 0)
      /\ Offset = 2  => Going("LDX", "IMM", 8)
      /\ Offset = 4  => Going("LSR", "ZPA", 16)
      /\ Offset = 6  => Going("BCC", "REL", 3)
      /\ Offset = 8  => Going("CLC", "IMP", 0)
      /\ Offset = 9  => Going("ADC", "ZPA", 18)
      /\ Offset = 11 => Going("ROR", "ACC", 0)
      /\ Offset = 12 => Going("ROR", "ZPA", 20)
      /\ Offset = 14 => Going("DEX", "IMP", 0)
      /\ Offset = 15 => Going("BNE", "REL", 243)
      /\ Offset = 17 => Going("STA", "ZPA", 21)
      /\ Offset = 19 => Going("BRK", "IMP", 0)
  BY <1>2, TimesCode DEF Going
<1>4. /\ Offset \in {0, 2} => r0 = 0 /\ e = all
      /\ Offset = 2  => a = 0
      /\ Offset = 4  => x \in 1..8 /\ m < TwoTo(x) /\ now = 256 * (all + a) + r0
      /\ Offset \in {6, 8, 9, 11, 12} => x \in 1..8 /\ m < TwoTo(x - 1)
      /\ Offset = 6  => now = 256 * ((2 * all + (IF c = 1 THEN y ELSE 0)) + a) + r0
      /\ Offset \in {8, 9} => now = 256 * ((2 * all + y) + a) + r0
      /\ Offset = 9  => c = 0
      /\ Offset = 11 => now = 256 * ((2 * all + 256 * c) + a) + r0
      /\ Offset = 12 => now = 256 * ((2 * all + (a + c)) + a) + r0
      /\ Offset = 14 => x \in 1..8 /\ m < TwoTo(x - 1) /\ then = 256 * (all + a) + r0
      /\ Offset = 15 => /\ x \in 0..7 /\ m < TwoTo(x) /\ now = 256 * (all + a) + r0
                        /\ Zero(flags) <=> x = 0
      /\ Offset = 17 => e = 256 * a + r0
      /\ Offset \in {0, 2, 4, 6, 8, 9, 11, 12, 14, 15, 17, 19}
  BY <1>2 DEF Multiplying
<1> HIDE DEF a, x, c, d, m, y, r0, e0, e1, e, all, now, then
<1>5. e \in Int /\ all \in Int
  BY <1>1 DEF e, all
<1>6. x \in 1..8 => then \in Int /\ now = 2 * then
  BY <1>5, Halved DEF now, then
<1>7. CASE Offset = 0
  <2>1. Moves(2, mem, 0, x)
    BY <1>3, <1>7, ImmediateGoes DEF x
  <2> QED BY <1>2, <1>4, <1>7, <2>1 DEF Multiplying, Moves, r0, y, m, all
<1>8. CASE Offset = 2
  <2>1. Moves(2, mem, a, 8)
    BY <1>3, <1>8, ImmediateGoes DEF a
  <2>2. m < TwoTo(8) /\ TwoTo(8) * e = 256 * (all + a) + r0
    BY <1>1, <1>4, <1>5, <1>8, TwoToSteps
  <2> QED BY <1>2, <1>8, <2>1, <2>2 DEF Multiplying, Moves, r0, y, m, all
<1>9. CASE Offset = 4
  <2>1. PICK r \in 0..255 : Moves(2, Store(mem, 16, r), a, x) /\ 2 * r + d = m + 256 * 0
    BY <1>3, <1>9, RightGoes, DataMembers DEF a, x, m, d
  <2>2. 2 * r + d = m
    BY <1>1, <2>1
  <2>3. all = 2 * (y * r) + (IF d = 1 THEN y ELSE 0) /\ y * r \in Int
    BY <1>1, <2>1, <2>2, BitTimes DEF all
  <2>4. r < TwoTo(x - 1)
    BY <1>1, <1>4, <1>9, <2>1, <2>2, TwoToSteps
  <2>5. now = 256 * ((2 * (y * r) + (IF d = 1 THEN y ELSE 0)) + a) + r0
    BY <1>1, <1>4, <1>9, <2>3
  <2>6. /\ Listed(Store(mem, 16, r), TimesListing) /\ Cell(Store(mem, 16, r), 16) = r
        /\ Cell(Store(mem, 16, r), 18) = y /\ Cell(Store(mem, 16, r), 20) = r0
        /\ Number(Store(mem, 16, r), EAt) = e
    BY <1>2, StoreListed, StoreCells, DataMembers, Numbers DEF y, r0, e, e0, e1
  <2> QED BY <1>4, <1>9, <2>1, <2>4, <2>5, <2>6 DEF Multiplying, Moves, now, d
<1>10. CASE Offset = 6
  <2>1. /\ Moves(2 + (IF c = 0 THEN Int8(3) ELSE 0), mem, a, x)
        /\ flags' = flags /\ Int8(3) = 3
    <3>1. 3 \in Byte /\ Int8(3) = 3
      BY DEF Byte, Int8
    <3>2. /\ 0 <= Offset + 2 + Int8(3) /\ Offset + 2 + Int8(3) <= 11
          /\ Code(mem, 11, "ROR", "ACC", 0)
      BY <1>2, <1>10, <3>1, TimesCode
    <3> QED BY <1>3, <1>10, <3>1, <3>2, BranchGoes DEF a, x, c
  <2>2. CASE c = 0
    <3>1. Moves(5, mem, a, x)
      BY <2>1, <2>2
    <3>2. now = 256 * ((2 * all + 256 * c) + a) + r0
      BY <1>4, <1>5, <1>10, <2>2
    <3> QED BY <1>2, <1>4, <1>10, <2>1, <3>1, <3>2
            DEF Multiplying, Moves, now, all, y, m, r0, c
  <2>3. CASE c = 1
    <3>1. Moves(2, mem, a, x)
      BY <2>1, <2>3
    <3>2. now = 256 * ((2 * all + y) + a) + r0
      BY <1>4, <1>10, <2>3
    <3> QED BY <1>2, <1>4, <1>10, <2>1, <3>1, <3>2 DEF Multiplying, Moves, now, all, y, m, r0
  <2> QED BY <1>1, <2>2, <2>3
<1>11. CASE Offset = 8
  <2>1. Moves(1, mem, a, x) /\ d = 0
    BY <1>3, <1>11, CarryGoes DEF a, x, d
  <2> QED BY <1>2, <1>4, <1>11, <2>1 DEF Multiplying, Moves, now, all, y, m, r0, d
<1>12. CASE Offset = 9
  <2>1. PICK r \in 0..255 : Moves(2, mem, r, x) /\ r + 256 * d = a + y + c
    BY <1>3, <1>12, AdcGoes, DataMembers, Zenon DEF a, x, y, c, d
  <2>2. now = 256 * ((2 * all + 256 * d) + r) + r0
    BY <1>1, <1>4, <1>5, <1>12, <2>1
  <2> QED BY <1>2, <1>4, <1>12, <2>1, <2>2 DEF Multiplying, Moves, now, all, y, m, r0, d
<1>13. CASE Offset = 11
  <2>1. PICK r \in 0..255 : Moves(1, mem, r, x) /\ 2 * r + d = a + 256 * c
    BY <1>3, <1>13, RotateGoes DEF a, x, c, d
  <2>2. now = 256 * ((2 * all + (r + d)) + r) + r0
    BY <1>1, <1>4, <1>5, <1>13, <2>1
  <2> QED BY <1>2, <1>4, <1>13, <2>1, <2>2 DEF Multiplying, Moves, now, all, y, m, r0, d
<1>14. CASE Offset = 12
  <2>1. PICK r \in 0..255 : Moves(2, Store(mem, 20, r), a, x) /\ 2 * r + d = r0 + 256 * c
    BY <1>3, <1>14, RightGoes, DataMembers DEF a, x, r0, c, d
  <2>2. then = 256 * (all + a) + r
    BY <1>1, <1>4, <1>5, <1>6, <1>14, <2>1
  <2> QED BY <1>2, <1>4, <1>14, <2>1, <2>2, StoreResult, Numbers
          DEF Multiplying, Moves, then, all, y, m, r0
<1>15. CASE Offset = 14
  <2>1. Moves(1, mem, a, Wrap8(x - 1)) /\ (Zero(flags') <=> Wrap8(x - 1) = 0)
    BY <1>3, <1>15, DexGoes DEF a, x
  <2>2. x \in 0..255 /\ x # 0
    BY <1>4, <1>15
  <2>3. Wrap8(x - 1) = x - 1 /\ x - 1 \in 0..7
    BY <1>4, <1>15, <2>2, ByteSteps
  <2> QED BY <1>2, <1>4, <1>15, <2>1, <2>3 DEF Multiplying, Moves, then, all, y, m, r0
<1>16. CASE Offset = 15
  <2>1. /\ Moves(2 + (IF ~Zero(flags) THEN Int8(243) ELSE 0), mem, a, x)
        /\ Int8(243) = -13
    <3>1. 243 \in Byte /\ Int8(243) = -13
      BY DEF Byte, Int8
    <3>2. /\ 0 <= Offset + 2 + Int8(243) /\ Offset + 2 + Int8(243) <= 4
          /\ Code(mem, 4, "LSR", "ZPA", 16)
      BY <1>2, <1>16, <3>1, TimesCode
    <3> QED BY <1>3, <1>16, <3>1, <3>2, BranchGoes DEF a, x
  <2>2. CASE x = 0
    <3>1. Moves(2, mem, a, x)
      BY <1>4, <1>16, <2>1, <2>2
    <3>2. m = 0 /\ now = e
      BY <1>1, <1>4, <1>5, <1>16, <2>2, TwoToSteps DEF now
    <3>3. all = 0
      BY <1>1, <3>2 DEF all
    <3>4. e = 256 * a + r0
      BY <1>1, <1>4, <1>16, <3>2, <3>3
    <3> QED BY <1>2, <1>16, <3>1, <3>4 DEF Multiplying, Moves, r0
  <2>3. CASE x # 0
    <3>1. Moves(-11, mem, a, x) /\ x \in 1..8
      BY <1>4, <1>16, <2>1, <2>3
    <3> QED BY <1>2, <1>4, <1>16, <3>1 DEF Multiplying, Moves, now, all, y, m, r0
  <2> QED BY <2>2, <2>3
<1>17. CASE Offset = 17
  <2>1. Moves(2, Store(mem, 21, a), a, x)
    BY <1>3, <1>17, StaGoes, DataMembers DEF a, x
  <2>2. a = e1 /\ r0 = e0
    BY <1>1, <1>4, <1>17 DEF e
  <2>3. Done(mem')
    BY <2>1, <2>2, StoreResult, DataAddresses DEF Done, Moves, r0, e0, e1
  <2> QED BY <1>2, <1>17, <2>1, <2>3, StoreResult DEF Multiplying, Moves
<1>18. CASE Offset = 19
  BY <1>3, <1>18, BrkGoes
<1> QED BY <1>4, <1>7, <1>8, <1>9, <1>10, <1>11, <1>12, <1>13, <1>14, <1>15, <1>16, <1>17,
           <1>18

-----------------------------------------------------------------------------
(* The invariant: whatever program is in memory, what its assertion at the  *)
(* next instruction says is true.                                           *)

Annotated ==
  \/ Adding(Offset, mem, sreg["ACC"], Carry(flags))
  \/ Subtracting(Offset, mem, sreg["ACC"], Carry(flags))
  \/ Comparing(Offset, mem, sreg["ACC"], Carry(flags))
  \/ DoublingAt(Offset, mem, sreg["ACC"], Carry(flags))
  \/ HalvingAt(Offset, mem, sreg["ACC"], Carry(flags))
  \/ CountingUpAt(Offset, mem, sreg["ACC"], flags)
  \/ CountingDownAt(Offset, mem, sreg["ACC"], flags)
  \/ Multiplying(Offset, mem, sreg["ACC"], sreg["X"], flags)

ArithInv ==
  /\ FlowInv /\ Annotated
  /\ phase = "stopped" => AtBreak

LEMMA AnnotatedGoes ==
  ASSUME ProgramUnhooked, DataUnhooked, FlowInv, opcode_exec, ~asm_break, Annotated
  PROVE  FlowInv' /\ Annotated'
<1>1. CASE Adding(Offset, mem, sreg["ACC"], Carry(flags))
  <2>1. FlowInv' /\ Adding(Offset', mem', sreg["ACC"]', Carry(flags'))
    BY <1>1, AddGoes
  <2> QED BY <2>1 DEF Annotated
<1>2. CASE Subtracting(Offset, mem, sreg["ACC"], Carry(flags))
  <2>1. FlowInv' /\ Subtracting(Offset', mem', sreg["ACC"]', Carry(flags'))
    BY <1>2, SubGoes
  <2> QED BY <2>1 DEF Annotated
<1>3. CASE Comparing(Offset, mem, sreg["ACC"], Carry(flags))
  <2>1. FlowInv' /\ Comparing(Offset', mem', sreg["ACC"]', Carry(flags'))
    BY <1>3, NotBelowGoes
  <2> QED BY <2>1 DEF Annotated
<1>4. CASE DoublingAt(Offset, mem, sreg["ACC"], Carry(flags))
  <2>1. FlowInv' /\ DoublingAt(Offset', mem', sreg["ACC"]', Carry(flags'))
    BY <1>4, DoublingGoes
  <2> QED BY <2>1 DEF Annotated
<1>5. CASE HalvingAt(Offset, mem, sreg["ACC"], Carry(flags))
  <2>1. FlowInv' /\ HalvingAt(Offset', mem', sreg["ACC"]', Carry(flags'))
    BY <1>5, HalvingGoes
  <2> QED BY <2>1 DEF Annotated
<1>6. CASE CountingUpAt(Offset, mem, sreg["ACC"], flags)
  <2>1. FlowInv' /\ CountingUpAt(Offset', mem', sreg["ACC"]', flags')
    BY <1>6, CountingUpGoes
  <2> QED BY <2>1 DEF Annotated
<1>7. CASE CountingDownAt(Offset, mem, sreg["ACC"], flags)
  <2>1. FlowInv' /\ CountingDownAt(Offset', mem', sreg["ACC"]', flags')
    BY <1>7, CountingDownGoes
  <2> QED BY <2>1 DEF Annotated
<1>8. CASE Multiplying(Offset, mem, sreg["ACC"], sreg["X"], flags)
  <2>1. FlowInv' /\ Multiplying(Offset', mem', sreg["ACC"]', sreg["X"]', flags')
    BY <1>8, TimesGoes
  <2> QED BY <2>1 DEF Annotated
<1> QED BY <1>1, <1>2, <1>3, <1>4, <1>5, <1>6, <1>7, <1>8 DEF Annotated

\* There is an instruction of the program at the offset, and at a BRK the
\* program has arrived.
LEMMA AnnotatedCode ==
  ASSUME Annotated
  PROVE  \E name, mode, z : Code(mem, Offset, name, mode, z) /\ (name = "BRK" => Done(mem))
<1>1. CASE Adding(Offset, mem, sreg["ACC"], Carry(flags))
  BY <1>1, AddCode DEF Adding
<1>2. CASE Subtracting(Offset, mem, sreg["ACC"], Carry(flags))
  BY <1>2, SubCode DEF Subtracting
<1>3. CASE Comparing(Offset, mem, sreg["ACC"], Carry(flags))
  BY <1>3, NotBelowCode DEF Comparing
<1>4. CASE DoublingAt(Offset, mem, sreg["ACC"], Carry(flags))
  BY <1>4, DoublingCode, CopyCode DEF DoublingAt
<1>5. CASE HalvingAt(Offset, mem, sreg["ACC"], Carry(flags))
  BY <1>5, HalvingCode, CopyCode DEF HalvingAt
<1>6. CASE CountingUpAt(Offset, mem, sreg["ACC"], flags)
  BY <1>6, CountingUpCode, CopyCode DEF CountingUpAt
<1>7. CASE CountingDownAt(Offset, mem, sreg["ACC"], flags)
  BY <1>7, CountingDownCode, CopyCode DEF CountingDownAt
<1>8. CASE Multiplying(Offset, mem, sreg["ACC"], sreg["X"], flags)
  BY <1>8, TimesCode DEF Multiplying
<1> QED BY <1>1, <1>2, <1>3, <1>4, <1>5, <1>6, <1>7, <1>8 DEF Annotated

LEMMA AnnotatedInProgram ==
  ASSUME FlowInv, Annotated
  PROVE  InProgram
<1>1. NextAt \in Int
  <2>1. Cell(mem, pc) \in Byte
    BY DEF FlowInv, TypeOK, IsMemory, Cell, Byte
  <2> QED BY <2>1, NextPcType, WordRange, PcRange DEF FlowInv, TypeOK, NextAt
<1>2. Offset \in Nat /\ ProgramStart + Offset + 1 < CPU_ADDR_RESERVED_START
  BY AnnotatedCode DEF Code
<1> QED BY <1>1, <1>2, StartRange DEF Offset, InProgram, CPU_ADDR_RESERVED_START

\* A step that executes nothing leaves it all as it is.
LEMMA AnnotatedStays ==
  ASSUME Annotated, UNCHANGED <<mem, sreg, flags>>, NextAt' = NextAt
  PROVE  Annotated'
<1>1. Offset' = Offset
  BY DEF Offset
<1> QED BY <1>1 DEF Annotated

LEMMA ArithInit ==
  ASSUME ProgramUnhooked, \A M \in Images : ArithImage(M), Init
  PROVE  ArithInv
<1>1. ArithImage(mem) /\ TypeOK /\ IsMemory(mem)
  BY TypeInit DEF Init, TypeOK
<1>2. branch = ProgramStart
  <2>1. /\ CPU_ADDR_RESET \in Word /\ CPU_ADDR_RESET + 1 \in Word
        /\ CPU_ADDR_RESET >= ProgramStart /\ CPU_ADDR_RESET + 1 >= ProgramStart
        /\ Wrap16(CPU_ADDR_RESET + 1) = CPU_ADDR_RESET + 1
    BY StartRange, WordRange DEF CPU_ADDR_RESET, Wrap16
  <2>2. /\ MEM_READ(mem, CPU_ADDR_RESET) = {Cell(mem, CPU_ADDR_RESET)}
        /\ MEM_READ(mem, CPU_ADDR_RESET + 1) = {Cell(mem, CPU_ADDR_RESET + 1)}
    BY <2>1, ReadProgram
  <2>3. branch = Number(mem, CPU_ADDR_RESET)
    BY <2>1, <2>2 DEF Init, MEM_READ16, Number
  <2> QED BY <1>1, <2>3 DEF ArithImage
<1>3. ADDR_VALID(branch) /\ NextAt = ProgramStart /\ Offset = 0
  BY <1>2, StartRange DEF Init, ADDR_VALID, INVALID_ADDRESS, NextAt, AtBreak, NextPc, Offset
<1>4. FlowInv
  BY <1>1, <1>3 DEF FlowInv, Init
<1>5. DataBytes(mem) /\ Cell(mem, 20) = 0 /\ Cell(mem, 21) = 0
  <2>1. Number(mem, RAt) = 256 * Cell(mem, 21) + Cell(mem, 20) /\ Number(mem, RAt) = 0
    BY <1>1, Numbers DEF ArithImage
  <2>2. DataBytes(mem)
    BY <1>4, MachineBytes
  <2> DEFINE l == Cell(mem, 20)  h == Cell(mem, 21)
  <2>3. l \in 0..255 /\ h \in 0..255 /\ 256 * h + l = 0
    BY <2>1, <2>2 DEF DataBytes
  <2> HIDE DEF l, h
  <2>4. l = 0 /\ h = 0
    BY <2>3
  <2> QED BY <2>2, <2>4 DEF l, h
<1>6. Cell(mem, XAt) * Cell(mem, YAt) = Cell(mem, 18) * Cell(mem, 16)
  <2> DEFINE x0 == Cell(mem, 16)  y0 == Cell(mem, 18)
  <2>1. x0 \in 0..255 /\ y0 \in 0..255 /\ Cell(mem, XAt) = x0 /\ Cell(mem, YAt) = y0
    BY <1>5, DataAddresses DEF DataBytes
  <2> HIDE DEF x0, y0
  <2>2. x0 * y0 = y0 * x0
    BY <2>1
  <2> QED BY <2>1, <2>2 DEF x0, y0
<1>7. Computes(mem)
  BY <1>1 DEF ArithImage
<1>8. Annotated
  BY <1>3, <1>5, <1>6, <1>7
  DEF Computes, Annotated, Adding, Subtracting, Comparing, DoublingAt, HalvingAt,
      CountingUpAt, CountingDownAt, Multiplying, Copied
<1> QED BY <1>4, <1>8 DEF ArithInv, Init

LEMMA ArithNext ==
  ASSUME ProgramUnhooked, DataUnhooked, BrkHook = "exits", StopOps = {}, ArithInv,
         [cpu_thread]_vars
  PROVE  ArithInv'
<1>1. FlowInv /\ Annotated /\ InProgram /\ TypeOK
  BY AnnotatedInProgram DEF ArithInv, FlowInv
<1>2. TypeOK'
  BY <1>1, TypeInductive DEF Next
<1>3. CASE opcode_fetch
  <2>1. phase' = "exec" /\ NextAt' = NextAt
    BY <1>1, <1>3, FetchStutters DEF Flow!flowVars
  <2>2. UNCHANGED <<mem, sreg, flags>>
    BY <1>3 DEF opcode_fetch
  <2> QED BY <1>1, <1>2, <2>1, <2>2, AnnotatedStays DEF ArithInv, FlowInv
<1>4. CASE step_callback
  <2>1. NextAt' = NextAt
    BY <1>1, <1>4, CallbackStutters DEF Flow!flowVars
  <2>2. /\ UNCHANGED <<mem, sreg, flags, pc, branch>>
        /\ phase = "step" /\ phase' \in {"aborted", "fetch"}
    BY <1>4 DEF step_callback
  <2>3. FlowInv'
    BY <1>1, <1>2, <2>2 DEF FlowInv
  <2> QED BY <1>1, <2>1, <2>2, <2>3, AnnotatedStays DEF ArithInv
<1>5. CASE asm_break
  <2>1. phase' = "stopped" /\ NextAt' = NextAt
    BY <1>1, <1>5, BreakStops DEF Flow!flowVars
  <2>2. /\ UNCHANGED <<mem, sreg, flags, pc, branch>>
        /\ phase = "exec" /\ OpcodeNames[Cell(mem, pc)].exec = "BRK"
    <3>1. PICK op \in Dispatched({"BRK"}) : UNCHANGED <<mem, sreg, flags, pc, branch>>
      BY <1>5 DEF asm_break
    <3>2. phase = "exec" /\ op \in Dispatched(Exec) /\ op.exec = "BRK"
      BY <3>1 DEF Dispatched, Exec
    <3> QED BY <1>1, <3>1, <3>2, Instructions DEF Opcode
  <2>3. AtBreak'
    BY <2>1, <2>2 DEF AtBreak
  <2> QED BY <1>1, <1>2, <2>1, <2>2, <2>3, AnnotatedStays DEF ArithInv, FlowInv
<1>6. CASE opcode_exec /\ ~asm_break
  <2>1. FlowInv' /\ Annotated'
    BY <1>1, <1>6, AnnotatedGoes
  <2>2. phase' # "stopped"
    BY <1>6, ExecutedIsLast DEF Executed
  <2> QED BY <2>1, <2>2 DEF ArithInv
<1>7. CASE UNCHANGED vars
  <2>1. NextAt' = NextAt /\ UNCHANGED <<mem, sreg, flags, pc, branch, phase>>
    BY <1>7 DEF vars, NextAt, AtBreak, NextPc
  <2>2. Annotated'
    BY <1>1, <2>1, AnnotatedStays
  <2> QED BY <1>1, <1>2, <2>1, <2>2 DEF ArithInv, FlowInv, AtBreak
<1> QED BY <1>3, <1>4, <1>5, <1>6, <1>7 DEF cpu_thread

LEMMA ArithArrives == ArithInv => WideResult
<1> SUFFICES ASSUME ArithInv, phase = "stopped" PROVE Done(mem)
  BY DEF WideResult, Done
<1>1. AtBreak /\ Annotated /\ FlowInv
  BY DEF ArithInv
<1>2. PICK name, mode, z : Code(mem, Offset, name, mode, z) /\ (name = "BRK" => Done(mem))
  BY <1>1, AnnotatedCode, Zenon
<1>3. ProgramStart + Offset = pc
  BY <1>1, PcRange, StartRange DEF FlowInv, TypeOK, NextAt, AtBreak, Offset
<1>4. name = "BRK"
  BY <1>1, <1>2, <1>3 DEF AtBreak, Code, Ins
<1> QED BY <1>2, <1>4

\* The programs of CpuArith compute, on every x and y, what they are expected
\* to compute: the carry that one instruction leaves reaches the instruction
\* that takes it, past the loads, the stores, the branches and the counting in
\* between.
THEOREM ArithIsExact ==
  ASSUME ProgramUnhooked, DataUnhooked, BrkHook = "exits", StopOps = {},
         \A M \in Images : ArithImage(M)
  PROVE  RunSpec => []WideResult
<1>1. Init => ArithInv
  BY ArithInit
<1>2. ArithInv /\ [cpu_thread]_vars => ArithInv'
  BY ArithNext
<1> QED BY <1>1, <1>2, ArithArrives, PTL DEF RunSpec

=============================================================================
