------------------------------ MODULE Cpu6502 ------------------------------
(***************************************************************************)
(* The 6502 core of libsfot: memory, registers, and the loop of            *)
(* cpu_thread(), which fetches an instruction, executes it and, when a     *)
(* step callback is installed, reports it.                                 *)
(*                                                                         *)
(* opcode_fetch(), opcode_exec() and the callback are one step each.       *)
(* Memory is sparse: an address outside DOMAIN mem holds the 0 of          *)
(* core_clear_all().  Hooks whose answer depends on the outside world (the *)
(* random generator, the keyboard) are sets of possible answers, and every *)
(* call of MEM_READ takes one of its own.                                  *)
(***************************************************************************)
EXTENDS Alu

CONSTANTS
  OpcodeNames,  \* opcode_names[]: what each opcode byte executes, and its mode
  Images,       \* the memory contents the machine may be powered on with
  Transl,       \* translation hooks: [hooked addresses -> Word]
  ReadHook,     \* read hooks: [hooked addresses -> possible answers]
  WriteHook,    \* write hooks: [hooked addresses -> [Byte -> byte stored]]
  BrkHook,      \* the BRK exception hook: absent, one that returns, one that
                \* ends the thread
  StepCb,       \* is a step callback installed?
  StopOps       \* the functions at which the step callback asks to stop

VARIABLES
  mem,          \* mem[]
  sreg,         \* short_regs[], REG_CPU excepted
  flags,        \* short_regs[REG_CPU], as the set of its bits that are 1
  pc,           \* reg_pc
  branch,       \* reg_pc_branched, the pending target of branch_status()
  phase,        \* where cpu_thread() is
  exc           \* the last address given to the BRK exception hook

vars == <<mem, sreg, flags, pc, branch, phase, exc>>

INVALID_ADDRESS         == 65535
CPU_ADDR_RESERVED_START == 65530
CPU_ADDR_RESET          == 65532
CPU_ADDR_BREAK          == 65534
STACK_PAGE              == 256

ShortReg == {"SP", "ACC", "X", "Y"}
NoException == -1

Exec ==
  {"LDA", "LDX", "LDY", "STA", "STX", "STY", "TAX", "TAY", "TXA", "TYA", "TSX",
   "TXS", "PHA", "PHP", "PLA", "PLP", "AND", "EOR", "ORA", "BIT", "ADC", "SBC",
   "CMP", "CPX", "CPY", "INC", "INX", "INY", "DEC", "DEX", "DEY", "ASL", "LSR",
   "ROL", "ROR", "JMP", "JSR", "RTS", "BCC", "BCS", "BEQ", "BMI", "BNE", "BPL",
   "BVC", "BVS", "CLC", "CLD", "CLI", "CLV", "SEC", "SED", "SEI", "BRK", "NOP",
   "RTI"}

AddrMode == {"IMP", "ACC", "IMM", "ZPA", "ZPX", "ZPY", "REL", "ABS", "ABX",
             "ABY", "IND", "INX", "INY"}

\* A memory image: the addresses it gives a value, and their values.
IsMemory(M) == DOMAIN M \subseteq Word /\ M \in [DOMAIN M -> Byte]

ASSUME TableAssumption == OpcodeNames \in [Byte -> [exec : Exec, addr_mode : AddrMode]]
ASSUME ImageAssumption == \A M \in Images : IsMemory(M)
ASSUME HookAssumption ==
  /\ DOMAIN Transl \subseteq Word /\ Transl \in [DOMAIN Transl -> Word]
  /\ \A a \in DOMAIN ReadHook : ReadHook[a] \subseteq Byte /\ ReadHook[a] # {}
  /\ \A a \in DOMAIN WriteHook : WriteHook[a] \in [Byte -> Byte]
ASSUME ClientAssumption ==
  BrkHook \in {"none", "returns", "exits"} /\ StepCb \in BOOLEAN

-----------------------------------------------------------------------------
(* Memory and stack (core.c).  The memory is a parameter M, for the calls   *)
(* that read it after they have written it.                                 *)

Cell(M, a)     == IF a \in DOMAIN M THEN M[a] ELSE 0
Store(M, a, v) == [x \in DOMAIN M \cup {a} |-> IF x = a THEN v ELSE M[x]]

Translate(a) == IF a \in DOMAIN Transl THEN Transl[a] ELSE a

MEM_READ(M, a) ==
  LET t == Translate(a)
  IN  IF t \in DOMAIN ReadHook THEN ReadHook[t] ELSE {Cell(M, t)}

MEM_READ16(M, a) ==
  {256 * msb + lsb : msb \in MEM_READ(M, Wrap16(a + 1)), lsb \in MEM_READ(M, a)}

\* The byte a write to the translated address t leaves there.
Filtered(t, v) == IF t \in DOMAIN WriteHook THEN WriteHook[t][v] ELSE v

\* Mutant: the translation only selects the write hook.
MEM_WRITE_in_place(M, a, v) == Store(M, a, Filtered(Translate(a), v))

MEM_WRITE(M, a, v) == Store(M, Translate(a), Filtered(Translate(a), v))

\* Mutant: the write hook is forgotten.
MEM_INC_unfiltered(M, a, v) ==
  LET t == Translate(a) IN Store(M, t, Wrap8(Cell(M, t) + v))

\* MEM_INC adds to the memory under a read hook, not to the hook's answer.
MEM_INC(M, a, v) ==
  LET t == Translate(a) IN Store(M, t, Filtered(t, Wrap8(Cell(M, t) + v)))

\* The stack array is addressed directly: no hook sees its accesses.
StackAddr(sp)           == STACK_PAGE + sp
STACK_PUSH(M, sp, v)    == Store(M, StackAddr(sp), v)
STACK_PUSH16(M, sp, v)  ==
  STACK_PUSH(STACK_PUSH(M, sp, v \div 256), Wrap8(sp - 1), v % 256)
STACK_POP(M, sp)        == Cell(M, StackAddr(Wrap8(sp + 1)))
STACK_POP16(M, sp)      == 256 * STACK_POP(M, Wrap8(sp + 1)) + STACK_POP(M, sp)

-----------------------------------------------------------------------------
(* Addressing modes (addr.c): the set of values each call may return.       *)

ADDR(M, mode) ==
  LET addr      == MEM_READ16(M, pc + 1)
      zero_page == MEM_READ(M, pc + 1)
  IN CASE mode = "IMM" -> {pc + 1}
       [] mode = "ZPA" -> zero_page
       [] mode = "ZPX" -> {z + sreg["X"] : z \in zero_page}
       [] mode = "ZPY" -> {z + sreg["Y"] : z \in zero_page}
       [] mode = "REL" -> {Wrap16(pc + 2 + Int8(z)) : z \in zero_page}
       [] mode = "ABS" -> addr
       [] mode = "ABX" -> {Wrap16(a + sreg["X"]) : a \in addr}
       [] mode = "ABY" -> {Wrap16(a + sreg["Y"]) : a \in addr}
       [] mode = "IND" -> UNION {MEM_READ16(M, a) : a \in addr}
       [] mode = "INX" -> UNION {MEM_READ16(M, z + sreg["X"]) : z \in zero_page}
       [] mode = "INY" -> {Wrap16(a + sreg["Y"]) :
                             a \in UNION {MEM_READ16(M, z) : z \in zero_page}}
       [] OTHER        -> {INVALID_ADDRESS}

ADDR_VALID(a) == a # INVALID_ADDRESS

\* ADDR() is called twice: once for the test, once for the value.
ADDR_MODE_GET_VALUE(mode) ==
  LET VALUE == IF mode = "ACC" THEN sreg["ACC"] ELSE 0
  IN  UNION {IF ADDR_VALID(a) THEN MEM_READ(mem, b) ELSE {VALUE} :
               a \in ADDR(mem, mode), b \in ADDR(mem, mode)}

opcode_len(b) ==
  LET mode == OpcodeNames[b].addr_mode
  IN  CASE mode \in {"IMP", "ACC"}               -> 1
        [] mode \in {"ABS", "ABX", "ABY", "IND"} -> 3
        [] OTHER                                 -> 2

-----------------------------------------------------------------------------
(* Registers.                                                               *)

GET_SREG(r) == IF r = "CPU" THEN ByteOf(flags) ELSE sreg[r]

\* SET_SREG and flags_update_basic_by_register, which skips REG_CPU and REG_SP.
SetRegister(r, v) ==
  IF r = "CPU"
  THEN flags' = BitsOf(v) /\ UNCHANGED sreg
  ELSE /\ sreg' = [sreg EXCEPT ![r] = v]
       /\ flags' = IF r = "SP" THEN flags ELSE flags_update_basic_by_value(flags, v)

MoveSP(n) == sreg' = [sreg EXCEPT !["SP"] = Wrap8(@ + n)]

-----------------------------------------------------------------------------
(* The loop of cpu_thread().                                                *)

\* branch_status(INVALID_ADDRESS) hands out a pending target once.  Without
\* one, the length added to reg_pc is that of the opcode now found there.
NextPc(b) == IF ADDR_VALID(branch) THEN branch ELSE Wrap16(pc + opcode_len(b))

\* Mutants: a fetch without its assertion, and one that keeps the target.
opcode_fetch_unchecked ==
  /\ phase = "fetch"
  /\ \E b \in MEM_READ(mem, pc) : pc' = NextPc(b)
  /\ phase' = "exec"
  /\ branch' = INVALID_ADDRESS
  /\ UNCHANGED <<mem, sreg, flags, exc>>

opcode_fetch_sticky ==
  /\ phase = "fetch"
  /\ \E b \in MEM_READ(mem, pc) : pc' = NextPc(b)
  /\ phase' = "exec"
  /\ UNCHANGED <<mem, sreg, flags, branch, exc>>

opcode_fetch ==
  /\ phase = "fetch"
  /\ \E b \in MEM_READ(mem, pc) :
       IF NextPc(b) < CPU_ADDR_RESERVED_START
       THEN pc' = NextPc(b) /\ phase' = "exec"
       ELSE phase' = "aborted" /\ UNCHANGED pc
  /\ branch' = INVALID_ADDRESS
  /\ UNCHANGED <<mem, sreg, flags, exc>>

\* opcode_exec(): the table entries it may dispatch to, among functions names.
Dispatched(names) ==
  IF phase = "exec"
  THEN {op \in {OpcodeNames[b] : b \in MEM_READ(mem, pc)} : op.exec \in names}
  ELSE {}

Executed == phase' = (IF StepCb THEN "step" ELSE "fetch") /\ UNCHANGED pc

\* The addressing modes that disassemble_opcode() has a form for, by the number
\* of parameters: it asserts that the mode is one of them.
Formats == <<{"ACC", "IMP"},
             {"IMM", "ZPA", "ZPX", "ZPY", "REL", "INX", "INY"},
             {"ABS", "ABX", "ABY", "IND"}>>

disassemble_opcode(addr_mode, opcode_par_n) == addr_mode \in Formats[opcode_par_n + 1]

opcode_get_params(b) == opcode_len(b) - 1

\* The step callback.  collect_step_info() has the opcode read again for the
\* name, for the mode and for the number of parameters.
step_callback ==
  /\ phase = "step"
  /\ \E name, mode, par \in MEM_READ(mem, pc) :
       phase' = IF ~disassemble_opcode(OpcodeNames[mode].addr_mode, opcode_get_params(par))
                THEN "aborted"
                ELSE IF OpcodeNames[name].exec \in StopOps THEN "stopped"
                ELSE "fetch"
  /\ UNCHANGED <<mem, sreg, flags, pc, branch, exc>>

-----------------------------------------------------------------------------
(* The primitives of opcodes.c, one action each, and the functions of the   *)
(* opcode table that call them.                                             *)

LoadInto  == [LDA |-> "ACC", LDX |-> "X", LDY |-> "Y"]
StoreFrom == [STA |-> "ACC", STX |-> "X", STY |-> "Y"]
Transfer  == [TAX |-> <<"X", "ACC">>, TAY |-> <<"Y", "ACC">>, TXA |-> <<"ACC", "X">>,
              TYA |-> <<"ACC", "Y">>, TSX |-> <<"X", "SP">>, TXS |-> <<"SP", "X">>]
PushFrom  == [PHA |-> "ACC", PHP |-> "CPU"]
PullInto  == [PLA |-> "ACC", PLP |-> "CPU"]
CompareWith == [CMP |-> "ACC", CPX |-> "X", CPY |-> "Y"]
StepMem   == [INC |-> 1, DEC |-> -1]
StepReg   == [INX |-> <<"X", 1>>, INY |-> <<"Y", 1>>, DEX |-> <<"X", -1>>, DEY |-> <<"Y", -1>>]
ShiftBy   == [ASL |-> 1, ROL |-> 1, LSR |-> -1, ROR |-> -1]
BranchOn  == [BCC |-> <<FLAG_C, FALSE>>, BCS |-> <<FLAG_C, TRUE>>,
              BNE |-> <<FLAG_Z, FALSE>>, BEQ |-> <<FLAG_Z, TRUE>>,
              BPL |-> <<FLAG_N, FALSE>>, BMI |-> <<FLAG_N, TRUE>>,
              BVC |-> <<FLAG_V, FALSE>>, BVS |-> <<FLAG_V, TRUE>>]
SetsFlag  == [CLC |-> <<FLAG_C, FALSE>>, SEC |-> <<FLAG_C, TRUE>>,
              CLD |-> <<FLAG_D, FALSE>>, SED |-> <<FLAG_D, TRUE>>,
              CLI |-> <<FLAG_I, FALSE>>, SEI |-> <<FLAG_I, TRUE>>,
              CLV |-> <<FLAG_V, FALSE>>]

asm_mem2reg ==
  \E op \in Dispatched(DOMAIN LoadInto) :
    /\ \E a \in ADDR(mem, op.addr_mode) : \E v \in MEM_READ(mem, a) :
         SetRegister(LoadInto[op.exec], v)
    /\ Executed /\ UNCHANGED <<mem, branch, exc>>

asm_reg2mem ==
  \E op \in Dispatched(DOMAIN StoreFrom) :
    /\ \E a \in ADDR(mem, op.addr_mode) :
         mem' = MEM_WRITE(mem, a, sreg[StoreFrom[op.exec]])
    /\ Executed /\ UNCHANGED <<sreg, flags, branch, exc>>

asm_reg2reg ==
  \E op \in Dispatched(DOMAIN Transfer) :
    /\ SetRegister(Transfer[op.exec][1], sreg[Transfer[op.exec][2]])
    /\ Executed /\ UNCHANGED <<mem, branch, exc>>

asm_reg2stack ==
  \E op \in Dispatched(DOMAIN PushFrom) :
    /\ mem' = STACK_PUSH(mem, sreg["SP"], GET_SREG(PushFrom[op.exec]))
    /\ MoveSP(-1)
    /\ Executed /\ UNCHANGED <<flags, branch, exc>>

\* The popped byte is stored after SP has moved.
asm_stack2reg ==
  \E op \in Dispatched(DOMAIN PullInto) :
    LET v == STACK_POP(mem, sreg["SP"]) IN
    /\ IF PullInto[op.exec] = "CPU"
       THEN MoveSP(1) /\ flags' = BitsOf(v)
       ELSE /\ sreg' = [sreg EXCEPT !["SP"] = Wrap8(@ + 1), !["ACC"] = v]
            /\ flags' = flags_update_basic_by_value(flags, v)
    /\ Executed /\ UNCHANGED <<mem, branch, exc>>

\* BIT works on REG_INVALID, which reads as 0 and keeps nothing.
asm_logic_and ==
  \E op \in Dispatched({"AND", "BIT"}) :
    /\ \E v \in ADDR_MODE_GET_VALUE(op.addr_mode) :
         IF op.exec = "AND"
         THEN /\ sreg' = [sreg EXCEPT !["ACC"] = And(@, v)]
              /\ flags' = flags_update_basic_by_value(flags, And(sreg["ACC"], v))
         ELSE /\ flags' = flags_update_logic_overflow(
                            flags_update_basic_by_value(flags, And(0, v)), And(0, v))
              /\ UNCHANGED sreg
    /\ Executed /\ UNCHANGED <<mem, branch, exc>>

\* EOR and ORA set N and Z by the accumulator they are about to replace.
asm_logic_eor_ora ==
  \E op \in Dispatched({"EOR", "ORA"}) :
    /\ \E v \in ADDR_MODE_GET_VALUE(op.addr_mode) :
         sreg' = [sreg EXCEPT !["ACC"] = IF op.exec = "EOR" THEN Eor(@, v) ELSE Ora(@, v)]
    /\ flags' = flags_update_basic_by_value(flags, sreg["ACC"])
    /\ Executed /\ UNCHANGED <<mem, branch, exc>>

asm_arith_add ==
  \E op \in Dispatched({"ADC"}) :
    /\ \E v \in ADDR_MODE_GET_VALUE(op.addr_mode) :
         /\ sreg' = [sreg EXCEPT !["ACC"] = AddResult(flags, @, v)]
         /\ flags' = AddFlags(flags, sreg["ACC"], v)
    /\ Executed /\ UNCHANGED <<mem, branch, exc>>

asm_arith_sub ==
  \E op \in Dispatched({"SBC"}) :
    /\ \E v \in ADDR_MODE_GET_VALUE(op.addr_mode) :
         /\ sreg' = [sreg EXCEPT !["ACC"] = SubResult(flags, @, v)]
         /\ flags' = SubFlags(flags, sreg["ACC"], v)
    /\ Executed /\ UNCHANGED <<mem, branch, exc>>

\* asm_arith_sub with REG_INVALID as its destination.
asm_arith_cmp ==
  \E op \in Dispatched(DOMAIN CompareWith) :
    /\ \E v \in ADDR_MODE_GET_VALUE(op.addr_mode) :
         flags' = CmpFlags(flags, sreg[CompareWith[op.exec]], v)
    /\ Executed /\ UNCHANGED <<mem, sreg, branch, exc>>

\* N and Z come from reading the address back.
asm_inc_mem ==
  \E op \in Dispatched(DOMAIN StepMem) :
    /\ \E a \in ADDR(mem, op.addr_mode) :
         /\ mem' = MEM_INC(mem, a, StepMem[op.exec])
         /\ \E v \in MEM_READ(mem', a) : flags' = flags_update_basic_by_value(flags, v)
    /\ Executed /\ UNCHANGED <<sreg, branch, exc>>

asm_inc_reg ==
  \E op \in Dispatched(DOMAIN StepReg) :
    LET r == StepReg[op.exec][1] IN
    /\ SetRegister(r, Wrap8(sreg[r] + StepReg[op.exec][2]))
    /\ Executed /\ UNCHANGED <<mem, branch, exc>>

\* An operand at INVALID_ADDRESS, and not the mode, selects the accumulator.
asm_shrot ==
  \E op \in Dispatched(DOMAIN ShiftBy) :
    LET direction == ShiftBy[op.exec]
        fill == IF op.exec \in {"ROL", "ROR"} THEN GET_FLAG(flags, FLAG_C) ELSE 0
    IN
    /\ \E a \in ADDR(mem, op.addr_mode) :
         IF ADDR_VALID(a)
         THEN \E v \in MEM_READ(mem, a) :
                /\ mem' = MEM_WRITE(mem, a, ShiftResult(v, direction, fill))
                /\ \E r \in MEM_READ(mem', a) :
                     flags' = flags_update_basic_by_value(
                                flags_update_shrot_carry(flags, v, direction), r)
                /\ UNCHANGED sreg
         ELSE LET acc == sreg["ACC"]
                  r   == ShiftResult(acc, direction, fill)
              IN  /\ sreg' = [sreg EXCEPT !["ACC"] = r]
                  /\ flags' = flags_update_basic_by_value(
                                flags_update_shrot_carry(flags, acc, direction), r)
                  /\ UNCHANGED mem
    /\ Executed /\ UNCHANGED <<branch, exc>>

\* The branch condition; JMP has none.
Taken(name) ==
  name \in DOMAIN BranchOn => (BranchOn[name][1] \in flags) = BranchOn[name][2]

asm_mem2pc ==
  \E op \in Dispatched({"JMP"} \cup DOMAIN BranchOn) :
    /\ \E a \in ADDR(mem, op.addr_mode) : branch' = IF Taken(op.exec) THEN a ELSE branch
    /\ Executed /\ UNCHANGED <<mem, sreg, flags, exc>>

\* The return address minus one is pushed before the operand is read.
asm_JSR ==
  \E op \in Dispatched({"JSR"}) :
    /\ mem' = STACK_PUSH16(mem, sreg["SP"], pc + 2)
    /\ MoveSP(-2)
    /\ \E a \in ADDR(mem', op.addr_mode) : branch' = a
    /\ Executed /\ UNCHANGED <<flags, exc>>

\* Mutant: the address on the stack is taken for the return address.
asm_RTS_behind ==
  \E op \in Dispatched({"RTS"}) :
    /\ branch' = STACK_POP16(mem, sreg["SP"])
    /\ MoveSP(2)
    /\ Executed /\ UNCHANGED <<mem, flags, exc>>

asm_RTS ==
  \E op \in Dispatched({"RTS"}) :
    /\ branch' = Wrap16(STACK_POP16(mem, sreg["SP"]) + 1)
    /\ MoveSP(2)
    /\ Executed /\ UNCHANGED <<mem, flags, exc>>

asm_flag ==
  \E op \in Dispatched(DOMAIN SetsFlag) :
    /\ flags' = SET_FLAG(flags, SetsFlag[op.exec][1], SetsFlag[op.exec][2])
    /\ Executed /\ UNCHANGED <<mem, sreg, branch, exc>>

\* BRK: the exception hook first; it may end the thread.
asm_break ==
  \E op \in Dispatched({"BRK"}) :
    /\ exc' = IF BrkHook = "none" THEN exc ELSE pc
    /\ IF BrkHook = "exits"
       THEN phase' = "stopped" /\ UNCHANGED <<pc, branch>>
       ELSE branch' \in MEM_READ16(mem, CPU_ADDR_BREAK) /\ Executed
    /\ UNCHANGED <<mem, sreg, flags>>

\* NOP, RTI and the unknown opcodes.
asm_NOP ==
  \E op \in Dispatched({"NOP", "RTI"}) :
    Executed /\ UNCHANGED <<mem, sreg, flags, branch, exc>>

-----------------------------------------------------------------------------
(* Power (sfot.c): the client loads an image, which holds the reset vector, *)
(* and powers on; after a run that returned it may power off and start over.*)

Cleared == [r \in ShortReg |-> 0]

Init ==
  /\ mem \in Images
  /\ sreg = Cleared
  /\ flags = {}
  /\ pc = 0
  /\ branch \in MEM_READ16(mem, CPU_ADDR_RESET)
  /\ phase = "fetch"
  /\ exc = NoException

\* core_clear_all() leaves reg_pc alone.
power_cycle ==
  /\ phase = "stopped"
  /\ mem' \in Images
  /\ sreg' = Cleared
  /\ flags' = {}
  /\ branch' \in MEM_READ16(mem', CPU_ADDR_RESET)
  /\ phase' = "fetch"
  /\ UNCHANGED <<pc, exc>>

opcode_exec ==
  \/ asm_mem2reg \/ asm_reg2mem \/ asm_reg2reg \/ asm_reg2stack \/ asm_stack2reg
  \/ asm_logic_and \/ asm_logic_eor_ora \/ asm_arith_add \/ asm_arith_sub
  \/ asm_arith_cmp \/ asm_inc_mem \/ asm_inc_reg \/ asm_shrot \/ asm_mem2pc
  \/ asm_JSR \/ asm_RTS \/ asm_flag \/ asm_break \/ asm_NOP

cpu_thread == opcode_fetch \/ opcode_exec \/ step_callback

Next == cpu_thread \/ power_cycle

Spec == Init /\ [][Next]_vars

\* A single run: the machine is not started again after it has stopped.
RunSpec == Init /\ [][cpu_thread]_vars

\* The thread that runs cpu_thread() never waits: it keeps taking steps.
FairSpec == Spec /\ WF_vars(cpu_thread)

-----------------------------------------------------------------------------
(* Every register and memory cell keeps the width of its C type, the        *)
(* program counter stays below the reserved vectors (the assertion of       *)
(* opcode_fetch) and a pending target survives no fetch.                    *)
TypeOK ==
  /\ IsMemory(mem)
  /\ sreg \in [ShortReg -> Byte]
  /\ flags \subseteq StatusBit
  /\ pc \in 0..(CPU_ADDR_RESERVED_START - 1)
  /\ branch \in Word
  /\ phase \in {"fetch", "exec", "step", "stopped", "aborted"}
  /\ exc \in Word \cup {NoException}
  /\ phase = "exec" => branch = INVALID_ADDRESS

\* Whatever way an instruction writes, INC and DEC and the shifts included, a
\* cell behind a write hook only ever takes what the hook answered (0 is what
\* core_clear_all() leaves there).
FilteredCells(M) ==
  \A a \in DOMAIN WriteHook :
    Cell(M, a) # 0 => \E v \in Byte : Cell(M, a) = WriteHook[a][v]

HookedCellsFiltered == FilteredCells(mem)

\* The addresses that are translated away: no address leads to them.
TranslatedAway ==
  {a \in DOMAIN Transl : \A b \in DOMAIN Transl : Transl[b] # a}

\* "only the translated address will be accessed" (hooks.c): no instruction
\* changes a cell that is translated away, by whatever mode it addresses it.
TranslatedCellsUntouched ==
  [][\A a \in TranslatedAway : Cell(mem', a) = Cell(mem, a)]_mem

\* The instructions that may change each bit of the status register.
Owners(bit) ==
  CASE bit = FLAG_C -> {"ADC", "SBC", "CMP", "CPX", "CPY", "CLC", "SEC", "PLP"}
                         \cup DOMAIN ShiftBy
    [] bit = FLAG_I -> {"CLI", "SEI", "PLP"}
    [] bit = FLAG_D -> {"CLD", "SED", "PLP"}
    [] bit = FLAG_V -> {"CLV", "ADC", "SBC", "BIT", "PLP"}
    [] bit \in {FLAG_Z, FLAG_N} ->
         Exec \ ({"JMP", "JSR", "RTS", "RTI", "BRK", "NOP", "TXS", "PHA", "PHP"}
                   \cup DOMAIN StoreFrom \cup DOMAIN BranchOn \cup DOMAIN SetsFlag)
    [] OTHER        -> {"PLP"}

\* A bit of the status register outlives every instruction between the one
\* that sets it and the one that tests it, unless that one owns the bit.
FlagsOwned ==
  [][phase = "exec" =>
       \E op \in Dispatched(Exec) :
         \A bit \in StatusBit :
           (bit \in flags) # (bit \in flags') => op.exec \in Owners(bit)]_vars

\* What flags_update_arith_overflow() is called for, and has a comment of doubt
\* about: an ADC of two bytes sets the overflow flag when their sum, as the signed
\* numbers that the routine takes them for, is no signed byte.
SignedOverflow(a, b, factor) == Int8(a) + Int8(b) * factor \notin -128..127

OverflowDetected ==
  [][\A op \in Dispatched({"ADC"}) :
       \A v \in ADDR_MODE_GET_VALUE(op.addr_mode) :
         SignedOverflow(sreg["ACC"], v, 1) => FLAG_V \in flags']_vars

=============================================================================
