--------------------------- MODULE Cpu6502Proofs ---------------------------
(***************************************************************************)
(* Theorems about the 6502 core, for every opcode table, memory image and  *)
(* set of hooks: the widths of its state, what an instruction may change   *)
(* of the status register and of memory behind hooks, and arithmetic wider *)
(* than a byte.                                                            *)
(***************************************************************************)
EXTENDS Cpu6502, TLAPS

-----------------------------------------------------------------------------
(* The fixed-width integers.                                                *)

\* Membership in the two large intervals, as inequalities the solver reads.
LEMMA WordRange ==
  ASSUME NEW n
  PROVE  n \in Word <=> n \in Int /\ 0 <= n /\ n <= 65535
<1>1. UINT16_MAX \in Int /\ (n <= UINT16_MAX <=> n <= 65535)
  BY DEF UINT16_MAX
<1> QED BY <1>1 DEF Word

LEMMA PcRange ==
  ASSUME NEW n
  PROVE  n \in 0..(CPU_ADDR_RESERVED_START - 1) <=> n \in Int /\ 0 <= n /\ n <= 65529
<1>1. /\ CPU_ADDR_RESERVED_START - 1 \in Int
      /\ n \in Int => (n <= CPU_ADDR_RESERVED_START - 1 <=> n <= 65529)
  BY DEF CPU_ADDR_RESERVED_START
<1> QED BY <1>1

LEMMA WrapTypes ==
  ASSUME NEW n \in Int
  PROVE  Wrap8(n) \in Byte /\ Wrap16(n) \in Word
BY WordRange DEF Wrap8, Wrap16, Byte

LEMMA BitTypes ==
  /\ \A v : BitsOf(v) \subseteq StatusBit
  /\ \A bits : ByteOf(bits) \in Byte
BY DEF BitsOf, ByteOf, Weight, StatusBit, Byte

LEMMA FlagTypes ==
  ASSUME NEW p, p \subseteq StatusBit
  PROVE  /\ \A v : flags_update_basic_by_value(p, v) \subseteq StatusBit
         /\ \A v : flags_update_logic_overflow(p, v) \subseteq StatusBit
         /\ \A v, d : flags_update_shrot_carry(p, v, d) \subseteq StatusBit
         /\ \A a, v : AddFlags(p, a, v) \subseteq StatusBit
         /\ \A a, v : SubFlags(p, a, v) \subseteq StatusBit
         /\ \A a, v : CmpFlags(p, a, v) \subseteq StatusBit
         /\ GET_FLAG(p, FLAG_C) \in {0, 1}
<1>1. \A q, flag, on : q \subseteq StatusBit /\ flag \in StatusBit
                         => SET_FLAG(q, flag, on) \subseteq StatusBit
  BY DEF SET_FLAG
<1>2. {FLAG_C, FLAG_Z, FLAG_V, FLAG_N} \subseteq StatusBit
  BY DEF FLAG_C, FLAG_Z, FLAG_V, FLAG_N, StatusBit
<1>3. \A q, v : q \subseteq StatusBit => flags_update_basic_by_value(q, v) \subseteq StatusBit
  BY <1>1, <1>2 DEF flags_update_basic_by_value
<1>4. \A q, a, v, d : q \subseteq StatusBit
                         => flags_update_arith_overflow(q, a, v, d) \subseteq StatusBit
  BY <1>1, <1>2 DEF flags_update_arith_overflow
<1>5. \A v : flags_update_logic_overflow(p, v) \subseteq StatusBit
  BY <1>1, <1>2 DEF flags_update_logic_overflow
<1>6. \A v, d : flags_update_shrot_carry(p, v, d) \subseteq StatusBit
  BY <1>1, <1>2 DEF flags_update_shrot_carry
<1>7. \A a, v : AddFlags(p, a, v) \subseteq StatusBit
  BY <1>1, <1>2, <1>3, <1>4 DEF AddFlags, flags_update_arith_adc_carry
<1>8. \A a, v : SubFlags(p, a, v) \subseteq StatusBit
  BY <1>1, <1>2, <1>3, <1>4 DEF SubFlags, flags_update_arith_sbc_carry
<1>9. \A a, v : CmpFlags(p, a, v) \subseteq StatusBit
  BY <1>1, <1>2, <1>3 DEF CmpFlags, flags_update_arith_cmp_carry
<1> QED BY <1>3, <1>5, <1>6, <1>7, <1>8, <1>9 DEF GET_FLAG

LEMMA ResultTypes ==
  ASSUME NEW p, NEW a \in Byte, NEW v \in Byte
  PROVE  /\ AddResult(p, a, v) \in Byte /\ SubResult(p, a, v) \in Byte
         /\ And(a, v) \in Byte /\ Ora(a, v) \in Byte /\ Eor(a, v) \in Byte
         /\ \A d : \A fill \in {0, 1} : ShiftResult(v, d, fill) \in Byte
BY BitTypes DEF AddResult, SubResult, GET_FLAG, Wrap8, And, Ora, Eor, ShiftResult, Byte

-----------------------------------------------------------------------------
(* Memory and addresses.                                                    *)

LEMMA TranslateType ==
  ASSUME NEW a \in Word
  PROVE  Translate(a) \in Word
BY HookAssumption DEF Translate

LEMMA ReadTypes ==
  ASSUME NEW M, IsMemory(M), NEW a \in Word
  PROVE  MEM_READ(M, a) \subseteq Byte /\ MEM_READ16(M, a) \subseteq Word
<1>1. \A b \in Word : Cell(M, b) \in Byte
  BY DEF IsMemory, Cell, Byte
<1>2. \A b \in Word : MEM_READ(M, b) \subseteq Byte
  BY <1>1, TranslateType, HookAssumption DEF MEM_READ
<1>3. Wrap16(a + 1) \in Word
  BY WordRange DEF Wrap16
<1>4. ASSUME NEW m \in Byte, NEW l \in Byte PROVE 256 * m + l \in Word
  BY WordRange DEF Byte
<1>5. MEM_READ16(M, a) \subseteq Word
  <2> SUFFICES ASSUME NEW w \in MEM_READ16(M, a) PROVE w \in Word
    OBVIOUS
  <2>1. PICK m \in MEM_READ(M, Wrap16(a + 1)), l \in MEM_READ(M, a) : w = 256 * m + l
    BY DEF MEM_READ16
  <2>2. m \in Byte /\ l \in Byte
    BY <1>2, <1>3
  <2> QED BY <1>4, <2>1, <2>2
<1> QED BY <1>2, <1>5

LEMMA StoreType ==
  ASSUME NEW M, IsMemory(M), NEW a \in Word, NEW v \in Byte
  PROVE  IsMemory(Store(M, a, v))
BY DEF IsMemory, Store

LEMMA WriteTypes ==
  ASSUME NEW M, IsMemory(M), NEW a \in Word, NEW v \in Byte
  PROVE  IsMemory(MEM_WRITE(M, a, v))
<1>1. Filtered(Translate(a), v) \in Byte
  BY HookAssumption DEF Filtered
<1> QED BY <1>1, TranslateType, StoreType DEF MEM_WRITE

LEMMA IncType ==
  ASSUME NEW M, IsMemory(M), NEW a \in Word, NEW n \in Int
  PROVE  IsMemory(MEM_INC(M, a, n))
<1> DEFINE t == Translate(a)
           v == Wrap8(Cell(M, t) + n)
<1>1. t \in Word
  BY TranslateType
<1>2. Cell(M, t) \in Byte
  BY <1>1 DEF IsMemory, Cell, Byte
<1>3. v \in Byte
  BY <1>2, WrapTypes DEF Byte
<1>4. Filtered(t, v) \in Byte
  BY <1>3, HookAssumption DEF Filtered
<1> QED BY <1>1, <1>4, StoreType DEF MEM_INC

LEMMA StackTypes ==
  ASSUME NEW M, IsMemory(M), NEW sp \in Byte
  PROVE  /\ \A v \in Byte : IsMemory(STACK_PUSH(M, sp, v))
         /\ \A v \in Word : IsMemory(STACK_PUSH16(M, sp, v))
         /\ STACK_POP(M, sp) \in Byte
         /\ STACK_POP16(M, sp) \in Word
<1>1. \A s \in Byte : StackAddr(s) \in Word
  BY WordRange DEF StackAddr, STACK_PAGE, Byte
<1>2. \A n \in Int : Wrap8(n) \in Byte
  BY WrapTypes
<1>3. \A N, s, v : IsMemory(N) /\ s \in Byte /\ v \in Byte => IsMemory(STACK_PUSH(N, s, v))
  BY <1>1, StoreType DEF STACK_PUSH
<1>4. \A v \in Word : IsMemory(STACK_PUSH16(M, sp, v))
  <2> SUFFICES ASSUME NEW v \in Word PROVE IsMemory(STACK_PUSH16(M, sp, v))
    OBVIOUS
  <2>0. v \in Int /\ 0 <= v /\ v < 256 * 256
    BY WordRange
  <2>1. v \div 256 \in Byte /\ v % 256 \in Byte
    <3>1. v % 256 \in Byte
      BY <2>0 DEF Byte
    <3>2. v \div 256 \in Byte
      BY <2>0 DEF Byte
    <3> QED BY <3>1, <3>2
  <2>2. Wrap8(sp - 1) \in Byte
    BY DEF Wrap8, Byte
  <2>3. IsMemory(STACK_PUSH(M, sp, v \div 256))
    BY <1>3, <2>1
  <2> QED BY <1>3, <2>1, <2>2, <2>3 DEF STACK_PUSH16
<1>5. \A s \in Byte : STACK_POP(M, s) \in Byte
  <2> SUFFICES ASSUME NEW s \in Byte PROVE STACK_POP(M, s) \in Byte
    OBVIOUS
  <2>1. Wrap8(s + 1) \in Byte
    BY <1>2 DEF Byte
  <2> QED BY <1>1, <2>1 DEF STACK_POP, Cell, IsMemory, Byte
<1>6. STACK_POP16(M, sp) \in Word
  <2>1. Wrap8(sp + 1) \in Byte
    BY <1>2 DEF Byte
  <2>2. STACK_POP(M, Wrap8(sp + 1)) \in Byte /\ STACK_POP(M, sp) \in Byte
    BY <1>5, <2>1
  <2>3. \A h, l \in Byte : 256 * h + l \in Word
    BY WordRange DEF Byte
  <2> QED BY <2>2, <2>3 DEF STACK_POP16
<1> QED BY <1>3, <1>4, <1>5, <1>6

LEMMA SumTypes ==
  /\ \A z, d \in Byte : z + d \in Word /\ z \in Word
  /\ \A n \in Word, z \in Byte : Wrap16(n + 2 + Int8(z)) \in Word
  /\ \A n \in Word, d \in Byte : Wrap16(n + d) \in Word
<1>1. ASSUME NEW z \in Byte, NEW d \in Byte PROVE z + d \in Word /\ z \in Word
  BY WordRange DEF Byte
<1>2. \A z \in Byte : Int8(z) \in Int
  BY DEF Int8, Byte
<1>3. \A n \in Int : Wrap16(n) \in Word
  BY WrapTypes
<1>4. \A n \in Word, z \in Byte : n + 2 + Int8(z) \in Int /\ n + z \in Int
  BY <1>2, WordRange DEF Byte
<1> QED BY <1>1, <1>3, <1>4

LEMMA AddrTypes ==
  ASSUME NEW M, IsMemory(M), pc \in 0..(CPU_ADDR_RESERVED_START - 1),
         sreg \in [ShortReg -> Byte], NEW mode
  PROVE  ADDR(M, mode) \subseteq Word
<1>1. pc + 1 \in Word
  BY WordRange, PcRange
<1>2. MEM_READ(M, pc + 1) \subseteq Byte /\ MEM_READ16(M, pc + 1) \subseteq Word
  BY <1>1, ReadTypes
<1>3. sreg["X"] \in Byte /\ sreg["Y"] \in Byte
  BY DEF ShortReg
<1>4. \A z, d \in Byte : z + d \in Word /\ z \in Word
  BY SumTypes
<1>5. \A z \in Byte : Wrap16(pc + 2 + Int8(z)) \in Word
  <2>1. pc \in Word
    BY WordRange, PcRange
  <2> QED BY <2>1, SumTypes
<1>6. \A a \in Word, d \in Byte : Wrap16(a + d) \in Word
  BY SumTypes
<1>7. \A a \in Word : MEM_READ16(M, a) \subseteq Word
  BY ReadTypes
<1>8. INVALID_ADDRESS \in Word
  BY WordRange DEF INVALID_ADDRESS
<1> QED BY <1>1, <1>2, <1>3, <1>4, <1>5, <1>6, <1>7, <1>8 DEF ADDR

LEMMA ValueTypes ==
  ASSUME IsMemory(mem), pc \in 0..(CPU_ADDR_RESERVED_START - 1),
         sreg \in [ShortReg -> Byte], NEW mode
  PROVE  ADDR_MODE_GET_VALUE(mode) \subseteq Byte
<1>1. ADDR(mem, mode) \subseteq Word
  BY AddrTypes
<1>2. \A a \in Word : MEM_READ(mem, a) \subseteq Byte
  BY ReadTypes
<1>3. sreg["ACC"] \in Byte /\ 0 \in Byte
  BY DEF ShortReg, Byte
<1> QED BY <1>1, <1>2, <1>3 DEF ADDR_MODE_GET_VALUE

LEMMA BelowReserved ==
  ASSUME NEW n \in Word, n < CPU_ADDR_RESERVED_START
  PROVE  n \in 0..(CPU_ADDR_RESERVED_START - 1)
<1>1. n < 65530
  BY DEF CPU_ADDR_RESERVED_START
<1> QED BY <1>1, WordRange, PcRange

LEMMA WordPlusOne == \A n \in Word : n + 1 \in Int
BY WordRange

LEMMA Vectors == CPU_ADDR_BREAK \in Word /\ CPU_ADDR_RESET \in Word
BY WordRange DEF CPU_ADDR_BREAK, CPU_ADDR_RESET

LEMMA PcPlusTwo ==
  ASSUME NEW n \in 0..(CPU_ADDR_RESERVED_START - 1)
  PROVE  n + 2 \in Word
BY WordRange, PcRange

LEMMA NextPcType ==
  ASSUME NEW b \in Byte, pc \in 0..(CPU_ADDR_RESERVED_START - 1), branch \in Word
  PROVE  NextPc(b) \in Word
<1>1. pc \in Word
  BY WordRange, PcRange
<1>2. opcode_len(b) \in Byte
  BY DEF opcode_len, Byte
<1>3. Wrap16(pc + opcode_len(b)) \in Word
  BY <1>1, <1>2, SumTypes
<1> QED BY <1>3 DEF NextPc

-----------------------------------------------------------------------------
(* Type correctness: what the registers and the dispatch of an instruction  *)
(* leave, and one step of the proof for each action.                        *)

LEMMA RegisterTypes ==
  ASSUME TypeOK, NEW r, NEW v \in Byte, SetRegister(r, v)
  PROVE  sreg' \in [ShortReg -> Byte] /\ flags' \subseteq StatusBit
<1>1. BitsOf(v) \subseteq StatusBit /\ flags_update_basic_by_value(flags, v) \subseteq StatusBit
  BY BitTypes, FlagTypes DEF TypeOK
<1>2. CASE r = "CPU"
  BY <1>1, <1>2 DEF SetRegister, TypeOK
<1>3. CASE r # "CPU"
  BY <1>1, <1>3 DEF SetRegister, TypeOK
<1> QED BY <1>2, <1>3

LEMMA MoveTypes ==
  ASSUME TypeOK, NEW n \in Int, MoveSP(n)
  PROVE  sreg' \in [ShortReg -> Byte]
<1>1. sreg["SP"] \in Byte
  BY DEF TypeOK, ShortReg
<1>2. sreg["SP"] + n \in Int
  BY <1>1 DEF Byte
<1>3. Wrap8(sreg["SP"] + n) \in Byte
  BY <1>2, WrapTypes
<1> QED BY <1>3 DEF MoveSP, TypeOK

LEMMA RegisterValues ==
  ASSUME TypeOK
  PROVE  /\ sreg["SP"] \in Byte /\ sreg["ACC"] \in Byte
         /\ sreg["X"] \in Byte /\ sreg["Y"] \in Byte
         /\ \A r \in ShortReg \cup {"CPU"} : GET_SREG(r) \in Byte
<1>1. ByteOf(flags) \in Byte
  BY BitTypes
<1> QED BY <1>1 DEF TypeOK, ShortReg, GET_SREG

\* An instruction is dispatched in phase "exec" only, to an entry of the table.
LEMMA DispatchTypes ==
  ASSUME TypeOK, NEW names, NEW op \in Dispatched(names)
  PROVE  /\ phase = "exec" /\ branch = INVALID_ADDRESS /\ op.exec \in names
         /\ op.exec \in Exec /\ op.addr_mode \in AddrMode
         /\ ADDR(mem, op.addr_mode) \subseteq Word
         /\ ADDR_MODE_GET_VALUE(op.addr_mode) \subseteq Byte
<1>1. phase = "exec"
  BY DEF Dispatched
<1>2. pc \in Word
  <2>1. pc \in 0..(CPU_ADDR_RESERVED_START - 1)
    BY DEF TypeOK
  <2> QED BY <2>1, WordRange, PcRange
<1>3. MEM_READ(mem, pc) \subseteq Byte
  BY <1>2, ReadTypes DEF TypeOK
<1>4. PICK b \in MEM_READ(mem, pc) : op = OpcodeNames[b] /\ op.exec \in names
  BY <1>1 DEF Dispatched
<1>5. op \in [exec : Exec, addr_mode : AddrMode]
  BY <1>3, <1>4, TableAssumption
<1>6. ADDR(mem, op.addr_mode) \subseteq Word
  BY AddrTypes DEF TypeOK
<1>7. ADDR_MODE_GET_VALUE(op.addr_mode) \subseteq Byte
  BY ValueTypes DEF TypeOK
<1> QED BY <1>1, <1>4, <1>5, <1>6, <1>7 DEF TypeOK

LEMMA ExecutedTypes ==
  ASSUME TypeOK, phase = "exec", Executed, IsMemory(mem'),
         sreg' \in [ShortReg -> Byte], flags' \subseteq StatusBit,
         branch' \in Word, exc' \in Word \cup {NoException}
  PROVE  TypeOK'
BY DEF TypeOK, Executed

\* One step per action: each conjunct of TypeOK that the action can disturb.
LEMMA TypeInductive ==
  ASSUME TypeOK, [Next]_vars
  PROVE  TypeOK'
<1>0. /\ IsMemory(mem) /\ sreg \in [ShortReg -> Byte] /\ flags \subseteq StatusBit
      /\ branch \in Word /\ exc \in Word \cup {NoException} /\ pc \in Word
  <2>1. pc \in 0..(CPU_ADDR_RESERVED_START - 1)
    BY DEF TypeOK
  <2>2. pc \in Word
    BY <2>1, WordRange, PcRange
  <2> QED BY <2>2 DEF TypeOK
<1>1. CASE opcode_fetch
  <2>1. PICK b \in MEM_READ(mem, pc) :
          IF NextPc(b) < CPU_ADDR_RESERVED_START
          THEN pc' = NextPc(b) /\ phase' = "exec"
          ELSE phase' = "aborted" /\ UNCHANGED pc
    BY <1>1 DEF opcode_fetch
  <2>2. b \in Byte
    BY <1>0, ReadTypes
  <2>3. NextPc(b) \in Word
    BY <2>2, NextPcType DEF TypeOK
  <2>4. pc' \in 0..(CPU_ADDR_RESERVED_START - 1)
    <3>1. CASE NextPc(b) < CPU_ADDR_RESERVED_START
      <4>1. pc' = NextPc(b)
        BY <2>1, <3>1
      <4>2. NextPc(b) \in 0..(CPU_ADDR_RESERVED_START - 1)
        BY <2>3, <3>1, BelowReserved
      <4> QED BY <4>1, <4>2
    <3>2. CASE ~(NextPc(b) < CPU_ADDR_RESERVED_START)
      BY <2>1, <3>2 DEF TypeOK
    <3> QED BY <3>1, <3>2
  <2>5. phase' \in {"exec", "aborted"}
    BY <2>1
  <2>6. branch' = INVALID_ADDRESS /\ INVALID_ADDRESS \in Word
    BY <1>1, WordRange DEF opcode_fetch, INVALID_ADDRESS
  <2> QED BY <1>0, <1>1, <2>4, <2>5, <2>6 DEF TypeOK, opcode_fetch
<1>2. CASE step_callback
  <2>1. phase' \in {"aborted", "stopped", "fetch"}
    BY <1>2 DEF step_callback
  <2> QED BY <1>2, <2>1 DEF TypeOK, step_callback
<1>3. CASE asm_mem2reg
  <2>1. PICK op \in Dispatched(DOMAIN LoadInto) :
          /\ \E a \in ADDR(mem, op.addr_mode) : \E v \in MEM_READ(mem, a) :
               SetRegister(LoadInto[op.exec], v)
          /\ Executed /\ UNCHANGED <<mem, branch, exc>>
    BY <1>3 DEF asm_mem2reg
  <2>2. PICK a \in ADDR(mem, op.addr_mode) : \E v \in MEM_READ(mem, a) :
               SetRegister(LoadInto[op.exec], v)
    BY <2>1
  <2>3. MEM_READ(mem, a) \subseteq Byte
    BY <1>0, DispatchTypes, ReadTypes
  <2>4. sreg' \in [ShortReg -> Byte] /\ flags' \subseteq StatusBit
    BY <2>2, <2>3, RegisterTypes
  <2> QED BY <1>0, <2>1, <2>4, DispatchTypes, ExecutedTypes
<1>4. CASE asm_reg2mem
  <2>1. PICK op \in Dispatched(DOMAIN StoreFrom) :
          /\ \E a \in ADDR(mem, op.addr_mode) :
               mem' = MEM_WRITE(mem, a, sreg[StoreFrom[op.exec]])
          /\ Executed /\ UNCHANGED <<sreg, flags, branch, exc>>
    BY <1>4 DEF asm_reg2mem
  <2>2. sreg[StoreFrom[op.exec]] \in Byte
    <3>1. op.exec \in {"STA", "STX", "STY"}
      BY DispatchTypes DEF StoreFrom
    <3>2. StoreFrom[op.exec] \in {"ACC", "X", "Y"}
      BY <3>1 DEF StoreFrom
    <3> QED BY <3>2, RegisterValues
  <2>3. IsMemory(mem')
    BY <1>0, <2>1, <2>2, DispatchTypes, WriteTypes
  <2> QED BY <1>0, <2>1, <2>3, DispatchTypes, ExecutedTypes
<1>5. CASE asm_reg2reg
  <2>1. PICK op \in Dispatched(DOMAIN Transfer) :
          /\ SetRegister(Transfer[op.exec][1], sreg[Transfer[op.exec][2]])
          /\ Executed /\ UNCHANGED <<mem, branch, exc>>
    BY <1>5 DEF asm_reg2reg
  <2>2. sreg[Transfer[op.exec][2]] \in Byte
    <3>1. op.exec \in {"TAX", "TAY", "TXA", "TYA", "TSX", "TXS"}
      BY DispatchTypes DEF Transfer
    <3>2. Transfer[op.exec][2] \in {"ACC", "X", "Y", "SP"}
      BY <3>1 DEF Transfer
    <3> QED BY <3>2, RegisterValues
  <2>3. sreg' \in [ShortReg -> Byte] /\ flags' \subseteq StatusBit
    BY <2>1, <2>2, RegisterTypes
  <2> QED BY <1>0, <2>1, <2>3, DispatchTypes, ExecutedTypes
<1>6. CASE asm_reg2stack
  <2>1. PICK op \in Dispatched(DOMAIN PushFrom) :
          /\ mem' = STACK_PUSH(mem, sreg["SP"], GET_SREG(PushFrom[op.exec]))
          /\ MoveSP(-1)
          /\ Executed /\ UNCHANGED <<flags, branch, exc>>
    BY <1>6 DEF asm_reg2stack
  <2>2. GET_SREG(PushFrom[op.exec]) \in Byte
    <3>1. op.exec \in {"PHA", "PHP"}
      BY DispatchTypes DEF PushFrom
    <3>2. PushFrom[op.exec] \in ShortReg \cup {"CPU"}
      BY <3>1 DEF PushFrom, ShortReg
    <3> QED BY <3>2, RegisterValues
  <2>3. IsMemory(mem')
    BY <1>0, <2>1, <2>2, RegisterValues, StackTypes
  <2>4. sreg' \in [ShortReg -> Byte]
    BY <2>1, MoveTypes
  <2> QED BY <1>0, <2>1, <2>3, <2>4, DispatchTypes, ExecutedTypes
<1>7. CASE asm_stack2reg
  <2> DEFINE v == STACK_POP(mem, sreg["SP"])
  <2>1. PICK op \in Dispatched(DOMAIN PullInto) :
          /\ IF PullInto[op.exec] = "CPU"
             THEN MoveSP(1) /\ flags' = BitsOf(v)
             ELSE /\ sreg' = [sreg EXCEPT !["SP"] = Wrap8(@ + 1), !["ACC"] = v]
                  /\ flags' = flags_update_basic_by_value(flags, v)
          /\ Executed /\ UNCHANGED <<mem, branch, exc>>
    BY <1>7 DEF asm_stack2reg
  <2>2. v \in Byte
    BY <1>0, RegisterValues, StackTypes
  <2>3. flags' \subseteq StatusBit
    BY <1>0, <2>1, BitTypes, FlagTypes
  <2>4. Wrap8(sreg["SP"] + 1) \in Byte
    <3>1. sreg["SP"] + 1 \in Int
      BY RegisterValues DEF Byte
    <3> QED BY <3>1, WrapTypes
  <2> HIDE DEF v
  <2>5. sreg' \in [ShortReg -> Byte]
    <3>1. CASE PullInto[op.exec] = "CPU"
      BY <2>1, <3>1, MoveTypes
    <3>2. CASE PullInto[op.exec] # "CPU"
      BY <1>0, <2>1, <2>2, <2>4, <3>2
    <3> QED BY <3>1, <3>2
  <2> QED BY <1>0, <2>1, <2>3, <2>5, DispatchTypes, ExecutedTypes
<1>8. CASE asm_logic_and
  <2>1. PICK op \in Dispatched({"AND", "BIT"}) :
          /\ \E v \in ADDR_MODE_GET_VALUE(op.addr_mode) :
               IF op.exec = "AND"
               THEN /\ sreg' = [sreg EXCEPT !["ACC"] = And(@, v)]
                    /\ flags' = flags_update_basic_by_value(flags, And(sreg["ACC"], v))
               ELSE /\ flags' = flags_update_logic_overflow(
                                  flags_update_basic_by_value(flags, And(0, v)), And(0, v))
                    /\ UNCHANGED sreg
          /\ Executed /\ UNCHANGED <<mem, branch, exc>>
    BY <1>8 DEF asm_logic_and
  <2>2. \A v : flags_update_basic_by_value(flags, v) \subseteq StatusBit
    BY <1>0, FlagTypes
  <2>3. \A v, w : flags_update_logic_overflow(flags_update_basic_by_value(flags, w), v)
                    \subseteq StatusBit
    BY <2>2, FlagTypes
  <2>4. \A a, v : And(a, v) \in Byte
    BY BitTypes DEF And
  <2>5. sreg' \in [ShortReg -> Byte]
    BY <1>0, <2>1, <2>4
  <2>6. flags' \subseteq StatusBit
    BY <2>1, <2>2, <2>3
  <2> QED BY <1>0, <2>1, <2>5, <2>6, DispatchTypes, ExecutedTypes
<1>9. CASE asm_logic_eor_ora
  <2>1. PICK op \in Dispatched({"EOR", "ORA"}) :
          /\ \E v \in ADDR_MODE_GET_VALUE(op.addr_mode) :
               sreg' = [sreg EXCEPT !["ACC"] = IF op.exec = "EOR" THEN Eor(@, v) ELSE Ora(@, v)]
          /\ flags' = flags_update_basic_by_value(flags, sreg["ACC"])
          /\ Executed /\ UNCHANGED <<mem, branch, exc>>
    BY <1>9 DEF asm_logic_eor_ora
  <2>2. \A a, v : Eor(a, v) \in Byte /\ Ora(a, v) \in Byte
    BY BitTypes DEF Eor, Ora
  <2>3. PICK v \in ADDR_MODE_GET_VALUE(op.addr_mode) :
          sreg' = [sreg EXCEPT !["ACC"] = IF op.exec = "EOR" THEN Eor(@, v) ELSE Ora(@, v)]
    BY <2>1
  <2>4. sreg' \in [ShortReg -> Byte]
    <3> DEFINE r == IF op.exec = "EOR" THEN Eor(sreg["ACC"], v) ELSE Ora(sreg["ACC"], v)
    <3>1. sreg' = [sreg EXCEPT !["ACC"] = r]
      BY <2>3
    <3>2. r \in Byte
      BY <2>2
    <3> HIDE DEF r
    <3> QED BY <1>0, <3>1, <3>2
  <2> QED BY <1>0, <2>1, <2>4, FlagTypes, DispatchTypes, ExecutedTypes
<1>10. CASE asm_arith_add
  <2>1. PICK op \in Dispatched({"ADC"}) :
          /\ \E v \in ADDR_MODE_GET_VALUE(op.addr_mode) :
               /\ sreg' = [sreg EXCEPT !["ACC"] = AddResult(flags, @, v)]
               /\ flags' = AddFlags(flags, sreg["ACC"], v)
          /\ Executed /\ UNCHANGED <<mem, branch, exc>>
    BY <1>10 DEF asm_arith_add
  <2>2. PICK v \in ADDR_MODE_GET_VALUE(op.addr_mode) :
          sreg' = [sreg EXCEPT !["ACC"] = AddResult(flags, @, v)]
    BY <2>1
  <2>3. v \in Byte
    BY <2>1, DispatchTypes
  <2>4. AddResult(flags, sreg["ACC"], v) \in Byte
    BY <2>3, RegisterValues, ResultTypes
  <2>5. sreg' \in [ShortReg -> Byte]
    BY <1>0, <2>2, <2>4
  <2> QED BY <1>0, <2>1, <2>5, FlagTypes, DispatchTypes, ExecutedTypes
<1>11. CASE asm_arith_sub
  <2>1. PICK op \in Dispatched({"SBC"}) :
          /\ \E v \in ADDR_MODE_GET_VALUE(op.addr_mode) :
               /\ sreg' = [sreg EXCEPT !["ACC"] = SubResult(flags, @, v)]
               /\ flags' = SubFlags(flags, sreg["ACC"], v)
          /\ Executed /\ UNCHANGED <<mem, branch, exc>>
    BY <1>11 DEF asm_arith_sub
  <2>2. PICK v \in ADDR_MODE_GET_VALUE(op.addr_mode) :
          sreg' = [sreg EXCEPT !["ACC"] = SubResult(flags, @, v)]
    BY <2>1
  <2>3. v \in Byte
    BY <2>1, DispatchTypes
  <2>4. SubResult(flags, sreg["ACC"], v) \in Byte
    BY <2>3, RegisterValues, ResultTypes
  <2>5. sreg' \in [ShortReg -> Byte]
    BY <1>0, <2>2, <2>4
  <2> QED BY <1>0, <2>1, <2>5, FlagTypes, DispatchTypes, ExecutedTypes
<1>12. CASE asm_arith_cmp
  BY <1>0, <1>12, FlagTypes, DispatchTypes, ExecutedTypes DEF asm_arith_cmp
<1>13. CASE asm_inc_mem
  <2>1. PICK op \in Dispatched(DOMAIN StepMem) :
          /\ \E a \in ADDR(mem, op.addr_mode) :
               /\ mem' = MEM_INC(mem, a, StepMem[op.exec])
               /\ \E v \in MEM_READ(mem', a) : flags' = flags_update_basic_by_value(flags, v)
          /\ Executed /\ UNCHANGED <<sreg, branch, exc>>
    BY <1>13 DEF asm_inc_mem
  <2>2. StepMem[op.exec] \in Int
    <3>1. op.exec \in {"INC", "DEC"}
      BY DispatchTypes DEF StepMem
    <3> QED BY <3>1 DEF StepMem
  <2>3. IsMemory(mem')
    BY <1>0, <2>1, <2>2, DispatchTypes, IncType
  <2>4. flags' \subseteq StatusBit
    BY <1>0, <2>1, FlagTypes
  <2> QED BY <1>0, <2>1, <2>3, <2>4, DispatchTypes, ExecutedTypes
<1>14. CASE asm_inc_reg
  <2>1. PICK op \in Dispatched(DOMAIN StepReg) :
          /\ SetRegister(StepReg[op.exec][1],
                         Wrap8(sreg[StepReg[op.exec][1]] + StepReg[op.exec][2]))
          /\ Executed /\ UNCHANGED <<mem, branch, exc>>
    BY <1>14 DEF asm_inc_reg
  <2>2. op.exec \in {"INX", "INY", "DEX", "DEY"}
    BY DispatchTypes DEF StepReg
  <2>3. StepReg[op.exec][1] \in {"X", "Y"} /\ StepReg[op.exec][2] \in {1, -1}
    BY <2>2 DEF StepReg
  <2>4. sreg[StepReg[op.exec][1]] + StepReg[op.exec][2] \in Int
    BY <2>3, RegisterValues, SMTT(30) DEF Byte
  <2>5. Wrap8(sreg[StepReg[op.exec][1]] + StepReg[op.exec][2]) \in Byte
    BY <2>4, WrapTypes
  <2>6. sreg' \in [ShortReg -> Byte] /\ flags' \subseteq StatusBit
    BY <2>1, <2>5, RegisterTypes
  <2> QED BY <1>0, <2>1, <2>6, DispatchTypes, ExecutedTypes
<1>15. CASE asm_shrot
  <2> DEFINE Fill(op) ==
        IF op.exec \in {"ROL", "ROR"} THEN GET_FLAG(flags, FLAG_C) ELSE 0
             Into(op, a) ==
        \E v \in MEM_READ(mem, a) :
          /\ mem' = MEM_WRITE(mem, a, ShiftResult(v, ShiftBy[op.exec], Fill(op)))
          /\ \E r \in MEM_READ(mem', a) :
               flags' = flags_update_basic_by_value(
                          flags_update_shrot_carry(flags, v, ShiftBy[op.exec]), r)
          /\ UNCHANGED sreg
             IntoAcc(op) ==
        LET r == ShiftResult(sreg["ACC"], ShiftBy[op.exec], Fill(op)) IN
          /\ sreg' = [sreg EXCEPT !["ACC"] = r]
          /\ flags' = flags_update_basic_by_value(
                        flags_update_shrot_carry(flags, sreg["ACC"], ShiftBy[op.exec]), r)
          /\ UNCHANGED mem
  <2>1. PICK op \in Dispatched(DOMAIN ShiftBy) :
          /\ \E a \in ADDR(mem, op.addr_mode) :
               IF ADDR_VALID(a) THEN Into(op, a) ELSE IntoAcc(op)
          /\ Executed /\ UNCHANGED <<branch, exc>>
    BY <1>15 DEF asm_shrot
  <2>2. Fill(op) \in {0, 1}
    BY <1>0, FlagTypes
  <2> HIDE DEF Fill
  <2>3. \A v, d, r : flags_update_basic_by_value(flags_update_shrot_carry(flags, v, d), r)
                       \subseteq StatusBit
    BY <1>0, FlagTypes
  <2>4. \A v \in Byte : \A d : ShiftResult(v, d, Fill(op)) \in Byte
    BY <2>2, ResultTypes
  <2>5. PICK a \in ADDR(mem, op.addr_mode) : Into(op, a) \/ IntoAcc(op)
    BY <2>1
  <2>6. IsMemory(mem')
    <3>1. CASE Into(op, a)
      <4>1. PICK v \in MEM_READ(mem, a) :
              mem' = MEM_WRITE(mem, a, ShiftResult(v, ShiftBy[op.exec], Fill(op)))
        BY <3>1
      <4>2. a \in Word /\ v \in Byte
        BY <1>0, DispatchTypes, ReadTypes
      <4> QED BY <1>0, <2>4, <4>1, <4>2, WriteTypes
    <3>2. CASE IntoAcc(op)
      BY <1>0, <3>2
    <3> QED BY <2>5, <3>1, <3>2
  <2>7. sreg' \in [ShortReg -> Byte]
    <3>1. CASE Into(op, a)
      BY <1>0, <3>1
    <3>2. CASE IntoAcc(op)
      <4>1. ShiftResult(sreg["ACC"], ShiftBy[op.exec], Fill(op)) \in Byte
        BY <2>4, RegisterValues
      <4> QED BY <1>0, <3>2, <4>1
    <3> QED BY <2>5, <3>1, <3>2
  <2>8. flags' \subseteq StatusBit
    BY <2>3, <2>5
  <2> QED BY <1>0, <2>1, <2>6, <2>7, <2>8, DispatchTypes, ExecutedTypes
<1>16. CASE asm_mem2pc
  <2>1. PICK op \in Dispatched({"JMP"} \cup DOMAIN BranchOn) :
          /\ \E a \in ADDR(mem, op.addr_mode) : branch' = IF Taken(op.exec) THEN a ELSE branch
          /\ Executed /\ UNCHANGED <<mem, sreg, flags, exc>>
    BY <1>16 DEF asm_mem2pc
  <2>2. branch' \in Word
    BY <1>0, <2>1, DispatchTypes
  <2> QED BY <1>0, <2>1, <2>2, DispatchTypes, ExecutedTypes
<1>17. CASE asm_JSR
  <2>1. PICK op \in Dispatched({"JSR"}) :
          /\ mem' = STACK_PUSH16(mem, sreg["SP"], pc + 2)
          /\ MoveSP(-2)
          /\ \E a \in ADDR(mem', op.addr_mode) : branch' = a
          /\ Executed /\ UNCHANGED <<flags, exc>>
    BY <1>17 DEF asm_JSR
  <2>2. pc + 2 \in Word
    BY PcPlusTwo DEF TypeOK
  <2>3. IsMemory(mem')
    BY <1>0, <2>1, <2>2, RegisterValues, StackTypes
  <2>4. ADDR(mem', op.addr_mode) \subseteq Word
    BY <2>3, AddrTypes DEF TypeOK
  <2>5. sreg' \in [ShortReg -> Byte]
    BY <2>1, MoveTypes
  <2> QED BY <1>0, <2>1, <2>3, <2>4, <2>5, DispatchTypes, ExecutedTypes
<1>18. CASE asm_RTS
  <2>1. PICK op \in Dispatched({"RTS"}) :
          /\ branch' = Wrap16(STACK_POP16(mem, sreg["SP"]) + 1)
          /\ MoveSP(2)
          /\ Executed /\ UNCHANGED <<mem, flags, exc>>
    BY <1>18 DEF asm_RTS
  <2>2. STACK_POP16(mem, sreg["SP"]) \in Word
    BY <1>0, RegisterValues, StackTypes
  <2>3. STACK_POP16(mem, sreg["SP"]) + 1 \in Int
    BY <2>2, WordPlusOne
  <2>4. branch' \in Word
    BY <2>1, <2>3, WrapTypes
  <2>5. sreg' \in [ShortReg -> Byte]
    BY <2>1, MoveTypes
  <2> QED BY <1>0, <2>1, <2>4, <2>5, DispatchTypes, ExecutedTypes
<1>19. CASE asm_flag
  <2>1. PICK op \in Dispatched(DOMAIN SetsFlag) :
          /\ flags' = SET_FLAG(flags, SetsFlag[op.exec][1], SetsFlag[op.exec][2])
          /\ Executed /\ UNCHANGED <<mem, sreg, branch, exc>>
    BY <1>19 DEF asm_flag
  <2>2. op.exec \in {"CLC", "SEC", "CLD", "SED", "CLI", "SEI", "CLV"}
    BY DispatchTypes DEF SetsFlag
  <2>3. SetsFlag[op.exec][1] \in StatusBit
    BY <2>2 DEF SetsFlag, StatusBit, FLAG_C, FLAG_D, FLAG_I, FLAG_V
  <2>4. flags' \subseteq StatusBit
    BY <1>0, <2>1, <2>3 DEF SET_FLAG
  <2> QED BY <1>0, <2>1, <2>4, DispatchTypes, ExecutedTypes
<1>20. CASE asm_break
  <2>1. PICK op \in Dispatched({"BRK"}) :
          /\ exc' = IF BrkHook = "none" THEN exc ELSE pc
          /\ IF BrkHook = "exits"
             THEN phase' = "stopped" /\ UNCHANGED <<pc, branch>>
             ELSE branch' \in MEM_READ16(mem, CPU_ADDR_BREAK) /\ Executed
          /\ UNCHANGED <<mem, sreg, flags>>
    BY <1>20 DEF asm_break
  <2>2. exc' \in Word \cup {NoException}
    BY <1>0, <2>1
  <2>3. CASE BrkHook = "exits"
    <3>1. phase' = "stopped" /\ UNCHANGED <<pc, branch, mem, sreg, flags>>
      BY <2>1, <2>3
    <3> QED BY <1>0, <2>2, <3>1 DEF TypeOK
  <2>4. CASE BrkHook # "exits"
    <3>1. MEM_READ16(mem, CPU_ADDR_BREAK) \subseteq Word
      BY <1>0, ReadTypes, Vectors
    <3> QED BY <1>0, <2>1, <2>2, <2>4, <3>1, DispatchTypes, ExecutedTypes
  <2> QED BY <2>3, <2>4
<1>21. CASE asm_NOP
  BY <1>0, <1>21, DispatchTypes, ExecutedTypes DEF asm_NOP
<1>22. CASE power_cycle
  <2>1. IsMemory(mem')
    BY <1>22, ImageAssumption DEF power_cycle
  <2>2. branch' \in Word
    BY <1>22, <2>1, ReadTypes, Vectors DEF power_cycle
  <2>3. sreg' \in [ShortReg -> Byte]
    BY <1>22 DEF power_cycle, Cleared, Byte
  <2> QED BY <1>22, <2>1, <2>2, <2>3 DEF TypeOK, power_cycle
<1>23. CASE UNCHANGED vars
  BY <1>23 DEF vars, TypeOK, IsMemory
<1> QED
  BY <1>1, <1>2, <1>3, <1>4, <1>5, <1>6, <1>7, <1>8, <1>9, <1>10, <1>11, <1>12, <1>13,
     <1>14, <1>15, <1>16, <1>17, <1>18, <1>19, <1>20, <1>21, <1>22, <1>23
  DEF Next, cpu_thread, opcode_exec

LEMMA TypeInit == Init => TypeOK
<1> SUFFICES ASSUME Init PROVE TypeOK
  OBVIOUS
<1>1. IsMemory(mem)
  BY ImageAssumption DEF Init
<1>2. branch \in Word
  BY <1>1, ReadTypes, Vectors DEF Init
<1>3. sreg \in [ShortReg -> Byte]
  BY DEF Init, Cleared, Byte
<1>4. pc \in 0..(CPU_ADDR_RESERVED_START - 1)
  BY PcRange DEF Init
<1> QED BY <1>1, <1>2, <1>3, <1>4 DEF Init, TypeOK

\* Whatever the program, the hooks and the opcode table, the registers and the
\* memory cells keep the width of their C types, and the program counter never
\* reaches the reserved vectors.
THEOREM TypeCorrect == Spec => []TypeOK
BY TypeInit, TypeInductive, PTL DEF Spec

-----------------------------------------------------------------------------
(* What each flags_update_*() routine leaves alone.                         *)

Same(p, q, bits) == \A bit \in StatusBit \ bits : bit \in q <=> bit \in p

LEMMA FlagNumbers ==
  /\ FLAG_C = 0 /\ FLAG_Z = 1 /\ FLAG_V = 6 /\ FLAG_N = 7
  /\ FLAG_I = 2 /\ FLAG_D = 3
  /\ {FLAG_C, FLAG_Z, FLAG_V, FLAG_N, FLAG_I, FLAG_D} \subseteq StatusBit
BY DEF FLAG_C, FLAG_Z, FLAG_V, FLAG_N, FLAG_I, FLAG_D, StatusBit

LEMMA SetFlagSame ==
  \A p, flag, on : Same(p, SET_FLAG(p, flag, on), {flag})
BY DEF Same, SET_FLAG

LEMMA BasicSame ==
  \A p, v : Same(p, flags_update_basic_by_value(p, v), {FLAG_Z, FLAG_N})
BY DEF Same, SET_FLAG, flags_update_basic_by_value

LEMMA LogicSame ==
  \A p, v, w : Same(p, flags_update_logic_overflow(flags_update_basic_by_value(p, v), w),
                    {FLAG_Z, FLAG_N, FLAG_V})
BY DEF Same, SET_FLAG, flags_update_basic_by_value, flags_update_logic_overflow

LEMMA ShiftSame ==
  \A p, v, d, r :
    Same(p, flags_update_basic_by_value(flags_update_shrot_carry(p, v, d), r),
         {FLAG_Z, FLAG_N, FLAG_C})
BY DEF Same, SET_FLAG, flags_update_basic_by_value, flags_update_shrot_carry

LEMMA ArithSame ==
  \A p, a, v : /\ Same(p, AddFlags(p, a, v), {FLAG_Z, FLAG_N, FLAG_C, FLAG_V})
               /\ Same(p, SubFlags(p, a, v), {FLAG_Z, FLAG_N, FLAG_C, FLAG_V})
               /\ Same(p, CmpFlags(p, a, v), {FLAG_Z, FLAG_N, FLAG_C})
<1> TAKE p, a, v
<1>1. Same(p, CmpFlags(p, a, v), {FLAG_Z, FLAG_N, FLAG_C})
  BY DEF Same, SET_FLAG, CmpFlags, flags_update_basic_by_value, flags_update_arith_cmp_carry
<1>2. Same(p, AddFlags(p, a, v), {FLAG_Z, FLAG_N, FLAG_C, FLAG_V})
  BY DEF Same, SET_FLAG, AddFlags, flags_update_basic_by_value,
         flags_update_arith_adc_carry, flags_update_arith_overflow
<1>3. Same(p, SubFlags(p, a, v), {FLAG_Z, FLAG_N, FLAG_C, FLAG_V})
  BY DEF Same, SET_FLAG, SubFlags, flags_update_basic_by_value,
         flags_update_arith_sbc_carry, flags_update_arith_overflow
<1> QED BY <1>1, <1>2, <1>3

-----------------------------------------------------------------------------
(* The owners of the flags, as the primitives need them.                    *)

OwnsBasic(name) == name \in Owners(FLAG_Z) /\ name \in Owners(FLAG_N)

LEMMA BasicOwners ==
  \A name \in {"LDA", "LDX", "LDY", "TAX", "TAY", "TXA", "TYA", "TSX", "PLA", "AND", "BIT",
               "EOR", "ORA", "ADC", "SBC", "CMP", "CPX", "CPY", "INC", "DEC", "INX", "INY",
               "DEX", "DEY", "ASL", "LSR", "ROL", "ROR", "PLP"} : OwnsBasic(name)
BY FlagNumbers DEF OwnsBasic, Owners, Exec, StoreFrom, BranchOn, SetsFlag

LEMMA CarryOwners ==
  \A name \in {"ADC", "SBC", "CMP", "CPX", "CPY", "ASL", "LSR", "ROL", "ROR"} :
    name \in Owners(FLAG_C)
BY FlagNumbers DEF Owners, ShiftBy

LEMMA OverflowOwners == {"ADC", "SBC", "BIT"} \subseteq Owners(FLAG_V)
BY FlagNumbers DEF Owners

LEMMA PulledOwners == \A bit \in StatusBit : "PLP" \in Owners(bit)
BY FlagNumbers, BasicOwners DEF Owners, OwnsBasic

LEMMA SetOwners ==
  \A name \in DOMAIN SetsFlag :
    SetsFlag[name][1] \in StatusBit /\ name \in Owners(SetsFlag[name][1])
<1>1. /\ {"CLC", "SEC"} \subseteq Owners(FLAG_C) /\ {"CLD", "SED"} \subseteq Owners(FLAG_D)
      /\ {"CLI", "SEI"} \subseteq Owners(FLAG_I) /\ "CLV" \in Owners(FLAG_V)
  BY FlagNumbers DEF Owners
<1>2. {FLAG_C, FLAG_D, FLAG_I, FLAG_V} \subseteq StatusBit
  BY FlagNumbers
<1> QED BY <1>1, <1>2 DEF SetsFlag

-----------------------------------------------------------------------------
(* FlagsOwned: an instruction changes only the bits it owns.                *)

Owned(name) ==
  \A bit \in StatusBit : (bit \in flags) # (bit \in flags') => name \in Owners(bit)

FlagStep ==
  phase = "exec" => \E op \in Dispatched(Exec) : Owned(op.exec)

LEMMA DispatchedExec ==
  ASSUME TypeOK, NEW names, NEW op \in Dispatched(names)
  PROVE  op \in Dispatched(Exec)
<1>1. op.exec \in Exec
  BY DispatchTypes
<1> QED BY <1>1 DEF Dispatched

LEMMA OwnedStep ==
  ASSUME TypeOK, NEW names, NEW op \in Dispatched(names), Owned(op.exec)
  PROVE  FlagStep
BY DispatchedExec DEF FlagStep

LEMMA UnchangedOwned ==
  ASSUME TypeOK, NEW names, NEW op \in Dispatched(names), flags' = flags
  PROVE  FlagStep
<1>1. Owned(op.exec)
  BY DEF Owned
<1> QED BY <1>1, OwnedStep

LEMMA BasicOwned ==
  ASSUME NEW name, OwnsBasic(name), Same(flags, flags', {FLAG_Z, FLAG_N})
  PROVE  Owned(name)
BY DEF Same, Owned, OwnsBasic

LEMMA CarryOwned ==
  ASSUME NEW name, OwnsBasic(name), name \in Owners(FLAG_C),
         Same(flags, flags', {FLAG_Z, FLAG_N, FLAG_C})
  PROVE  Owned(name)
BY DEF Same, Owned, OwnsBasic

LEMMA ArithOwned ==
  ASSUME NEW name, OwnsBasic(name), name \in Owners(FLAG_C), name \in Owners(FLAG_V),
         Same(flags, flags', {FLAG_Z, FLAG_N, FLAG_C, FLAG_V})
  PROVE  Owned(name)
BY DEF Same, Owned, OwnsBasic

LEMMA RegisterOwned ==
  ASSUME NEW name, NEW r, NEW v, r # "CPU", r # "SP" => OwnsBasic(name), SetRegister(r, v)
  PROVE  Owned(name)
<1>1. CASE r = "SP"
  BY <1>1 DEF SetRegister, Owned
<1>2. CASE r # "SP"
  BY <1>2, BasicSame, BasicOwned DEF SetRegister
<1> QED BY <1>1, <1>2

\* BIT ands with nothing, so it finds no bit for the overflow flag.
LEMMA BitOfNothing ==
  \A v : 6 \notin BitsOf(And(0, v))
<1>1. BitsOf(0) = {}
  BY DEF BitsOf, Weight
<1>2. \A v : And(0, v) = 0
  BY <1>1 DEF And, ByteOf, Weight
<1> QED BY <1>1, <1>2

LEMMA FlagsInductive ==
  ASSUME TypeOK, Next
  PROVE  FlagStep
<1>0. SUFFICES ASSUME phase = "exec" PROVE FlagStep
  BY DEF FlagStep
<1>1. CASE asm_mem2reg
  <2>1. PICK op \in Dispatched(DOMAIN LoadInto) :
          \E a \in ADDR(mem, op.addr_mode) : \E v \in MEM_READ(mem, a) :
            SetRegister(LoadInto[op.exec], v)
    BY <1>1 DEF asm_mem2reg
  <2>2. op.exec \in {"LDA", "LDX", "LDY"}
    BY DispatchTypes DEF LoadInto
  <2>3. LoadInto[op.exec] # "CPU"
    BY <2>2 DEF LoadInto
  <2>4. OwnsBasic(op.exec)
    BY <2>2, BasicOwners
  <2> QED BY <2>1, <2>3, <2>4, RegisterOwned, OwnedStep
<1>2. CASE asm_reg2mem
  BY <1>2, UnchangedOwned DEF asm_reg2mem
<1>3. CASE asm_reg2reg
  <2>1. PICK op \in Dispatched(DOMAIN Transfer) :
          SetRegister(Transfer[op.exec][1], sreg[Transfer[op.exec][2]])
    BY <1>3 DEF asm_reg2reg
  <2>2. op.exec \in {"TAX", "TAY", "TXA", "TYA", "TSX", "TXS"}
    BY DispatchTypes DEF Transfer
  <2>3. Transfer[op.exec][1] # "CPU" /\ (Transfer[op.exec][1] # "SP" => op.exec # "TXS")
    BY <2>2 DEF Transfer
  <2>4. op.exec # "TXS" => OwnsBasic(op.exec)
    BY <2>2, BasicOwners
  <2> QED BY <2>1, <2>3, <2>4, RegisterOwned, OwnedStep
<1>4. CASE asm_reg2stack
  BY <1>4, UnchangedOwned DEF asm_reg2stack
<1>5. CASE asm_stack2reg
  <2>1. PICK op \in Dispatched(DOMAIN PullInto) :
          PullInto[op.exec] # "CPU" =>
            flags' = flags_update_basic_by_value(flags, STACK_POP(mem, sreg["SP"]))
    BY <1>5 DEF asm_stack2reg
  <2>2. op.exec \in {"PLA", "PLP"}
    BY DispatchTypes DEF PullInto
  <2>3. CASE op.exec = "PLA"
    <3>1. PullInto[op.exec] # "CPU"
      BY <2>3 DEF PullInto
    <3>2. OwnsBasic(op.exec)
      BY <2>3, BasicOwners
    <3> QED BY <2>1, <3>1, <3>2, BasicSame, BasicOwned, OwnedStep
  <2>4. CASE op.exec = "PLP"
    <3>1. Owned(op.exec)
      BY <2>4, PulledOwners DEF Owned
    <3> QED BY <3>1, OwnedStep
  <2> QED BY <2>2, <2>3, <2>4
<1>6. CASE asm_logic_and
  <2>1. PICK op \in Dispatched({"AND", "BIT"}) : \E v : \E w :
          \/ flags' = flags_update_basic_by_value(flags, v)
          \/ flags' = flags_update_logic_overflow(
                        flags_update_basic_by_value(flags, v), And(0, w))
    BY <1>6 DEF asm_logic_and
  <2>2. OwnsBasic(op.exec)
    BY DispatchTypes, BasicOwners
  <2>3. PICK v : flags' = flags_update_basic_by_value(flags, v)
    BY <2>1, BitOfNothing DEF flags_update_logic_overflow
  <2> QED BY <2>2, <2>3, BasicSame, BasicOwned, OwnedStep
<1>7. CASE asm_logic_eor_ora
  <2>1. PICK op \in Dispatched({"EOR", "ORA"}) :
          flags' = flags_update_basic_by_value(flags, sreg["ACC"])
    BY <1>7 DEF asm_logic_eor_ora
  <2>2. OwnsBasic(op.exec)
    BY DispatchTypes, BasicOwners
  <2> QED BY <2>1, <2>2, BasicSame, BasicOwned, OwnedStep
<1>8. CASE asm_arith_add
  <2>1. PICK op \in Dispatched({"ADC"}) : \E v : flags' = AddFlags(flags, sreg["ACC"], v)
    BY <1>8 DEF asm_arith_add
  <2>2. op.exec = "ADC"
    BY DispatchTypes
  <2>3. OwnsBasic(op.exec) /\ op.exec \in Owners(FLAG_C) /\ op.exec \in Owners(FLAG_V)
    BY <2>2, BasicOwners, CarryOwners, OverflowOwners
  <2> QED BY <2>1, <2>3, ArithSame, ArithOwned, OwnedStep
<1>9. CASE asm_arith_sub
  <2>1. PICK op \in Dispatched({"SBC"}) : \E v : flags' = SubFlags(flags, sreg["ACC"], v)
    BY <1>9 DEF asm_arith_sub
  <2>2. op.exec = "SBC"
    BY DispatchTypes
  <2>3. OwnsBasic(op.exec) /\ op.exec \in Owners(FLAG_C) /\ op.exec \in Owners(FLAG_V)
    BY <2>2, BasicOwners, CarryOwners, OverflowOwners
  <2> QED BY <2>1, <2>3, ArithSame, ArithOwned, OwnedStep
<1>10. CASE asm_arith_cmp
  <2>1. PICK op \in Dispatched(DOMAIN CompareWith) :
          \E a, v : flags' = CmpFlags(flags, a, v)
    BY <1>10 DEF asm_arith_cmp
  <2>2. op.exec \in {"CMP", "CPX", "CPY"}
    BY DispatchTypes DEF CompareWith
  <2>3. OwnsBasic(op.exec) /\ op.exec \in Owners(FLAG_C)
    BY <2>2, BasicOwners, CarryOwners
  <2> QED BY <2>1, <2>3, ArithSame, CarryOwned, OwnedStep
<1>11. CASE asm_inc_mem
  <2>1. PICK op \in Dispatched(DOMAIN StepMem) :
          \E v : flags' = flags_update_basic_by_value(flags, v)
    BY <1>11 DEF asm_inc_mem
  <2>2. op.exec \in {"INC", "DEC"}
    BY DispatchTypes DEF StepMem
  <2>3. OwnsBasic(op.exec)
    BY <2>2, BasicOwners
  <2> QED BY <2>1, <2>3, BasicSame, BasicOwned, OwnedStep
<1>12. CASE asm_inc_reg
  <2>1. PICK op \in Dispatched(DOMAIN StepReg) : \E v : SetRegister(StepReg[op.exec][1], v)
    BY <1>12 DEF asm_inc_reg
  <2>2. op.exec \in {"INX", "INY", "DEX", "DEY"}
    BY DispatchTypes DEF StepReg
  <2>3. StepReg[op.exec][1] # "CPU"
    BY <2>2 DEF StepReg
  <2>4. OwnsBasic(op.exec)
    BY <2>2, BasicOwners
  <2> QED BY <2>1, <2>3, <2>4, RegisterOwned, OwnedStep
<1>13. CASE asm_shrot
  <2>1. PICK op \in Dispatched(DOMAIN ShiftBy) :
          \E v, d, r : flags' = flags_update_basic_by_value(
                                  flags_update_shrot_carry(flags, v, d), r)
    BY <1>13 DEF asm_shrot
  <2>2. op.exec \in {"ASL", "LSR", "ROL", "ROR"}
    BY DispatchTypes DEF ShiftBy
  <2>3. OwnsBasic(op.exec) /\ op.exec \in Owners(FLAG_C)
    BY <2>2, BasicOwners, CarryOwners
  <2> QED BY <2>1, <2>3, ShiftSame, CarryOwned, OwnedStep
<1>14. CASE asm_mem2pc
  BY <1>14, UnchangedOwned DEF asm_mem2pc
<1>15. CASE asm_JSR
  BY <1>15, UnchangedOwned DEF asm_JSR
<1>16. CASE asm_RTS
  BY <1>16, UnchangedOwned DEF asm_RTS
<1>17. CASE asm_flag
  <2>1. PICK op \in Dispatched(DOMAIN SetsFlag) :
          flags' = SET_FLAG(flags, SetsFlag[op.exec][1], SetsFlag[op.exec][2])
    BY <1>17 DEF asm_flag
  <2>2. op.exec \in Owners(SetsFlag[op.exec][1])
    BY DispatchTypes, SetOwners
  <2>3. Owned(op.exec)
    BY <2>1, <2>2, SetFlagSame DEF Same, Owned
  <2> QED BY <2>3, OwnedStep
<1>18. CASE asm_break
  BY <1>18, UnchangedOwned DEF asm_break
<1>19. CASE asm_NOP
  BY <1>19, UnchangedOwned DEF asm_NOP
<1>20. ~opcode_fetch /\ ~step_callback /\ ~power_cycle
  BY <1>0 DEF opcode_fetch, step_callback, power_cycle
<1> QED
  BY <1>1, <1>2, <1>3, <1>4, <1>5, <1>6, <1>7, <1>8, <1>9, <1>10, <1>11, <1>12,
     <1>13, <1>14, <1>15, <1>16, <1>17, <1>18, <1>19, <1>20
  DEF Next, cpu_thread, opcode_exec

\* Between the instruction that sets a bit of the status register and the one
\* that tests it, only the instructions that own the bit change it.
THEOREM OnlyOwnersChangeFlags == Spec => FlagsOwned
<1>1. TypeOK /\ [Next]_vars => [FlagStep]_vars
  BY FlagsInductive
<1> QED BY <1>1, TypeCorrect, PTL DEF Spec, FlagsOwned, FlagStep, Owned

-----------------------------------------------------------------------------
(* Why no run can find the overflow flag set by arithmetic: the comparison  *)
(* of flags_update_arith_overflow() is between two equal numbers.           *)

LEMMA Int16Small ==
  ASSUME NEW n \in Int, -256 <= n, n <= 256
  PROVE  Int16(n) = n
<1> DEFINE m == n + 32768
<1>1. m \in Int /\ 0 <= m /\ m < 65536
  OBVIOUS
<1>2. m % 65536 = m
  BY <1>1
<1> QED BY <1>2 DEF Int16

LEMMA NoArithOverflow ==
  ASSUME NEW a \in Byte, NEW b \in Byte, NEW factor \in {1, -1}
  PROVE  ~ArithOverflow(a, b, factor)
<1> DEFINE p == Int8(b) * factor
<1>1. Int8(b) \in Int /\ -128 <= Int8(b) /\ Int8(b) <= 127
  BY DEF Int8, Byte
<1>2. p \in Int /\ -256 <= p /\ p <= 256
  <2>1. CASE factor = 1
    BY <1>1, <2>1
  <2>2. CASE factor = -1
    BY <1>1, <2>2
  <2> QED BY <2>1, <2>2
<1> HIDE DEF p
<1>3. Int16(p) = p
  BY <1>2, Int16Small
<1>4. ArithOverflow(a, b, factor) = (Int16(Int8(a) + p) # Int16(Int8(a) + p))
  BY <1>3 DEF ArithOverflow, p
<1> QED BY <1>4

LEMMA ArithClearsOverflow ==
  ASSUME NEW p, NEW a \in Byte, NEW v \in Byte
  PROVE  FLAG_V \notin AddFlags(p, a, v) /\ FLAG_V \notin SubFlags(p, a, v)
<1>1. \A q : FLAG_V \notin flags_update_arith_overflow(q, a, v, 1)
  BY NoArithOverflow DEF flags_update_arith_overflow, SET_FLAG
<1>2. \A q : FLAG_V \notin flags_update_arith_overflow(q, a, v, -1)
  BY NoArithOverflow DEF flags_update_arith_overflow, SET_FLAG
<1> QED BY <1>1, <1>2 DEF AddFlags, SubFlags

OverflowStep == Dispatched({"PLP"}) = {} => FLAG_V \notin flags' \ flags

LEMMA KeepsOverflow ==
  ASSUME NEW bits, FLAG_V \notin bits, Same(flags, flags', bits)
  PROVE  OverflowStep
BY FlagNumbers DEF Same, OverflowStep

LEMMA RegisterKeepsOverflow ==
  ASSUME NEW r, NEW v, r # "CPU", SetRegister(r, v)
  PROVE  OverflowStep
<1>1. FLAG_V \notin {FLAG_Z, FLAG_N}
  BY FlagNumbers
<1>2. CASE r = "SP"
  BY <1>2 DEF SetRegister, OverflowStep
<1>3. CASE r # "SP"
  BY <1>1, <1>3, BasicSame, KeepsOverflow DEF SetRegister
<1> QED BY <1>2, <1>3

LEMMA OverflowInductive ==
  ASSUME TypeOK, Next, flags' # flags
  PROVE  OverflowStep
<1>b. FLAG_V \notin {FLAG_Z, FLAG_N} /\ FLAG_V \notin {FLAG_Z, FLAG_N, FLAG_C}
  BY FlagNumbers
<1>1. CASE asm_mem2reg
  <2>1. PICK op \in Dispatched(DOMAIN LoadInto) :
          \E a \in ADDR(mem, op.addr_mode) : \E v \in MEM_READ(mem, a) :
            SetRegister(LoadInto[op.exec], v)
    BY <1>1 DEF asm_mem2reg
  <2>2. op.exec \in {"LDA", "LDX", "LDY"}
    BY DispatchTypes DEF LoadInto
  <2>3. LoadInto[op.exec] # "CPU"
    BY <2>2 DEF LoadInto
  <2> QED BY <2>1, <2>3, RegisterKeepsOverflow
<1>2. CASE asm_reg2reg
  <2>1. PICK op \in Dispatched(DOMAIN Transfer) :
          SetRegister(Transfer[op.exec][1], sreg[Transfer[op.exec][2]])
    BY <1>2 DEF asm_reg2reg
  <2>2. op.exec \in {"TAX", "TAY", "TXA", "TYA", "TSX", "TXS"}
    BY DispatchTypes DEF Transfer
  <2>3. Transfer[op.exec][1] # "CPU"
    BY <2>2 DEF Transfer
  <2> QED BY <2>1, <2>3, RegisterKeepsOverflow
<1>3. CASE asm_stack2reg
  <2>1. PICK op \in Dispatched(DOMAIN PullInto) :
          PullInto[op.exec] # "CPU" =>
            flags' = flags_update_basic_by_value(flags, STACK_POP(mem, sreg["SP"]))
    BY <1>3 DEF asm_stack2reg
  <2>2. op.exec \in {"PLA", "PLP"}
    BY DispatchTypes DEF PullInto
  <2>3. CASE op.exec = "PLA"
    <3>1. PullInto[op.exec] # "CPU"
      BY <2>3 DEF PullInto
    <3> QED BY <2>1, <3>1, BasicSame, <1>b, KeepsOverflow
  <2>4. CASE op.exec = "PLP"
    <3>1. op \in Dispatched({"PLP"})
      BY <2>4 DEF Dispatched
    <3> QED BY <3>1 DEF OverflowStep
  <2> QED BY <2>2, <2>3, <2>4
<1>4. CASE asm_logic_and
  <2>1. PICK v : \/ flags' = flags_update_basic_by_value(flags, v)
                \/ \E w : flags' = flags_update_logic_overflow(
                                      flags_update_basic_by_value(flags, v), And(0, w))
    BY <1>4 DEF asm_logic_and
  <2>2. flags' = flags_update_basic_by_value(flags, v)
    BY <2>1, BitOfNothing DEF flags_update_logic_overflow
  <2> QED BY <2>2, BasicSame, <1>b, KeepsOverflow
<1>5. CASE asm_logic_eor_ora
  BY <1>5, BasicSame, <1>b, KeepsOverflow DEF asm_logic_eor_ora
<1>6. CASE asm_arith_add
  <2>1. PICK op \in Dispatched({"ADC"}) : \E v \in ADDR_MODE_GET_VALUE(op.addr_mode) :
          flags' = AddFlags(flags, sreg["ACC"], v)
    BY <1>6 DEF asm_arith_add
  <2>2. FLAG_V \notin flags'
    BY <2>1, DispatchTypes, RegisterValues, ArithClearsOverflow
  <2> QED BY <2>2 DEF OverflowStep
<1>7. CASE asm_arith_sub
  <2>1. PICK op \in Dispatched({"SBC"}) : \E v \in ADDR_MODE_GET_VALUE(op.addr_mode) :
          flags' = SubFlags(flags, sreg["ACC"], v)
    BY <1>7 DEF asm_arith_sub
  <2>2. FLAG_V \notin flags'
    BY <2>1, DispatchTypes, RegisterValues, ArithClearsOverflow
  <2> QED BY <2>2 DEF OverflowStep
<1>8. CASE asm_arith_cmp
  <2>1. PICK a, v : flags' = CmpFlags(flags, a, v)
    BY <1>8 DEF asm_arith_cmp
  <2> QED BY <2>1, ArithSame, <1>b, KeepsOverflow
<1>9. CASE asm_inc_mem
  <2>1. PICK v : flags' = flags_update_basic_by_value(flags, v)
    BY <1>9 DEF asm_inc_mem
  <2> QED BY <2>1, BasicSame, <1>b, KeepsOverflow
<1>10. CASE asm_inc_reg
  <2>1. PICK op \in Dispatched(DOMAIN StepReg) : \E v : SetRegister(StepReg[op.exec][1], v)
    BY <1>10 DEF asm_inc_reg
  <2>2. op.exec \in {"INX", "INY", "DEX", "DEY"}
    BY DispatchTypes DEF StepReg
  <2>3. StepReg[op.exec][1] # "CPU"
    BY <2>2 DEF StepReg
  <2> QED BY <2>1, <2>3, RegisterKeepsOverflow
<1>11. CASE asm_shrot
  <2>1. PICK v, d, r : flags' = flags_update_basic_by_value(
                                  flags_update_shrot_carry(flags, v, d), r)
    BY <1>11 DEF asm_shrot
  <2> QED BY <2>1, ShiftSame, <1>b, KeepsOverflow
<1>12. CASE asm_flag
  <2>1. PICK op \in Dispatched(DOMAIN SetsFlag) :
          flags' = SET_FLAG(flags, SetsFlag[op.exec][1], SetsFlag[op.exec][2])
    BY <1>12 DEF asm_flag
  <2>2. op.exec \in {"CLC", "SEC", "CLD", "SED", "CLI", "SEI", "CLV"}
    BY DispatchTypes DEF SetsFlag
  <2>3. SetsFlag[op.exec][1] # FLAG_V \/ ~SetsFlag[op.exec][2]
    <3>1. op.exec # "CLV" => SetsFlag[op.exec][1] \in {FLAG_C, FLAG_D, FLAG_I}
      BY <2>2 DEF SetsFlag
    <3>2. op.exec = "CLV" => ~SetsFlag[op.exec][2]
      BY DEF SetsFlag
    <3>3. FLAG_V \notin {FLAG_C, FLAG_D, FLAG_I}
      BY FlagNumbers
    <3> QED BY <3>1, <3>2, <3>3
  <2> QED BY <2>1, <2>3 DEF SET_FLAG, OverflowStep
<1>13. CASE power_cycle
  BY <1>13 DEF power_cycle, OverflowStep
<1>14. /\ ~opcode_fetch /\ ~step_callback /\ ~asm_reg2mem /\ ~asm_reg2stack
       /\ ~asm_mem2pc /\ ~asm_JSR /\ ~asm_RTS /\ ~asm_break /\ ~asm_NOP
  BY DEF opcode_fetch, step_callback, asm_reg2mem, asm_reg2stack, asm_mem2pc, asm_JSR,
         asm_RTS, asm_break, asm_NOP
<1> QED
  BY <1>1, <1>2, <1>3, <1>4, <1>5, <1>6, <1>7, <1>8, <1>9, <1>10, <1>11, <1>12,
     <1>13, <1>14
  DEF Next, cpu_thread, opcode_exec

\* What refutes OverflowDetected refutes it for every operand, for SBC and for BIT
\* too: whatever a program adds, subtracts or tests with BIT, the overflow flag of
\* this core (flags_update_arith_overflow(), asm_logic_and()) never rises but by PLP.
OverflowOnlyFromPLP ==
  [][Dispatched({"PLP"}) = {} => FLAG_V \notin flags' \ flags]_flags

THEOREM OverflowNeverDetected == Spec => OverflowOnlyFromPLP
<1>1. TypeOK /\ [Next]_vars => [OverflowStep]_flags
  BY OverflowInductive DEF vars
<1> QED BY <1>1, TypeCorrect, PTL DEF Spec, OverflowOnlyFromPLP, OverflowStep

-----------------------------------------------------------------------------
(* Memory behind hooks, on a machine whose hooks stay clear of the stack   *)
(* page: the core accesses that one without asking them.                   *)

StackPage == 256..511

-----------------------------------------------------------------------------
(* HookedCellsFiltered.                                                     *)

\* No write hook is on the stack page, and the images are loaded through the
\* write hooks, as sfot_load() does.
WriteHooksOffStack == \A a \in DOMAIN WriteHook : a \notin StackPage
ImagesFiltered     == \A M \in Images : FilteredCells(M)

LEMMA StoreFiltered ==
  ASSUME NEW M, FilteredCells(M), NEW a, NEW v,
         a \in DOMAIN WriteHook => \E w \in Byte : v = WriteHook[a][w]
  PROVE  FilteredCells(Store(M, a, v))
<1> SUFFICES ASSUME NEW b \in DOMAIN WriteHook, Cell(Store(M, a, v), b) # 0
             PROVE  \E w \in Byte : Cell(Store(M, a, v), b) = WriteHook[b][w]
  BY DEF FilteredCells
<1>1. CASE b = a
  BY <1>1 DEF Store, Cell
<1>2. CASE b # a
  BY <1>2 DEF Store, Cell, FilteredCells
<1> QED BY <1>1, <1>2

LEMMA WriteFiltered ==
  ASSUME NEW M, FilteredCells(M), NEW a, NEW v \in Byte
  PROVE  FilteredCells(MEM_WRITE(M, a, v))
BY StoreFiltered DEF MEM_WRITE, Filtered

LEMMA IncFiltered ==
  ASSUME NEW M, IsMemory(M), FilteredCells(M), NEW a \in Word, NEW n \in Int
  PROVE  FilteredCells(MEM_INC(M, a, n))
<1> DEFINE t == Translate(a)
           v == Wrap8(Cell(M, t) + n)
<1>1. Cell(M, t) \in Byte
  BY TranslateType DEF IsMemory, Cell, Byte
<1>2. Cell(M, t) + n \in Int
  BY <1>1 DEF Byte
<1>3. v \in Byte
  BY <1>2, WrapTypes
<1> QED BY <1>3, StoreFiltered DEF MEM_INC, Filtered

LEMMA StackAddrInPage ==
  ASSUME NEW s \in Byte
  PROVE  StackAddr(s) \in StackPage
BY DEF StackAddr, STACK_PAGE, StackPage, Byte

LEMMA PushFiltered ==
  ASSUME WriteHooksOffStack, NEW M, FilteredCells(M), NEW s \in Byte, NEW v
  PROVE  FilteredCells(STACK_PUSH(M, s, v))
BY StackAddrInPage, StoreFiltered DEF STACK_PUSH, WriteHooksOffStack

LEMMA Push16Filtered ==
  ASSUME WriteHooksOffStack, NEW M, FilteredCells(M), NEW s \in Byte, NEW v
  PROVE  FilteredCells(STACK_PUSH16(M, s, v))
<1>1. s - 1 \in Int
  BY DEF Byte
<1>2. Wrap8(s - 1) \in Byte
  BY <1>1, WrapTypes
<1> QED BY <1>2, PushFiltered DEF STACK_PUSH16

LEMMA FilterInductive ==
  ASSUME WriteHooksOffStack, ImagesFiltered, TypeOK, HookedCellsFiltered, [Next]_vars
  PROVE  HookedCellsFiltered'
<1> USE DEF HookedCellsFiltered
<1>1. CASE mem' = mem
  BY <1>1 DEF FilteredCells, Cell
<1>2. CASE asm_reg2mem
  <2>1. PICK op \in Dispatched(DOMAIN StoreFrom) : \E a \in ADDR(mem, op.addr_mode) :
          mem' = MEM_WRITE(mem, a, sreg[StoreFrom[op.exec]])
    BY <1>2 DEF asm_reg2mem
  <2>2. op.exec \in {"STA", "STX", "STY"}
    BY DispatchTypes DEF StoreFrom
  <2>3. StoreFrom[op.exec] \in {"ACC", "X", "Y"}
    BY <2>2 DEF StoreFrom
  <2>4. sreg[StoreFrom[op.exec]] \in Byte
    BY <2>3, RegisterValues
  <2> QED BY <2>1, <2>4, WriteFiltered
<1>3. CASE asm_reg2stack
  <2>1. PICK v : mem' = STACK_PUSH(mem, sreg["SP"], v)
    BY <1>3 DEF asm_reg2stack
  <2> QED BY <2>1, RegisterValues, PushFiltered
<1>4. CASE asm_inc_mem
  <2>1. PICK op \in Dispatched(DOMAIN StepMem) : \E a \in ADDR(mem, op.addr_mode) :
          mem' = MEM_INC(mem, a, StepMem[op.exec])
    BY <1>4 DEF asm_inc_mem
  <2>2. op.exec \in {"INC", "DEC"}
    BY DispatchTypes DEF StepMem
  <2>3. StepMem[op.exec] \in Int
    BY <2>2 DEF StepMem
  <2>4. IsMemory(mem) /\ ADDR(mem, op.addr_mode) \subseteq Word
    BY DispatchTypes DEF TypeOK
  <2> QED BY <2>1, <2>3, <2>4, IncFiltered
<1>5. CASE asm_shrot
  <2>1. PICK op \in Dispatched(DOMAIN ShiftBy) : \E fill \in {0, GET_FLAG(flags, FLAG_C)} :
          \/ \E a \in ADDR(mem, op.addr_mode) : \E v \in MEM_READ(mem, a) :
               mem' = MEM_WRITE(mem, a, ShiftResult(v, ShiftBy[op.exec], fill))
          \/ mem' = mem
    BY <1>5 DEF asm_shrot
  <2>2. PICK fill \in {0, GET_FLAG(flags, FLAG_C)} :
          \/ \E a \in ADDR(mem, op.addr_mode) : \E v \in MEM_READ(mem, a) :
               mem' = MEM_WRITE(mem, a, ShiftResult(v, ShiftBy[op.exec], fill))
          \/ mem' = mem
    BY <2>1
  <2>3. fill \in {0, 1}
    BY DEF GET_FLAG
  <2>4. CASE mem' # mem
    <3>1. PICK a \in ADDR(mem, op.addr_mode) : \E v \in MEM_READ(mem, a) :
            mem' = MEM_WRITE(mem, a, ShiftResult(v, ShiftBy[op.exec], fill))
      BY <2>2, <2>4
    <3>2. PICK v \in MEM_READ(mem, a) :
            mem' = MEM_WRITE(mem, a, ShiftResult(v, ShiftBy[op.exec], fill))
      BY <3>1
    <3>3. v \in Byte
      BY DispatchTypes, ReadTypes DEF TypeOK
    <3>4. ShiftResult(v, ShiftBy[op.exec], fill) \in Byte
      BY <2>3, <3>3, ResultTypes
    <3> QED BY <3>2, <3>4, WriteFiltered
  <2> QED BY <1>1, <2>4
<1>6. CASE asm_JSR
  <2>1. mem' = STACK_PUSH16(mem, sreg["SP"], pc + 2)
    BY <1>6 DEF asm_JSR
  <2> QED BY <2>1, RegisterValues, Push16Filtered
<1>7. CASE power_cycle
  BY <1>7 DEF power_cycle, ImagesFiltered
<1>8. Next /\ ~asm_reg2mem /\ ~asm_reg2stack /\ ~asm_inc_mem /\ ~asm_shrot /\ ~asm_JSR
        /\ ~power_cycle => mem' = mem
  BY DEF Next, cpu_thread, opcode_exec, opcode_fetch, step_callback, asm_mem2reg,
         asm_reg2reg, asm_stack2reg, asm_logic_and, asm_logic_eor_ora, asm_arith_add,
         asm_arith_sub, asm_arith_cmp, asm_inc_reg, asm_mem2pc, asm_RTS, asm_flag,
         asm_break, asm_NOP
<1> QED BY <1>1, <1>2, <1>3, <1>4, <1>5, <1>6, <1>7, <1>8 DEF vars

\* On such a machine, loaded with images that have been through its write hooks, no
\* program gets a value past one.
THEOREM WriteHooksFilter ==
  ASSUME WriteHooksOffStack, ImagesFiltered
  PROVE  Spec => []HookedCellsFiltered
<1>1. Init => HookedCellsFiltered
  BY DEF Init, ImagesFiltered, HookedCellsFiltered
<1>2. TypeOK /\ HookedCellsFiltered /\ [Next]_vars => HookedCellsFiltered'
  BY FilterInductive
<1> QED BY <1>1, <1>2, TypeCorrect, PTL DEF Spec

-----------------------------------------------------------------------------
(* TranslatedCellsUntouched.                                                *)

\* The stack page is not translated away.
StackInPlace == \A a \in TranslatedAway : a \notin StackPage

UntouchedStep == \A a \in TranslatedAway : Cell(mem', a) = Cell(mem, a)

LEMMA StoreUntouched ==
  ASSUME NEW M, NEW a, NEW v, NEW b, b # a
  PROVE  Cell(Store(M, a, v), b) = Cell(M, b)
BY DEF Store, Cell

LEMMA TranslatedUntouched ==
  ASSUME NEW a, NEW v, mem' = Store(mem, Translate(a), v)
  PROVE  UntouchedStep
<1>1. \A b \in TranslatedAway : Translate(a) # b
  BY DEF TranslatedAway, Translate
<1> QED BY <1>1, StoreUntouched DEF UntouchedStep

LEMMA PushUntouched ==
  ASSUME StackInPlace, NEW M, NEW s \in Byte, NEW v, NEW b \in TranslatedAway
  PROVE  Cell(STACK_PUSH(M, s, v), b) = Cell(M, b)
<1>1. StackAddr(s) # b
  BY StackAddrInPage DEF StackInPlace
<1> QED BY <1>1, StoreUntouched DEF STACK_PUSH

LEMMA Push16Untouched ==
  ASSUME StackInPlace, NEW s \in Byte, NEW v, NEW b \in TranslatedAway
  PROVE  Cell(STACK_PUSH16(mem, s, v), b) = Cell(mem, b)
<1>1. s - 1 \in Int
  BY DEF Byte
<1>2. Wrap8(s - 1) \in Byte
  BY <1>1, WrapTypes
<1> QED BY <1>2, PushUntouched DEF STACK_PUSH16

LEMMA UntouchedInductive ==
  ASSUME StackInPlace, TypeOK, cpu_thread
  PROVE  UntouchedStep
<1>1. CASE mem' = mem
  BY <1>1 DEF UntouchedStep
<1>2. CASE asm_reg2mem
  BY <1>2, TranslatedUntouched DEF asm_reg2mem, MEM_WRITE
<1>3. CASE asm_reg2stack
  <2>1. PICK v : mem' = STACK_PUSH(mem, sreg["SP"], v)
    BY <1>3 DEF asm_reg2stack
  <2> QED BY <2>1, RegisterValues, PushUntouched DEF UntouchedStep
<1>4. CASE asm_inc_mem
  BY <1>4, TranslatedUntouched DEF asm_inc_mem, MEM_INC
<1>5. CASE asm_shrot
  <2>1. mem' = mem \/ \E a, v : mem' = MEM_WRITE(mem, a, v)
    BY <1>5 DEF asm_shrot
  <2> QED BY <1>1, <2>1, TranslatedUntouched DEF MEM_WRITE
<1>6. CASE asm_JSR
  <2>1. mem' = STACK_PUSH16(mem, sreg["SP"], pc + 2)
    BY <1>6 DEF asm_JSR
  <2> QED BY <2>1, RegisterValues, Push16Untouched DEF UntouchedStep
<1>7. ~asm_reg2mem /\ ~asm_reg2stack /\ ~asm_inc_mem /\ ~asm_shrot /\ ~asm_JSR => mem' = mem
  BY DEF cpu_thread, opcode_exec, opcode_fetch, step_callback, asm_mem2reg,
         asm_reg2reg, asm_stack2reg, asm_logic_and, asm_logic_eor_ora, asm_arith_add,
         asm_arith_sub, asm_arith_cmp, asm_inc_reg, asm_mem2pc, asm_RTS, asm_flag,
         asm_break, asm_NOP
<1> QED BY <1>1, <1>2, <1>3, <1>4, <1>5, <1>6, <1>7

\* On such a machine, no program changes memory that is translated away,
\* until the machine is powered off.
THEOREM TranslatedCellsKept ==
  ASSUME StackInPlace
  PROVE  RunSpec => TranslatedCellsUntouched
<1>1. TypeOK /\ [cpu_thread]_vars => TypeOK'
  BY TypeInductive DEF Next
<1>2. TypeOK /\ [cpu_thread]_vars => [UntouchedStep]_mem
  BY UntouchedInductive DEF vars
<1> QED BY <1>1, <1>2, TypeInit, PTL DEF RunSpec, TranslatedCellsUntouched, UntouchedStep

-----------------------------------------------------------------------------
(* Arithmetic wider than a byte.                                            *)

Carry(p) == GET_FLAG(p, FLAG_C)

\* What N and Z, and V, do to C.
LEMMA CarryStays ==
  /\ \A q, r : FLAG_C \in flags_update_basic_by_value(q, r) <=> FLAG_C \in q
  /\ \A q, a, v, f : FLAG_C \in flags_update_arith_overflow(q, a, v, f) <=> FLAG_C \in q
<1>1. \A q, r : FLAG_C \in flags_update_basic_by_value(q, r) <=> FLAG_C \in q
  BY DEF flags_update_basic_by_value, SET_FLAG, FLAG_C, FLAG_Z, FLAG_N
<1>2. \A q, a, v, f : FLAG_C \in flags_update_arith_overflow(q, a, v, f) <=> FLAG_C \in q
  BY DEF flags_update_arith_overflow, SET_FLAG, FLAG_C, FLAG_V
<1> QED BY <1>1, <1>2

LEMMA AddExact ==
  ASSUME NEW p, NEW a \in Byte, NEW v \in Byte
  PROVE  /\ AddResult(p, a, v) + 256 * Carry(AddFlags(p, a, v)) = a + v + Carry(p)
         /\ AddResult(p, a, v) \in 0..255
<1>1. AddResult(p, a, v) = (a + v + Carry(p)) % 256 /\ Carry(p) \in {0, 1}
  BY DEF AddResult, Wrap8, Carry, GET_FLAG
<1>2. FLAG_C \in AddFlags(p, a, v) <=> a + v + Carry(p) > 255
  <2>1. GET_FLAG(flags_update_basic_by_value(p, AddResult(p, a, v)), FLAG_C) = Carry(p)
    BY CarryStays DEF GET_FLAG, Carry
  <2> QED BY <2>1, CarryStays DEF AddFlags, flags_update_arith_adc_carry, SET_FLAG
<1> DEFINE s == a + v + Carry(p)
<1>3. Carry(AddFlags(p, a, v)) = IF s > 255 THEN 1 ELSE 0
  BY <1>2 DEF Carry, GET_FLAG
<1>4. s \in Int /\ 0 <= s /\ s < 512
  BY <1>1 DEF Byte
<1>5. AddResult(p, a, v) = s % 256
  BY <1>1
<1> HIDE DEF s
<1>6. (s % 256) + 256 * (IF s > 255 THEN 1 ELSE 0) = s /\ s % 256 \in 0..255
  BY <1>4
<1> QED BY <1>3, <1>5, <1>6 DEF s

LEMMA SubExact ==
  ASSUME NEW p, NEW a \in Byte, NEW v \in Byte
  PROVE  /\ SubResult(p, a, v) - 256 * (1 - Carry(SubFlags(p, a, v))) = a - v - (1 - Carry(p))
         /\ SubResult(p, a, v) \in 0..255
<1>1. SubResult(p, a, v) = (a - v - (1 - Carry(p))) % 256 /\ Carry(p) \in {0, 1}
  BY DEF SubResult, Wrap8, Carry, GET_FLAG
<1>2. FLAG_C \in SubFlags(p, a, v) <=> ~(a - v - (1 - Carry(p)) < 0)
  <2>1. GET_FLAG(flags_update_basic_by_value(p, SubResult(p, a, v)), FLAG_C) = Carry(p)
    BY CarryStays DEF GET_FLAG, Carry
  <2> QED BY <2>1, CarryStays DEF SubFlags, flags_update_arith_sbc_carry, SET_FLAG
<1> DEFINE s == a - v - (1 - Carry(p))
<1>3. Carry(SubFlags(p, a, v)) = IF s < 0 THEN 0 ELSE 1
  BY <1>2 DEF Carry, GET_FLAG
<1>4. s \in Int /\ -256 <= s /\ s < 256
  BY <1>1 DEF Byte
<1>5. SubResult(p, a, v) = s % 256
  BY <1>1
<1> HIDE DEF s
<1>6. (s % 256) - 256 * (1 - (IF s < 0 THEN 0 ELSE 1)) = s /\ s % 256 \in 0..255
  BY <1>4
<1> QED BY <1>3, <1>5, <1>6 DEF s

LEMMA CmpExact ==
  ASSUME NEW p, NEW a, NEW v
  PROVE  Carry(CmpFlags(p, a, v)) = 1 <=> a >= v
BY DEF CmpFlags, flags_update_arith_cmp_carry, SET_FLAG, Carry, GET_FLAG

\* The status that asm_shrot() leaves, for a result r.
ShiftFlags(p, v, direction, r) ==
  flags_update_basic_by_value(flags_update_shrot_carry(p, v, direction), r)

LEMMA ShiftExact ==
  ASSUME NEW p, NEW v \in Byte, NEW r, NEW fill \in {0, 1}
  PROVE  /\ ShiftResult(v, 1, fill) + 256 * Carry(ShiftFlags(p, v, 1, r)) = 2 * v + fill
         /\ 2 * ShiftResult(v, -1, fill) + Carry(ShiftFlags(p, v, -1, r)) = v + 256 * fill
<1>1. /\ FLAG_C \in ShiftFlags(p, v, 1, r) <=> v >= 128
      /\ FLAG_C \in ShiftFlags(p, v, -1, r) <=> v % 2 = 1
  BY CarryStays DEF ShiftFlags, flags_update_shrot_carry, SET_FLAG
<1>2. /\ Carry(ShiftFlags(p, v, 1, r)) = IF v >= 128 THEN 1 ELSE 0
      /\ Carry(ShiftFlags(p, v, -1, r)) = IF v % 2 = 1 THEN 1 ELSE 0
  BY <1>1 DEF Carry, GET_FLAG
<1>3. ShiftResult(v, 1, fill) = ((2 * v) % 256) + fill
  BY DEF ShiftResult, Wrap8
<1>4. ShiftResult(v, -1, fill) = (v \div 2) + 128 * fill
  BY DEF ShiftResult
<1>5. ShiftResult(v, 1, fill) + 256 * Carry(ShiftFlags(p, v, 1, r)) = 2 * v + fill
  BY <1>2, <1>3 DEF Byte
<1>6. 2 * ShiftResult(v, -1, fill) + Carry(ShiftFlags(p, v, -1, r)) = v + 256 * fill
  <2>1. v \in Int /\ v = 2 * (v \div 2) + (v % 2) /\ v % 2 \in {0, 1} /\ v \div 2 \in Int
    BY DEF Byte
  <2>2. Carry(ShiftFlags(p, v, -1, r)) = v % 2
    BY <1>2, <2>1
  <2> QED BY <1>4, <2>1, <2>2
<1> QED BY <1>5, <1>6

\* A result and the carry it leaves are together the exact sum, difference or
\* shift of the operands and the carry that came in: no bit is lost.
THEOREM CarriesAreExact ==
  ASSUME NEW p, NEW a \in Byte, NEW v \in Byte, NEW r, NEW fill \in {0, 1}
  PROVE  /\ AddResult(p, a, v) + 256 * Carry(AddFlags(p, a, v)) = a + v + Carry(p)
         /\ SubResult(p, a, v) - 256 * (1 - Carry(SubFlags(p, a, v))) = a - v - (1 - Carry(p))
         /\ Carry(CmpFlags(p, a, v)) = 1 <=> a >= v
         /\ ShiftResult(v, 1, fill) + 256 * Carry(ShiftFlags(p, v, 1, r)) = 2 * v + fill
         /\ 2 * ShiftResult(v, -1, fill) + Carry(ShiftFlags(p, v, -1, r)) = v + 256 * fill
<1>1. AddResult(p, a, v) + 256 * Carry(AddFlags(p, a, v)) = a + v + Carry(p)
  BY AddExact
<1>2. SubResult(p, a, v) - 256 * (1 - Carry(SubFlags(p, a, v))) = a - v - (1 - Carry(p))
  BY SubExact
<1>3. Carry(CmpFlags(p, a, v)) = 1 <=> a >= v
  BY CmpExact
<1>4. /\ ShiftResult(v, 1, fill) + 256 * Carry(ShiftFlags(p, v, 1, r)) = 2 * v + fill
      /\ 2 * ShiftResult(v, -1, fill) + Carry(ShiftFlags(p, v, -1, r)) = v + 256 * fill
  BY ShiftExact
<1> QED BY <1>1, <1>2, <1>3, <1>4

Low(x)  == x % 256
High(x) == x \div 256

LEMMA HighLow ==
  ASSUME NEW x \in Word
  PROVE  /\ Low(x) \in Byte /\ High(x) \in Byte /\ Low(x) \in 0..255 /\ High(x) \in 0..255
         /\ x = 256 * High(x) + Low(x)
<1>1. x \in Int /\ 0 <= x /\ x < 256 * 256
  BY WordRange
<1>2. x % 256 \in 0..255 /\ x \div 256 \in 0..255
  BY <1>1
<1>3. x = 256 * (x \div 256) + (x % 256)
  BY <1>1
<1> QED BY <1>2, <1>3 DEF Low, High, Byte

LEMMA WrapUnique ==
  ASSUME NEW n \in Int, NEW r \in Int, 0 <= r, r < 65536,
         n = r \/ n = r + 65536 \/ n = r - 65536
  PROVE  Wrap16(n) = r
BY DEF Wrap16

\* Two bytes at a time: programs add, subtract and compare words by
\* instructions that hand the carry on.  Whatever status q the second of them
\* finds, as long as it is in C that of the first, the pair of results is the
\* result for the words, modulo 2^16.
THEOREM WordsAreExact ==
  ASSUME NEW x \in Word, NEW y \in Word, NEW p, NEW q
  PROVE  /\ Carry(p) = 0 /\ Carry(q) = Carry(AddFlags(p, Low(x), Low(y))) =>
              Wrap16(x + y) = 256 * AddResult(q, High(x), High(y)) + AddResult(p, Low(x), Low(y))
         /\ Carry(p) = 1 /\ Carry(q) = Carry(SubFlags(p, Low(x), Low(y))) =>
              Wrap16(x - y) = 256 * SubResult(q, High(x), High(y)) + SubResult(p, Low(x), Low(y))
         /\ Carry(q) = Carry(CmpFlags(p, Low(x), Low(y))) =>
              (Carry(SubFlags(q, High(x), High(y))) = 1 <=> x >= y)
<1> DEFINE a == Low(x)  b == High(x)  c == Low(y)  d == High(y)
<1>1. a \in 0..255 /\ b \in 0..255 /\ c \in 0..255 /\ d \in 0..255
  BY HighLow
<1>2. x = 256 * b + a /\ y = 256 * d + c
  BY HighLow
<1>3. a \in Byte /\ b \in Byte /\ c \in Byte /\ d \in Byte
  BY HighLow
<1>4. \A s : Carry(s) = 0 \/ Carry(s) = 1
  BY DEF Carry, GET_FLAG
<1> HIDE DEF a, b, c, d
<1>5. ASSUME Carry(p) = 0, Carry(q) = Carry(AddFlags(p, a, c))
      PROVE  Wrap16(x + y) = 256 * AddResult(q, b, d) + AddResult(p, a, c)
  <2> DEFINE lo == AddResult(p, a, c)  hi == AddResult(q, b, d)
             j == Carry(q)  k == Carry(AddFlags(q, b, d))  r == 256 * hi + lo
  <2>1. lo \in 0..255 /\ hi \in 0..255
    BY <1>3, AddExact
  <2>2. lo + 256 * j = a + c + 0 /\ hi + 256 * k = b + d + j
    BY <1>3, <1>5, AddExact
  <2>3. (j = 0 \/ j = 1) /\ (k = 0 \/ k = 1)
    BY <1>4
  <2> HIDE DEF lo, hi, j, k
  <2>4. r \in Int /\ 0 <= r /\ r < 65536
    BY <2>1
  <2>5. /\ lo \in Int /\ hi \in Int /\ j \in Int /\ k \in Int
        /\ a \in Int /\ b \in Int /\ c \in Int /\ d \in Int
    BY <1>1, <2>1, <2>3
  <2>6. x + y = r + 65536 * k /\ x + y \in Int
    BY <1>2, <2>2, <2>5
  <2> HIDE DEF r
  <2>7. x + y = r \/ x + y = r + 65536 \/ x + y = r - 65536
    BY <2>3, <2>4, <2>6
  <2>8. Wrap16(x + y) = r
    BY <2>4, <2>6, <2>7, WrapUnique
  <2> QED BY <2>8 DEF r, lo, hi
<1>6. ASSUME Carry(p) = 1, Carry(q) = Carry(SubFlags(p, a, c))
      PROVE  Wrap16(x - y) = 256 * SubResult(q, b, d) + SubResult(p, a, c)
  <2> DEFINE lo == SubResult(p, a, c)  hi == SubResult(q, b, d)
             j == Carry(q)  k == Carry(SubFlags(q, b, d))  r == 256 * hi + lo
  <2>1. lo \in 0..255 /\ hi \in 0..255
    BY <1>3, SubExact
  <2>2. lo - 256 * (1 - j) = a - c - (1 - 1) /\ hi - 256 * (1 - k) = b - d - (1 - j)
    BY <1>3, <1>6, SubExact
  <2>3. (j = 0 \/ j = 1) /\ (k = 0 \/ k = 1)
    BY <1>4
  <2> HIDE DEF lo, hi, j, k
  <2>4. r \in Int /\ 0 <= r /\ r < 65536
    BY <2>1
  <2>5. /\ lo \in Int /\ hi \in Int /\ j \in Int /\ k \in Int
        /\ a \in Int /\ b \in Int /\ c \in Int /\ d \in Int
    BY <1>1, <2>1, <2>3
  <2>6. x - y = r - 65536 * (1 - k) /\ x - y \in Int
    BY <1>2, <2>2, <2>5
  <2> HIDE DEF r
  <2>7. x - y = r \/ x - y = r + 65536 \/ x - y = r - 65536
    BY <2>3, <2>4, <2>6
  <2>8. Wrap16(x - y) = r
    BY <2>4, <2>6, <2>7, WrapUnique
  <2> QED BY <2>8 DEF r, lo, hi
<1>7. ASSUME Carry(q) = Carry(CmpFlags(p, a, c))
      PROVE  Carry(SubFlags(q, b, d)) = 1 <=> x >= y
  <2> DEFINE hi == SubResult(q, b, d)  j == Carry(q)  k == Carry(SubFlags(q, b, d))
  <2>1. j = 1 <=> a >= c
    BY <1>7, CmpExact
  <2>2. hi - 256 * (1 - k) = b - d - (1 - j) /\ hi \in 0..255
    BY <1>3, SubExact
  <2>3. (j = 0 \/ j = 1) /\ (k = 0 \/ k = 1)
    BY <1>4
  <2> HIDE DEF hi, j, k
  <2>4. k = 1 <=> 256 * b + a >= 256 * d + c
    BY <1>1, <2>1, <2>2, <2>3
  <2> QED BY <1>2, <2>4 DEF k
<1> QED BY <1>5, <1>6, <1>7 DEF a, b, c, d

=============================================================================
