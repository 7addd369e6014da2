-------------------------- MODULE SimplenesProofs --------------------------
(***************************************************************************)
(* Theorems about the bus of simplenes, for every size of a byte up to     *)
(* eight bits and every place of the hooks: whatever a program reads,      *)
(* writes and increments, DMA included, the PPU sees accesses of its port. *)
(***************************************************************************)
EXTENDS Simplenes, PpuProofs

-----------------------------------------------------------------------------
(* A byte is the sum of its bits.                                           *)

LEMMA Halves ==
  ASSUME NEW v \in Byte
  PROVE  v = ((v \div 1) % 2) + 2 * ((v \div 2) % 2) + 4 * ((v \div 4) % 2)
             + 8 * ((v \div 8) % 2) + 16 * ((v \div 16) % 2) + 32 * ((v \div 32) % 2)
             + 64 * ((v \div 64) % 2) + 128 * ((v \div 128) % 2)
<1> QED BY SMTT(60) DEF Byte

LEMMA BitWeight ==
  ASSUME NEW v \in Byte, NEW i \in 0..7
  PROVE  (IF i \in BitsOf(v) THEN Weight(i) ELSE 0) = Weight(i) * ((v \div Weight(i)) % 2)
<1>1. Weight(i) \in {1, 2, 4, 8, 16, 32, 64, 128}
  BY DEF Weight
<1>2. (v \div Weight(i)) % 2 \in {0, 1}
  BY <1>1 DEF Byte
<1>3. i \in BitsOf(v) <=> (v \div Weight(i)) % 2 = 1
  BY DEF BitsOf
<1> QED BY <1>1, <1>2, <1>3

LEMMA ByteOfBits ==
  ASSUME NEW v \in Byte
  PROVE  BitsOf(v) \in SUBSET Bit /\ ByteOf(BitsOf(v)) = v
<1> DEFINE w(i) == IF i \in BitsOf(v) THEN Weight(i) ELSE 0
<1>1. /\ Weight(0) = 1 /\ Weight(1) = 2 /\ Weight(2) = 4 /\ Weight(3) = 8
      /\ Weight(4) = 16 /\ Weight(5) = 32 /\ Weight(6) = 64 /\ Weight(7) = 128
  BY DEF Weight
<1>2. \A i \in 0..7 : w(i) = Weight(i) * ((v \div Weight(i)) % 2)
  BY BitWeight
<1>3. ByteOf(BitsOf(v)) = w(0) + w(1) + w(2) + w(3) + w(4) + w(5) + w(6) + w(7)
  BY Zenon DEF ByteOf
<1> HIDE DEF w
<1>4. /\ w(0) = (v \div 1) % 2 /\ w(1) = 2 * ((v \div 2) % 2)
      /\ w(2) = 4 * ((v \div 4) % 2) /\ w(3) = 8 * ((v \div 8) % 2)
      /\ w(4) = 16 * ((v \div 16) % 2) /\ w(5) = 32 * ((v \div 32) % 2)
      /\ w(6) = 64 * ((v \div 64) % 2) /\ w(7) = 128 * ((v \div 128) % 2)
  <2>1. (v \div 1) % 2 \in Int
    BY DEF Byte
  <2> QED BY <2>1, <1>1, <1>2
<1>5. BitsOf(v) \in SUBSET Bit
  BY DEF BitsOf, Bit
<1> QED BY <1>3, <1>4, <1>5, Halves

-----------------------------------------------------------------------------
(* The memory map.                                                          *)

Hook == {PPU_CR1_MAP, PPU_CR2_MAP, PPU_STATUS_MAP, PPU_MEM_ADDR_MAP,
         PPU_MEM_DATA_MAP, PPU_SPRITE_DMA_MAP}

\* The hooks are apart, and behind the mirrored memory.
LEMMA HooksApart ==
  /\ PPU_CR1_MAP \notin {PPU_CR2_MAP, PPU_STATUS_MAP, PPU_MEM_ADDR_MAP,
                         PPU_MEM_DATA_MAP, PPU_SPRITE_DMA_MAP}
  /\ PPU_CR2_MAP \notin {PPU_STATUS_MAP, PPU_MEM_ADDR_MAP, PPU_MEM_DATA_MAP,
                         PPU_SPRITE_DMA_MAP}
  /\ PPU_STATUS_MAP \notin {PPU_MEM_ADDR_MAP, PPU_MEM_DATA_MAP, PPU_SPRITE_DMA_MAP}
  /\ PPU_MEM_ADDR_MAP \notin {PPU_MEM_DATA_MAP, PPU_SPRITE_DMA_MAP}
  /\ PPU_MEM_DATA_MAP # PPU_SPRITE_DMA_MAP
<1>1. /\ Hooked[1] = PPU_CR1_MAP /\ Hooked[2] = PPU_CR2_MAP /\ Hooked[3] = PPU_STATUS_MAP
      /\ Hooked[4] = PPU_MEM_ADDR_MAP /\ Hooked[5] = PPU_MEM_DATA_MAP
      /\ Hooked[6] = PPU_SPRITE_DMA_MAP
  BY DEF Hooked
<1>2. \A i, j \in 1..6 : i # j => Hooked[i] # Hooked[j]
  BY MapAssumption
<1> QED BY <1>1, <1>2

LEMMA MapFacts ==
  /\ INTERNAL_RAM_MIRROR_STOP \in Nat /\ INTERNAL_RAM_MIRROR_STOP > 0
  /\ LastBusAddr \in Int /\ INTERNAL_RAM_MIRROR_STOP <= LastBusAddr
  /\ \A h \in Hook : h \in CpuAddr /\ h >= INTERNAL_RAM_MIRROR_STOP
<1>1. /\ Hooked[1] = PPU_CR1_MAP /\ Hooked[2] = PPU_CR2_MAP /\ Hooked[3] = PPU_STATUS_MAP
      /\ Hooked[4] = PPU_MEM_ADDR_MAP /\ Hooked[5] = PPU_MEM_DATA_MAP
      /\ Hooked[6] = PPU_SPRITE_DMA_MAP
  BY DEF Hooked
<1>2. /\ INTERNAL_RAM_MIRROR_STOP \in Nat /\ INTERNAL_RAM_MIRROR_STOP > 0
      /\ \A i \in 1..6 : Hooked[i] \in INTERNAL_RAM_MIRROR_STOP..LastBusAddr
  BY MapAssumption
<1>3. LastBusAddr \in Int
  BY MapAssumption, SizeFacts
<1>4. \A h \in Hook : h \in INTERNAL_RAM_MIRROR_STOP..LastBusAddr
  BY <1>1, <1>2 DEF Hook
<1>5. \A h \in Hook : h \in CpuAddr /\ h >= INTERNAL_RAM_MIRROR_STOP /\ h <= LastBusAddr
  BY <1>2, <1>3, <1>4 DEF CpuAddr
<1>6. INTERNAL_RAM_MIRROR_STOP <= LastBusAddr
  BY <1>2, <1>3, <1>5 DEF Hook, CpuAddr
<1> QED BY <1>2, <1>3, <1>5, <1>6

\* mirror_internal_ram() stays in the memory, and no hook is translated.
LEMMA TranslateFacts ==
  /\ \A addr \in CpuAddr : Translate(addr) \in CpuAddr
  /\ \A h \in Hook : Translate(h) = h
<1>1. ASSUME NEW addr \in CpuAddr
      PROVE  Translate(addr) \in CpuAddr
  <2>1. CASE addr < INTERNAL_RAM_MIRROR_STOP
    <3>1. Translate(addr) = (addr % INTERNAL_RAM_MIRROR_STOP) + 0
      BY <2>1 DEF Translate, mirror_internal_ram, mirror
    <3>2. addr % INTERNAL_RAM_MIRROR_STOP \in 0..(INTERNAL_RAM_MIRROR_STOP - 1)
      BY MapFacts, DivMod DEF CpuAddr
    <3> QED BY <3>1, <3>2, MapFacts DEF CpuAddr
  <2>2. CASE ~(addr < INTERNAL_RAM_MIRROR_STOP)
    BY <2>2 DEF Translate
  <2> QED BY <2>1, <2>2
<1>2. ASSUME NEW h \in Hook
      PROVE  Translate(h) = h
  <2>1. ~(h < INTERNAL_RAM_MIRROR_STOP)
    BY MapFacts DEF CpuAddr
  <2> QED BY <2>1 DEF Translate
<1> QED BY <1>1, <1>2

LEMMA ByteFacts ==
  /\ CpuByte \subseteq Byte /\ 0 \in CpuByte /\ Written \subseteq CpuByte /\ Data = CpuByte
  /\ \A x \in CpuByte, v \in {1, -1} : (x + v) % PageSize \in CpuByte
<1>1. PageSize \in Nat /\ PageSize > 0 /\ PageSize <= 256
  BY SizeFacts, MapAssumption
<1>2. ASSUME NEW x \in Int
      PROVE  x % PageSize \in 0..(PageSize - 1)
  BY <1>1, SMT
<1>3. \A x \in CpuByte, v \in {1, -1} : x + v \in Int
  BY DEF CpuByte
<1>4. \A x \in CpuByte, v \in {1, -1} : (x + v) % PageSize \in CpuByte
  BY <1>2, <1>3 DEF CpuByte
<1>5. CpuByte \subseteq Byte /\ 0 \in CpuByte
  BY <1>1 DEF CpuByte, Byte
<1> QED BY <1>4, <1>5, MapAssumption

-----------------------------------------------------------------------------
(* An access calls one hook of the PPU, or none.                            *)

BusInv ==
  /\ Typed /\ ShadowsAgree
  /\ core_mem \in [CpuAddr -> CpuByte]
  /\ DOMAIN sprite_mem = 0..(PageSize - 1)

LEMMA ReadsCallHook ==
  ASSUME NEW addrs, PpuSeesReads(addrs)
  PROVE  [HookCall]_vars /\ UNCHANGED ppu_regs
<1>1. CASE PPU_hook_memdata_read
  BY <1>1 DEF PPU_hook_memdata_read, HookCall
<1>2. CASE UNCHANGED vars
  BY <1>2 DEF vars
<1> QED BY <1>1, <1>2 DEF PpuSeesReads

\* What a write hook does: the registers CR1 and CR2 get the value, the others
\* leave them alone; whatever it is, it is a call of the port.
LEMMA WriteCallsHook ==
  ASSUME NEW a, NEW value \in CpuByte, WriteHook(a, value)
  PROVE  /\ [HookCall]_vars
         /\ \/ a = PPU_CR1_MAP /\ ppu_regs' = [ppu_regs EXCEPT !["CR1"] = BitsOf(value)]
            \/ a = PPU_CR2_MAP /\ ppu_regs' = [ppu_regs EXCEPT !["CR2"] = BitsOf(value)]
            \/ a \notin {PPU_CR1_MAP, PPU_CR2_MAP} /\ UNCHANGED ppu_regs
         /\ UNCHANGED sprite_mem \/ (a = PPU_SPRITE_DMA_MAP /\ sfot_do_dma(value))
<1>1. value \in Byte /\ value \in Data /\ BitsOf(value) \in SUBSET Bit
  BY ByteFacts, ByteOfBits
<1>2. CASE /\ a = PPU_CR1_MAP /\ PPU_hook_cr_write("CR1", BitsOf(value))
           /\ UNCHANGED sprite_mem
  BY <1>1, <1>2 DEF HookCall, PPU_hook_cr_write, PPU_REG_SET
<1>3. CASE /\ a = PPU_CR2_MAP /\ PPU_hook_cr_write("CR2", BitsOf(value))
           /\ UNCHANGED sprite_mem
  BY <1>1, <1>3 DEF HookCall, PPU_hook_cr_write, PPU_REG_SET
<1>4. CASE a = PPU_MEM_ADDR_MAP /\ PPU_hook_memaddr_write(value) /\ UNCHANGED sprite_mem
  <2>1. HookCall /\ UNCHANGED ppu_regs
    BY <1>4 DEF HookCall, PPU_hook_memaddr_write, CpuByte
  <2> QED BY <1>4, <2>1, HooksApart
<1>5. CASE a = PPU_MEM_DATA_MAP /\ PPU_hook_memdata_write(value) /\ UNCHANGED sprite_mem
  <2>1. HookCall /\ UNCHANGED ppu_regs
    BY <1>1, <1>5 DEF HookCall, PPU_hook_memdata_write
  <2> QED BY <1>5, <2>1, HooksApart
<1>6. CASE a = PPU_SPRITE_DMA_MAP /\ sfot_do_dma(value)
  <2>1. PpuSeesReads(Page(value))
    BY <1>6 DEF sfot_do_dma
  <2> QED BY <1>6, <2>1, ReadsCallHook, HooksApart
<1>7. CASE /\ a \notin {PPU_CR1_MAP, PPU_CR2_MAP, PPU_MEM_ADDR_MAP, PPU_MEM_DATA_MAP,
                        PPU_SPRITE_DMA_MAP}
           /\ UNCHANGED <<vars, sprite_mem>>
  BY <1>7 DEF vars
<1> QED BY <1>2, <1>3, <1>4, <1>5, <1>6, <1>7 DEF WriteHook

\* A write through the hooks keeps what mem[] holds at the registers in step
\* with them.
LEMMA WriteKeepsInv ==
  ASSUME BusInv, NEW a \in CpuAddr, NEW value \in CpuByte, WriteHook(a, value),
         core_mem' = [core_mem EXCEPT ![a] = Stored(a, value)]
  PROVE  BusInv' /\ [HookCall]_vars
<1>1. /\ [HookCall]_vars
      /\ \/ a = PPU_CR1_MAP /\ ppu_regs' = [ppu_regs EXCEPT !["CR1"] = BitsOf(value)]
         \/ a = PPU_CR2_MAP /\ ppu_regs' = [ppu_regs EXCEPT !["CR2"] = BitsOf(value)]
         \/ a \notin {PPU_CR1_MAP, PPU_CR2_MAP} /\ UNCHANGED ppu_regs
      /\ UNCHANGED sprite_mem \/ (a = PPU_SPRITE_DMA_MAP /\ sfot_do_dma(value))
  BY WriteCallsHook
<1>2. Typed'
  BY <1>1, HookTyped DEF BusInv
<1>3. Stored(a, value) \in CpuByte
  BY ByteFacts DEF Stored
<1>4. core_mem' \in [CpuAddr -> CpuByte]
  BY <1>3 DEF BusInv
<1>5. DOMAIN sprite_mem' = 0..(PageSize - 1)
  BY <1>1 DEF BusInv, sfot_do_dma
<1>6. ByteOf(BitsOf(value)) = value
  BY ByteFacts, ByteOfBits
<1>7. ShadowsAgree'
  <2>1. /\ PPU_CR1_MAP \in CpuAddr /\ PPU_CR2_MAP \in CpuAddr /\ PPU_MEM_DATA_MAP \in CpuAddr
    BY MapFacts DEF Hook
  <2>2. \A b \in CpuAddr : core_mem'[b] = IF b = a THEN Stored(a, value) ELSE core_mem[b]
    BY DEF BusInv
  <2>3. core_mem'[PPU_MEM_DATA_MAP] = 0
    BY <2>1, <2>2 DEF Stored, BusInv, ShadowsAgree
  <2>4. ppu_regs \in [PpuReg -> SUBSET Bit] /\ "CR1" \in PpuReg /\ "CR2" \in PpuReg
    BY DEF BusInv, Typed, RegsTyped, PpuReg
  <2>5. core_mem'[PPU_CR1_MAP] = ByteOf(ppu_regs'["CR1"])
    <3>1. CASE a = PPU_CR1_MAP
      <4>1. core_mem'[PPU_CR1_MAP] = value
        BY <2>1, <2>2, <3>1, HooksApart DEF Stored
      <4>2. ppu_regs'["CR1"] = BitsOf(value)
        BY <1>1, <2>4, <3>1, HooksApart
      <4> QED BY <4>1, <4>2, <1>6
    <3>2. CASE a # PPU_CR1_MAP
      <4>1. core_mem'[PPU_CR1_MAP] = core_mem[PPU_CR1_MAP]
        BY <2>1, <2>2, <3>2
      <4>2. ppu_regs'["CR1"] = ppu_regs["CR1"]
        BY <1>1, <2>4, <3>2
      <4> QED BY <4>1, <4>2 DEF BusInv, ShadowsAgree
    <3> QED BY <3>1, <3>2
  <2>6. core_mem'[PPU_CR2_MAP] = ByteOf(ppu_regs'["CR2"])
    <3>1. CASE a = PPU_CR2_MAP
      <4>1. core_mem'[PPU_CR2_MAP] = value
        BY <2>1, <2>2, <3>1, HooksApart DEF Stored
      <4>2. ppu_regs'["CR2"] = BitsOf(value)
        BY <1>1, <2>4, <3>1, HooksApart
      <4> QED BY <4>1, <4>2, <1>6
    <3>2. CASE a # PPU_CR2_MAP
      <4>1. core_mem'[PPU_CR2_MAP] = core_mem[PPU_CR2_MAP]
        BY <2>1, <2>2, <3>2
      <4>2. ppu_regs'["CR2"] = ppu_regs["CR2"]
        BY <1>1, <2>4, <3>2
      <4> QED BY <4>1, <4>2 DEF BusInv, ShadowsAgree
    <3> QED BY <3>1, <3>2
  <2> QED BY <2>3, <2>5, <2>6 DEF ShadowsAgree
<1> QED BY <1>1, <1>2, <1>4, <1>5, <1>7 DEF BusInv

LEMMA BusStep ==
  ASSUME BusInv, [BusNext]_bus_vars
  PROVE  BusInv' /\ [HookCall]_vars
<1>1. CASE UNCHANGED bus_vars
  <2>1. UNCHANGED vars
    BY <1>1 DEF bus_vars
  <2>2. Typed'
    BY <2>1, HookTyped DEF BusInv
  <2>3. UNCHANGED <<core_mem, sprite_mem, ppu_regs>>
    BY <1>1 DEF bus_vars, core_vars, vars
  <2> QED BY <2>1, <2>2, <2>3 DEF BusInv, ShadowsAgree
<1>2. CASE BusNext
  <2>1. PICK addr \in Accessed :
          \/ MEM_READ(addr)
          \/ \E value \in Written : MEM_WRITE(addr, value)
          \/ \E v \in {1, -1} : MEM_INC(addr, v)
    BY <1>2 DEF BusNext
  <2>2. Translate(addr) \in CpuAddr
    BY MapAssumption, TranslateFacts
  <2>3. CASE MEM_READ(addr)
    <3>1. PpuSeesReads({addr}) /\ UNCHANGED <<core_mem, sprite_mem>>
      BY <2>3 DEF MEM_READ
    <3>2. [HookCall]_vars /\ UNCHANGED ppu_regs
      BY <3>1, ReadsCallHook
    <3>3. Typed'
      BY <3>2, HookTyped DEF BusInv
    <3> QED BY <3>1, <3>2, <3>3 DEF BusInv, ShadowsAgree
  <2>4. ASSUME NEW value \in Written, MEM_WRITE(addr, value)
        PROVE  BusInv' /\ [HookCall]_vars
    <3>1. /\ WriteHook(Translate(addr), value) /\ value \in CpuByte
          /\ core_mem' = [core_mem EXCEPT ![Translate(addr)] = Stored(Translate(addr), value)]
      BY <2>4, ByteFacts DEF MEM_WRITE
    <3> QED BY <3>1, <2>2, WriteKeepsInv
  <2>5. ASSUME NEW v \in {1, -1}, MEM_INC(addr, v)
        PROVE  BusInv' /\ [HookCall]_vars
    <3> DEFINE value == (core_mem[Translate(addr)] + v) % PageSize
    <3>1. /\ WriteHook(Translate(addr), value)
          /\ core_mem' = [core_mem EXCEPT ![Translate(addr)] = Stored(Translate(addr), value)]
      BY <2>5 DEF MEM_INC
    <3>2. value \in CpuByte
      BY <2>2, ByteFacts DEF BusInv
    <3> HIDE DEF value
    <3> QED BY <3>1, <3>2, <2>2, WriteKeepsInv
  <2> QED BY <2>1, <2>3, <2>4, <2>5
<1> QED BY <1>1, <1>2

LEMMA BusInitInv == BusInit => BusInv
<1> SUFFICES ASSUME BusInit PROVE BusInv
  OBVIOUS
<1>1. Typed
  BY InitTyped DEF BusInit
<1>2. core_mem \in [CpuAddr -> CpuByte] /\ DOMAIN sprite_mem = 0..(PageSize - 1)
  BY ByteFacts DEF BusInit
<1>3. ByteOf({}) = 0
  BY DEF ByteOf
<1>4. \A h \in Hook : core_mem[h] = 0
  BY MapFacts DEF BusInit
<1>5. ppu_regs["CR1"] = {} /\ ppu_regs["CR2"] = {}
  BY DEF BusInit, Init, RegsInit, PpuReg
<1> QED BY <1>1, <1>2, <1>3, <1>4, <1>5 DEF BusInv, ShadowsAgree, Hook

LEMMA BusInvariance == BusSpec => []BusInv
<1> QED BY BusInitInv, BusStep, PTL DEF BusSpec

\* On the bus too, the VRAM address leaves the VRAM by less than a page, and
\* every access stays inside.
THEOREM BusKeepsAddressInRange == BusSpec => []TypeOK
<1>1. BusInv => TypeOK
  BY DEF BusInv, Typed
<1> QED BY <1>1, BusInvariance, PTL

\* INC and DEC of a control register of the PPU count from what the register
\* holds: mem[] has the same below its hook.
THEOREM ShadowsFollowRegisters == BusSpec => []ShadowsAgree
<1>1. BusInv => ShadowsAgree
  BY DEF BusInv
<1> QED BY <1>1, BusInvariance, PTL

\* Whatever a program does on the bus, an INC, a DEC or a DMA of the page of the
\* registers included, the PPU sees accesses of the window on the VRAM.
THEOREM BusImplementsPort == BusSpec => ImplementsPort
<1>1. BusInit => Port!Init
  BY InitMaps DEF BusInit
<1>2. BusInv /\ [BusNext]_bus_vars => [Port!Next]_(Port!vars)
  BY BusStep, HookMaps DEF BusInv
<1> QED BY <1>1, <1>2, BusInvariance, PTL DEF BusSpec, ImplementsPort, Port!PortSpec

=============================================================================
