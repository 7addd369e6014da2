----------------------------- MODULE PpuProofs -----------------------------
(***************************************************************************)
(* Theorems about the registers of the PPU, for every set of values, and   *)
(* about its memory hooks, for every size of the VRAM and of its pages.    *)
(***************************************************************************)
EXTENDS Ppu, TLAPS

-----------------------------------------------------------------------------
(* The fields of the registers.                                             *)

RegsTyped == ppu_regs \in [PpuReg -> SUBSET Bit] /\ aborted \in BOOLEAN

LEMMA FieldRange ==
  ASSUME NEW f \in Field
  PROVE  /\ f.reg \in PpuReg /\ f.shift \in 0..7 /\ f.size \in 1..8
         /\ f.shift + f.size <= 8
<1> QED
  BY DEF Field, PpuReg, F, NAME_TABLE_ADDR, VERTICAL_WRITE, SPRITE_PATT_TABLE,
         SCREEN_PATT_TABLE, SPRITE_SIZE, PPU_MASTER_SLAVE, VBLANK_ENABLE,
         BYTE0_UNKNOWN, IMAGE_MASK, SPRITE_MASK, SCREEN_ENABLE, SPRITES_ENABLE,
         BACKGROUND_COLOR, BYTES05_UNKNOWN, HIT_FLAG, VBLANK_FLAG

\* A field of a register ends where the next one starts, or before.
LEMMA FieldsApart ==
  ASSUME NEW f \in Field, NEW g \in Field, f # g, f.reg = g.reg
  PROVE  f.shift + f.size <= g.shift \/ g.shift + g.size <= f.shift
<1> QED
  BY SMTT(60) DEF Field, F, NAME_TABLE_ADDR, VERTICAL_WRITE, SPRITE_PATT_TABLE,
         SCREEN_PATT_TABLE, SPRITE_SIZE, PPU_MASTER_SLAVE, VBLANK_ENABLE,
         BYTE0_UNKNOWN, IMAGE_MASK, SPRITE_MASK, SCREEN_ENABLE, SPRITES_ENABLE,
         BACKGROUND_COLOR, BYTES05_UNKNOWN, HIT_FLAG, VBLANK_FLAG

\* Every bit of a register is in one of its fields.
LEMMA BitHasField ==
  ASSUME NEW r \in PpuReg, NEW b \in Bit
  PROVE  \E f \in Field : f.reg = r /\ b \in Mask(f)
<1> USE DEF Field, F, Mask, calculate_mask, Bit
<1>1. CASE r = "CR1"
  BY <1>1 DEF NAME_TABLE_ADDR, VERTICAL_WRITE, SPRITE_PATT_TABLE, SCREEN_PATT_TABLE,
              SPRITE_SIZE, PPU_MASTER_SLAVE, VBLANK_ENABLE
<1>2. CASE r = "CR2"
  BY <1>2 DEF BYTE0_UNKNOWN, IMAGE_MASK, SPRITE_MASK, SCREEN_ENABLE, SPRITES_ENABLE,
              BACKGROUND_COLOR
<1>3. CASE r = "SR"
  BY <1>3 DEF BYTES05_UNKNOWN, HIT_FLAG, VBLANK_FLAG
<1> QED BY <1>1, <1>2, <1>3 DEF PpuReg

\* What the assertion of ppu_reg_i_set_field() lets through stays in the field.
LEMMA AtMostMask ==
  ASSUME NEW f \in Field, NEW val \in SUBSET Bit, AtMost(Shifted(val, f.shift), Mask(f))
  PROVE  Shifted(val, f.shift) \subseteq Mask(f)
<1>1. f.shift \in Nat /\ f.size \in Nat
  BY FieldRange
<1> SUFFICES ASSUME NEW b \in Shifted(val, f.shift), b \notin Mask(f) PROVE FALSE
  OBVIOUS
<1>2. b \in Nat /\ b >= f.shift
  BY <1>1 DEF Shifted, Bit
<1>3. PICK c \in Mask(f) : b < c
  BY <1>1 DEF AtMost, Mask, calculate_mask
<1>4. c \in Nat /\ c <= f.shift + f.size - 1
  BY <1>1, <1>3 DEF Mask, calculate_mask
<1> QED BY <1>1, <1>2, <1>3, <1>4 DEF Mask, calculate_mask

LEMMA MaskInByte ==
  ASSUME NEW f \in Field
  PROVE  Mask(f) \subseteq Bit
<1> QED BY FieldRange DEF Mask, calculate_mask, Bit

LEMMA MasksApart ==
  ASSUME NEW f \in Field, NEW g \in Field, f # g, f.reg = g.reg
  PROVE  Mask(f) \cap Mask(g) = {}
<1>1. /\ f.shift \in Nat /\ f.size \in Nat /\ g.shift \in Nat /\ g.size \in Nat
  BY FieldRange
<1>2. f.shift + f.size <= g.shift \/ g.shift + g.size <= f.shift
  BY FieldsApart
<1> QED BY <1>1, <1>2 DEF Mask, calculate_mask

\* Setting a field: it reads back, and every other one of the register stays.
LEMMA WithFieldSets ==
  ASSUME NEW f \in Field, NEW val \in SUBSET Bit, NEW bits \in SUBSET Bit,
         AtMost(Shifted(val, f.shift), Mask(f))
  PROVE  /\ GetField(WithField(bits, f, val), f) = val
         /\ \A g \in Field \ {f} : g.reg = f.reg =>
              GetField(WithField(bits, f, val), g) = GetField(bits, g)
<1>1. Shifted(val, f.shift) \subseteq Mask(f) /\ Mask(f) \subseteq Bit
  BY AtMostMask, MaskInByte
<1>2. WithField(bits, f, val) \cap Mask(f) = Shifted(val, f.shift)
  BY <1>1 DEF WithField
<1>3. GetField(WithField(bits, f, val), f) = {b - f.shift : b \in Shifted(val, f.shift)}
  BY <1>2 DEF GetField
<1>4. {b - f.shift : b \in Shifted(val, f.shift)} = val
  <2>1. f.shift \in Int
    BY FieldRange
  <2>2. \A v \in val : v \in Int /\ (v + f.shift) - f.shift = v
    BY <2>1 DEF Bit
  <2> QED BY <2>2 DEF Shifted
<1>5. ASSUME NEW g \in Field \ {f}, g.reg = f.reg
      PROVE  GetField(WithField(bits, f, val), g) = GetField(bits, g)
  <2>1. Mask(f) \cap Mask(g) = {} /\ Mask(g) \subseteq Bit
    BY <1>5, MasksApart, MaskInByte
  <2>2. WithField(bits, f, val) \cap Mask(g) = bits \cap Mask(g)
    BY <1>1, <2>1 DEF WithField
  <2> QED BY <2>2 DEF GetField
<1> QED BY <1>3, <1>4, <1>5

LEMMA RegsInvariance == RegsSpec => []RegsTyped
<1>1. RegsInit => RegsTyped
  BY DEF RegsInit, RegsTyped, PpuReg
<1>2. RegsTyped /\ [RegsNext]_regs_vars => RegsTyped'
  <2> SUFFICES ASSUME RegsTyped, [RegsNext]_regs_vars PROVE RegsTyped'
    OBVIOUS
  <2>1. CASE \E f \in Field, val \in Values : PPU_REG_SETF(f, val)
    <3>1. PICK f \in Field, val \in Values : PPU_REG_SETF(f, val)
      BY <2>1
    <3>2. WithField(PPU_REG_GET(f.reg), f, val) \in SUBSET Bit
      BY DEF WithField
    <3> QED BY <3>1, <3>2 DEF PPU_REG_SETF, PPU_REG_SET, RegsTyped
  <2>2. CASE \E r \in PpuReg, v \in Values : ~aborted /\ PPU_REG_SET(r, v) /\ UNCHANGED aborted
    BY <2>2, ValuesAssumption DEF PPU_REG_SET, RegsTyped
  <2>3. CASE UNCHANGED regs_vars
    BY <2>3 DEF regs_vars, RegsTyped
  <2> QED BY <2>1, <2>2, <2>3 DEF RegsNext
<1> QED BY <1>1, <1>2, PTL DEF RegsSpec

\* The fields of each register fill it.
THEOREM FieldsFillRegister == RegsSpec => []FieldsMakeRegister
<1>1. RegsTyped => FieldsMakeRegister
  <2> SUFFICES ASSUME RegsTyped, NEW r \in PpuReg
               PROVE  ppu_regs[r] = UNION {Shifted(PPU_REG_GETF(f), f.shift) :
                                             f \in {g \in Field : g.reg = r}}
    BY DEF FieldsMakeRegister
  <2>1. ppu_regs[r] \subseteq Bit
    BY DEF RegsTyped
  <2>2. ASSUME NEW f \in Field, f.reg = r
        PROVE  Shifted(PPU_REG_GETF(f), f.shift) = ppu_regs[r] \cap Mask(f)
    <3>1. f.shift \in Int
      BY FieldRange
    <3>2. \A b \in ppu_regs[r] : b \in Int /\ (b - f.shift) + f.shift = b
      BY <2>1, <3>1 DEF Bit
    <3> QED BY <2>2, <3>2 DEF Shifted, PPU_REG_GETF, PPU_REG_GET, GetField
  <2>3. \A b \in ppu_regs[r] : \E f \in Field : f.reg = r /\ b \in Mask(f)
    BY <2>1, BitHasField
  <2> QED BY <2>2, <2>3
<1> QED BY <1>1, RegsInvariance, PTL

\* No value that PPU_REG_SETF lets through changes a neighbour of its field.
THEOREM FieldsAreIndependent == RegsSpec => FieldsIndependent
<1>1. RegsTyped =>
        \A f \in Field, val \in Values :
          ~aborted' /\ PPU_REG_SETF(f, val) =>
            /\ PPU_REG_GETF(f)' = val
            /\ \A g \in Field \ {f} : PPU_REG_GETF(g)' = PPU_REG_GETF(g)
  <2> SUFFICES ASSUME RegsTyped, NEW f \in Field, NEW val \in Values, ~aborted',
                      PPU_REG_SETF(f, val)
               PROVE  /\ PPU_REG_GETF(f)' = val
                      /\ \A g \in Field \ {f} : PPU_REG_GETF(g)' = PPU_REG_GETF(g)
    OBVIOUS
  <2>1. /\ AtMost(Shifted(val, f.shift), Mask(f))
        /\ ppu_regs' = [ppu_regs EXCEPT ![f.reg] = WithField(ppu_regs[f.reg], f, val)]
    BY DEF PPU_REG_SETF, PPU_REG_SET, PPU_REG_GET
  <2>2. val \in SUBSET Bit /\ f.reg \in PpuReg /\ ppu_regs[f.reg] \in SUBSET Bit
    BY ValuesAssumption, FieldRange DEF RegsTyped
  <2>3. /\ GetField(WithField(ppu_regs[f.reg], f, val), f) = val
        /\ \A g \in Field \ {f} : g.reg = f.reg =>
             GetField(WithField(ppu_regs[f.reg], f, val), g) = GetField(ppu_regs[f.reg], g)
    BY <2>1, <2>2, WithFieldSets
  <2>4. /\ ppu_regs'[f.reg] = WithField(ppu_regs[f.reg], f, val)
        /\ \A r \in PpuReg : r # f.reg => ppu_regs'[r] = ppu_regs[r]
    BY <2>1, <2>2 DEF RegsTyped
  <2>5. \A g \in Field : g.reg \in PpuReg
    BY FieldRange
  <2> QED BY <2>3, <2>4, <2>5 DEF PPU_REG_GETF, PPU_REG_GET
<1> QED BY <1>1, RegsInvariance, PTL DEF FieldsIndependent

-----------------------------------------------------------------------------
(* Division with remainder.                                                 *)

LEMMA Times ==
  ASSUME NEW x \in Nat, NEW y \in Nat, NEW P \in Nat
  PROVE  /\ x * P \in Nat /\ (x + y) * P = x * P + y * P
         /\ (x + 1) * P = x * P + P
         /\ x <= y => x * P <= y * P
<1> QED BY SMT

LEMMA TimesAssociates ==
  ASSUME NEW x \in Nat, NEW y \in Nat, NEW z \in Nat
  PROVE  (x * y) * z = x * (y * z)
<1> QED BY SMT

LEMMA DivMod ==
  ASSUME NEW a \in Nat, NEW P \in Nat, P > 0
  PROVE  /\ a \div P \in Nat /\ a % P \in 0..(P - 1)
         /\ a = ((a \div P) * P) + (a % P)
<1> QED BY SMT

\* A pair of quotient and remainder belongs to one number only.
LEMMA PairUnique ==
  ASSUME NEW P \in Nat, P > 0, NEW q \in Nat, NEW r \in 0..(P - 1),
         NEW s \in Nat, NEW t \in 0..(P - 1), (q * P) + r = (s * P) + t
  PROVE  q = s /\ r = t
<1>1. q * P \in Nat /\ s * P \in Nat
  BY Times
<1>2. ~(q + 1 <= s)
  <2> SUFFICES ASSUME q + 1 <= s PROVE FALSE
    OBVIOUS
  <2>1. (q + 1) * P <= s * P /\ (q + 1) * P = q * P + P
    BY Times
  <2> QED BY <2>1, <1>1
<1>3. ~(s + 1 <= q)
  <2> SUFFICES ASSUME s + 1 <= q PROVE FALSE
    OBVIOUS
  <2>1. (s + 1) * P <= q * P /\ (s + 1) * P = s * P + P
    BY Times
  <2> QED BY <2>1, <1>1
<1>4. q = s
  BY <1>2, <1>3
<1> QED BY <1>4, <1>1

LEMMA PairNumber ==
  ASSUME NEW P \in Nat, P > 0, NEW q \in Nat, NEW r \in 0..(P - 1)
  PROVE  /\ (q * P) + r \in Nat
         /\ ((q * P) + r) \div P = q /\ ((q * P) + r) % P = r
<1> DEFINE a == (q * P) + r
<1>1. a \in Nat
  BY Times
<1>2. a \div P \in Nat /\ a % P \in 0..(P - 1) /\ a = ((a \div P) * P) + (a % P)
  BY <1>1, DivMod
<1>3. a = (q * P) + r
  OBVIOUS
<1> HIDE DEF a
<1>4. (q * P) + r = ((a \div P) * P) + (a % P)
  BY <1>2, <1>3
<1>5. q = a \div P /\ r = a % P
  BY <1>2, <1>4, PairUnique
<1> QED BY <1>1, <1>3, <1>5

LEMMA SmallMod ==
  ASSUME NEW N \in Nat, N > 0, NEW r \in 0..(N - 1)
  PROVE  r % N = r
<1>1. 0 * N = 0 /\ 0 + r = r
  OBVIOUS
<1> QED BY <1>1, PairNumber

\* A carry into the quotient may be added before the remainder is taken.
LEMMA ModAdd ==
  ASSUME NEW N \in Nat, N > 0, NEW p \in Nat, NEW k \in Nat
  PROVE  (p + k) % N = ((p % N) + k) % N
<1> DEFINE x == p \div N
           y == p % N
           z == (y + k) \div N
           w == (y + k) % N
<1>1. x \in Nat /\ y \in 0..(N - 1) /\ p = (x * N) + y
  BY DivMod
<1>2. y + k \in Nat
  BY <1>1
<1>3. z \in Nat /\ w \in 0..(N - 1) /\ y + k = (z * N) + w
  BY <1>2, DivMod
<1> HIDE DEF x, y, z, w
<1>4. x * N \in Nat /\ z * N \in Nat /\ (x + z) * N = x * N + z * N
  BY <1>1, <1>3, Times
<1>5. p + k = ((x + z) * N) + w
  BY <1>1, <1>3, <1>4
<1>6. (p + k) % N = w
  <2>1. x + z \in Nat
    BY <1>1, <1>3
  <2>2. (((x + z) * N) + w) % N = w
    BY <2>1, <1>3, PairNumber
  <2> QED BY <2>2, <1>5
<1> QED BY <1>6 DEF w, y

\* A number taken modulo all cells keeps its place; its page is taken modulo
\* the number of pages.
LEMMA ModCells ==
  ASSUME NEW P \in Nat, P > 0, NEW N \in Nat, N > 0, NEW p \in Nat, NEW q \in 0..(P - 1)
  PROVE  /\ ((p * P) + q) % (N * P) = ((p % N) * P) + q
         /\ N * P \in Nat /\ N * P > 0
<1> DEFINE x == p \div N
           y == p % N
           c == (y * P) + q
<1>1. x \in Nat /\ y \in 0..(N - 1) /\ p = (x * N) + y
  BY DivMod
<1> HIDE DEF x, y
<1>2. /\ N * P \in Nat /\ y * P \in Nat /\ x * N \in Nat
      /\ (y + 1) * P <= N * P /\ (y + 1) * P = y * P + P
  <2>1. y + 1 \in Nat /\ y + 1 <= N /\ y \in Nat
    BY <1>1
  <2> QED BY <2>1, <1>1, Times
<1>3. c \in Nat /\ c <= (N * P) - 1
  BY <1>2
<1>4. p * P = (x * (N * P)) + (y * P)
  <2>1. p * P = ((x * N) * P) + (y * P)
    BY <1>1, <1>2, Times
  <2>2. (x * N) * P = x * (N * P)
    BY <1>1, TimesAssociates
  <2> QED BY <2>1, <2>2
<1>5. x * (N * P) \in Nat
  BY <1>1, <1>2, Times
<1>6. (p * P) + q = (x * (N * P)) + c
  BY <1>2, <1>4, <1>5, SMTT(30)
<1>7. N * P > 0
  BY <1>2, <1>3
<1> HIDE DEF c
<1>8. c \in 0..((N * P) - 1)
  BY <1>2, <1>3
<1>9. ((p * P) + q) % (N * P) = c
  <2>1. x \in Nat /\ N * P \in Nat
    BY <1>1, <1>2
  <2>2. ((x * (N * P)) + c) % (N * P) = c
    BY <2>1, <1>7, <1>8, PairNumber, ZenonT(30)
  <2> QED BY <2>2, <1>6, Zenon
<1> QED BY <1>2, <1>7, <1>9 DEF c, y

-----------------------------------------------------------------------------
(* The VRAM address and the port.                                           *)

PageOf(m)  == (m \div PageSize) % Pages
PlaceOf(m) == m % PageSize

LEMMA SizeFacts ==
  /\ PageSize \in Nat /\ PageSize > 0 /\ Pages \in Nat /\ Pages > 0
  /\ PPU_SIZE \in Nat /\ PPU_SIZE > 0 /\ Stride \in Nat
<1>1. PageSize \in Nat /\ PageSize > 0 /\ Pages \in Nat /\ Pages > 0 /\ Stride \in Nat
  BY SizeAssumption
<1>2. 0 \in 0..(PageSize - 1)
  BY <1>1
<1> QED BY <1>1, <1>2, ModCells DEF PPU_SIZE

LEMMA IncrementType ==
  ASSUME NEW cr1
  PROVE  Increment(cr1) \in Nat /\ Increment(cr1) \in {1, Stride}
<1> QED BY SizeFacts DEF Increment

\* The cell that an address stands for is the one of its page and place.
LEMMA CellOfAddress ==
  ASSUME NEW m \in Nat
  PROVE  /\ PageOf(m) \in 0..(Pages - 1) /\ PlaceOf(m) \in 0..(PageSize - 1)
         /\ m % PPU_SIZE = (PageOf(m) * PageSize) + PlaceOf(m)
         /\ m % PPU_SIZE \in 0..(PPU_SIZE - 1)
<1> USE SizeFacts
<1>1. /\ m \div PageSize \in Nat /\ PlaceOf(m) \in 0..(PageSize - 1)
      /\ m = ((m \div PageSize) * PageSize) + PlaceOf(m)
  BY DivMod DEF PlaceOf
<1>2. PageOf(m) \in 0..(Pages - 1)
  BY <1>1, DivMod DEF PageOf
<1>3. m % PPU_SIZE = (PageOf(m) * PageSize) + PlaceOf(m)
  BY <1>1, ModCells DEF PageOf, PPU_SIZE
<1>4. m % PPU_SIZE \in 0..(PPU_SIZE - 1)
  BY DivMod
<1> QED BY <1>1, <1>2, <1>3, <1>4

LEMMA CellInside ==
  ASSUME NEW g \in 0..(Pages - 1), NEW c \in 0..(PageSize - 1)
  PROVE  (g * PageSize) + c \in 0..(PPU_SIZE - 1)
<1> USE SizeFacts
<1>1. g \in Nat /\ c \in Nat /\ g + 1 \in Nat /\ g + 1 <= Pages
  OBVIOUS
<1>2. /\ (g + 1) * PageSize <= Pages * PageSize /\ (g + 1) * PageSize = g * PageSize + PageSize
      /\ g * PageSize \in Nat
  BY <1>1, Times
<1>3. g * PageSize + c < Pages * PageSize
  BY <1>1, <1>2, SMTT(30)
<1> QED BY <1>1, <1>2, <1>3, SMTT(30) DEF PPU_SIZE

LEMMA CellOfPair ==
  ASSUME NEW g \in Nat, NEW c \in 0..(PageSize - 1)
  PROVE  ((g * PageSize) + c) % PPU_SIZE = ((g % Pages) * PageSize) + c
<1>1. PageSize \in Nat /\ PageSize > 0 /\ Pages \in Nat /\ Pages > 0
  BY SizeFacts
<1>2. ((g * PageSize) + c) % (Pages * PageSize) = ((g % Pages) * PageSize) + c
  BY <1>1, ModCells, ZenonT(30)
<1> QED BY <1>2 DEF PPU_SIZE

\* An increment moves the place on, carries into the page, and takes the page
\* around the end of the VRAM, whichever of the two ways Advanced() goes.
LEMMA AdvancedMovesOn ==
  ASSUME NEW m \in Nat, NEW s \in Nat
  PROVE  /\ Advanced(m, s) \in 0..PPU_SIZE
         /\ PlaceOf(Advanced(m, s)) = (PlaceOf(m) + s) % PageSize
         /\ PageOf(Advanced(m, s)) =
              (PageOf(m) + ((PlaceOf(m) + s) \div PageSize)) % Pages
<1> USE SizeFacts
<1> DEFINE p == m \div PageSize
           q == m % PageSize
           u == (q + s) \div PageSize
           v == (q + s) % PageSize
<1>1. p \in Nat /\ q \in 0..(PageSize - 1) /\ m = (p * PageSize) + q
  BY DivMod
<1>2. q + s \in Nat
  BY <1>1
<1>3. u \in Nat /\ v \in 0..(PageSize - 1) /\ q + s = (u * PageSize) + v
  BY <1>2, DivMod
<1>4. PlaceOf(m) = q /\ PageOf(m) = p % Pages
  BY DEF PlaceOf, PageOf
<1>5. (PlaceOf(m) + s) % PageSize = v /\ (PlaceOf(m) + s) \div PageSize = u
  BY <1>4
<1> HIDE DEF p, q, u, v
<1>6. p + u \in Nat
  BY <1>1, <1>3
<1>7. m + s = ((p + u) * PageSize) + v
  <2>1. (p + u) * PageSize = (p * PageSize) + (u * PageSize)
    BY <1>1, <1>3, Times
  <2>2. p * PageSize \in Nat /\ u * PageSize \in Nat
    BY <1>1, <1>3, Times
  <2> QED BY <2>1, <2>2, <1>1, <1>3
<1>8. ((p % Pages) + u) % Pages = (p + u) % Pages
  BY <1>1, <1>3, ModAdd
<1>9. (p + u) % Pages \in 0..(Pages - 1)
  BY <1>6, DivMod
<1>10. CASE m + s > PPU_SIZE
  <2>1. Advanced(m, s) = (m + s) % PPU_SIZE
    BY <1>10 DEF Advanced
  <2>2. (m + s) % PPU_SIZE = (((p + u) % Pages) * PageSize) + v
    <3>1. (((p + u) * PageSize) + v) % PPU_SIZE = (((p + u) % Pages) * PageSize) + v
      BY <1>3, <1>6, CellOfPair
    <3> QED BY <3>1, <1>7
  <2>3. (p + u) % Pages \in Nat
    BY <1>9
  <2>4. /\ Advanced(m, s) \div PageSize = (p + u) % Pages
        /\ Advanced(m, s) % PageSize = v
    <3>1. /\ ((((p + u) % Pages) * PageSize) + v) \div PageSize = (p + u) % Pages
          /\ ((((p + u) % Pages) * PageSize) + v) % PageSize = v
      BY <2>3, <1>3, PairNumber
    <3> QED BY <3>1, <2>1, <2>2
  <2>5. ((p + u) % Pages) % Pages = (p + u) % Pages
    BY <1>9, SmallMod
  <2>6. Advanced(m, s) \in 0..PPU_SIZE
    <3>1. m + s \in Nat
      OBVIOUS
    <3>2. (m + s) % PPU_SIZE \in 0..(PPU_SIZE - 1)
      BY <3>1, DivMod
    <3> QED BY <2>1, <3>2
  <2> QED BY <2>4, <2>5, <2>6, <1>4, <1>5, <1>8 DEF PlaceOf, PageOf
<1>11. CASE ~(m + s > PPU_SIZE)
  <2>1. Advanced(m, s) = m + s
    BY <1>11 DEF Advanced
  <2>2. Advanced(m, s) \div PageSize = p + u /\ Advanced(m, s) % PageSize = v
    BY <2>1, <1>3, <1>6, <1>7, PairNumber
  <2>3. Advanced(m, s) \in 0..PPU_SIZE
    BY <2>1, <1>11
  <2> QED BY <2>2, <2>3, <1>4, <1>5, <1>8 DEF PlaceOf, PageOf
<1> QED BY <1>10, <1>11

\* The two halves that PPU_hook_memaddr_write() puts together.
LEMMA LowByte ==
  ASSUME NEW m \in 0..(PPU_SIZE + PageSize - 1), NEW v \in 0..(PageSize - 1)
  PROVE  LET a == ((m \div PageSize) * PageSize) + v
         IN  a \in 0..(PPU_SIZE + PageSize - 1) /\ PageOf(a) = PageOf(m) /\ PlaceOf(a) = v
<1> USE SizeFacts
<1> DEFINE p == m \div PageSize
           q == m % PageSize
<1>1. p \in Nat /\ q \in 0..(PageSize - 1) /\ m = (p * PageSize) + q /\ m \in Nat
  BY DivMod
<1>2. PageOf(m) = p % Pages
  BY DEF PageOf
<1> HIDE DEF p, q
<1>3. p <= Pages
  <2> SUFFICES ASSUME Pages + 1 <= p PROVE FALSE
    BY <1>1
  <2>1. /\ (Pages + 1) * PageSize <= p * PageSize
        /\ (Pages + 1) * PageSize = PPU_SIZE + PageSize
        /\ p * PageSize \in Nat
    <3>1. Pages + 1 \in Nat
      OBVIOUS
    <3> QED BY <3>1, <1>1, Times DEF PPU_SIZE
  <2> QED BY <2>1, <1>1
<1>4. p * PageSize <= PPU_SIZE /\ p * PageSize \in Nat
  BY <1>1, <1>3, Times DEF PPU_SIZE
<1>5. (p * PageSize) + v \in 0..(PPU_SIZE + PageSize - 1)
  BY <1>4
<1>6. ((p * PageSize) + v) \div PageSize = p /\ ((p * PageSize) + v) % PageSize = v
  BY <1>1, PairNumber
<1> QED BY <1>2, <1>5, <1>6 DEF PageOf, PlaceOf, p

LEMMA HighByte ==
  ASSUME NEW m \in Nat, NEW v \in 0..(PageSize - 1)
  PROVE  LET a == (m % PageSize) + ((v % Pages) * PageSize)
         IN  a \in 0..(PPU_SIZE + PageSize - 1) /\ PageOf(a) = v % Pages /\ PlaceOf(a) = PlaceOf(m)
<1> USE SizeFacts
<1> DEFINE g == v % Pages
           q == m % PageSize
<1>1. q \in 0..(PageSize - 1) /\ g \in 0..(Pages - 1)
  BY DivMod
<1>2. PlaceOf(m) = q
  BY DEF PlaceOf
<1> HIDE DEF g, q
<1>3. (g * PageSize) + q \in 0..(PPU_SIZE - 1)
  BY <1>1, CellInside
<1>4. g * PageSize \in Nat /\ g \in Nat
  BY <1>1, Times
<1>5. q + (g * PageSize) = (g * PageSize) + q
  BY <1>1, <1>4
<1>6. ((g * PageSize) + q) \div PageSize = g /\ ((g * PageSize) + q) % PageSize = q
  BY <1>1, <1>4, PairNumber
<1>7. g % Pages = g
  BY <1>1, SmallMod
<1>8. (g * PageSize) + q \in 0..(PPU_SIZE + PageSize - 1)
  BY <1>3
<1> QED BY <1>2, <1>5, <1>6, <1>7, <1>8 DEF PageOf, PlaceOf, g, q

-----------------------------------------------------------------------------
(* The hooks keep their types, and the port.                                *)

Typed == TypeOK /\ RegsTyped

\* A call of a hook, with any byte.
HookCall ==
  \/ \E reg \in {"CR1", "CR2"}, value \in SUBSET Bit : PPU_hook_cr_write(reg, value)
  \/ \E value \in 0..(PageSize - 1) : PPU_hook_memaddr_write(value)
  \/ PPU_hook_memdata_read
  \/ \E value \in Data : PPU_hook_memdata_write(value)

LEMMA NextCallsHook == [Next]_vars => [HookCall]_vars
<1> QED BY ValuesAssumption DEF Next, HookCall

LEMMA InitTyped == Init => Typed
<1> SUFFICES ASSUME Init PROVE Typed
  OBVIOUS
<1>1. memaddr \in 0..(PPU_SIZE + PageSize - 1)
  BY SizeFacts DEF Init
<1> QED BY <1>1, DataAssumption DEF Init, RegsInit, Typed, TypeOK, RegsTyped, PpuReg

LEMMA AdvanceTyped ==
  ASSUME Typed, advance
  PROVE  /\ memaddr \in Nat /\ Increment(ppu_regs["CR1"]) \in Nat
         /\ memaddr' = Advanced(memaddr, Increment(ppu_regs["CR1"]))
         /\ memaddr' \in 0..(PPU_SIZE + PageSize - 1)
<1>1. memaddr \in Nat /\ Increment(ppu_regs["CR1"]) \in Nat
  BY SizeFacts, IncrementType DEF Typed, TypeOK
<1>2. memaddr' = Advanced(memaddr, Increment(ppu_regs["CR1"]))
  BY DEF advance, PPU_REG_GET
<1>3. memaddr' \in 0..PPU_SIZE
  BY <1>1, <1>2, AdvancedMovesOn
<1> QED BY <1>1, <1>2, <1>3, SizeFacts

LEMMA HookTyped == Typed /\ [HookCall]_vars => Typed'
<1> SUFFICES ASSUME Typed, [HookCall]_vars PROVE Typed'
  OBVIOUS
<1>1. CASE \E reg \in {"CR1", "CR2"}, value \in SUBSET Bit : PPU_hook_cr_write(reg, value)
  BY <1>1 DEF PPU_hook_cr_write, PPU_REG_SET, Typed, TypeOK, RegsTyped, PpuReg
<1>2. CASE \E value \in 0..(PageSize - 1) : PPU_hook_memaddr_write(value)
  <2>1. PICK value \in 0..(PageSize - 1) : PPU_hook_memaddr_write(value)
    BY <1>2
  <2>2. memaddr \in 0..(PPU_SIZE + PageSize - 1) /\ memaddr \in Nat
    BY SizeFacts DEF Typed, TypeOK
  <2>3. memaddr' \in 0..(PPU_SIZE + PageSize - 1)
    BY <2>1, <2>2, LowByte, HighByte DEF PPU_hook_memaddr_write
  <2>4. memaddr_just_setted' \in BOOLEAN /\ set_lower' \in BOOLEAN
    BY <2>1 DEF PPU_hook_memaddr_write
  <2>5. UNCHANGED <<ppu_regs, aborted, memory, out>>
    BY <2>1 DEF PPU_hook_memaddr_write
  <2> QED BY <2>3, <2>4, <2>5 DEF Typed, TypeOK, RegsTyped
<1>3. CASE PPU_hook_memdata_read
  <2>1. CASE memaddr_just_setted
    BY <1>3, <2>1, DataAssumption DEF PPU_hook_memdata_read, Typed, TypeOK, RegsTyped
  <2>2. CASE ~memaddr_just_setted
    <3>1. /\ out' = memory[memaddr % PPU_SIZE] /\ advance
          /\ UNCHANGED <<memory, memaddr_just_setted, ppu_regs, aborted, set_lower>>
      BY <1>3, <2>2 DEF PPU_hook_memdata_read, memread
    <3>2. memaddr \in Nat /\ memaddr' \in 0..(PPU_SIZE + PageSize - 1)
      BY <3>1, AdvanceTyped
    <3>3. memaddr % PPU_SIZE \in 0..(PPU_SIZE - 1)
      BY <3>2, CellOfAddress
    <3>4. out' \in Data
      BY <3>1, <3>3 DEF Typed, TypeOK
    <3> QED BY <3>1, <3>2, <3>4 DEF Typed, TypeOK, RegsTyped
  <2> QED BY <2>1, <2>2
<1>4. CASE \E value \in Data : PPU_hook_memdata_write(value)
  <2>1. PICK value \in Data : PPU_hook_memdata_write(value)
    BY <1>4
  <2>2. memaddr' \in 0..(PPU_SIZE + PageSize - 1)
    BY <2>1, AdvanceTyped DEF PPU_hook_memdata_write, memwrite
  <2>3. memory' \in [0..(PPU_SIZE - 1) -> Data]
    BY <2>1 DEF PPU_hook_memdata_write, memwrite, Typed, TypeOK
  <2> QED BY <2>1, <2>2, <2>3 DEF PPU_hook_memdata_write, Typed, TypeOK, RegsTyped
<1>5. CASE UNCHANGED vars
  BY <1>5 DEF vars, Typed, TypeOK, RegsTyped
<1> QED BY <1>1, <1>2, <1>3, <1>4, <1>5 DEF HookCall

LEMMA TypedAlways == Spec => []Typed
<1> QED BY InitTyped, NextCallsHook, HookTyped, PTL DEF Spec

\* The VRAM address leaves the VRAM by less than a page, and every access stays
\* inside.
THEOREM AddressInRange == Spec => []TypeOK
<1>1. Typed => TypeOK
  BY DEF Typed
<1> QED BY <1>1, TypedAlways, PTL

-----------------------------------------------------------------------------
PortCells == (0..(Pages - 1)) \X (0..(PageSize - 1))
PortVram(M) == [c \in PortCells |-> M[(c[1] * PageSize) + c[2]]]

\* Writing the cell of an address writes the pair of its page and place, and no
\* other pair.
LEMMA WriteIsOneCell ==
  ASSUME NEW M \in [0..(PPU_SIZE - 1) -> Data], NEW m \in Nat, NEW v
  PROVE  PortVram([M EXCEPT ![m % PPU_SIZE] = v]) =
           [PortVram(M) EXCEPT ![<<PageOf(m), PlaceOf(m)>>] = v]
<1> DEFINE W == [M EXCEPT ![m % PPU_SIZE] = v]
<1>1. /\ PageOf(m) \in 0..(Pages - 1) /\ PlaceOf(m) \in 0..(PageSize - 1)
      /\ m % PPU_SIZE = (PageOf(m) * PageSize) + PlaceOf(m)
      /\ m % PPU_SIZE \in 0..(PPU_SIZE - 1)
  BY CellOfAddress
<1>2. ASSUME NEW g \in 0..(Pages - 1), NEW c \in 0..(PageSize - 1)
      PROVE  W[(g * PageSize) + c] =
               IF <<g, c>> = <<PageOf(m), PlaceOf(m)>> THEN v ELSE M[(g * PageSize) + c]
  <2>1. (g * PageSize) + c \in 0..(PPU_SIZE - 1)
    BY CellInside
  <2>2. (g * PageSize) + c = (PageOf(m) * PageSize) + PlaceOf(m)
          => g = PageOf(m) /\ c = PlaceOf(m)
    <3> HIDE DEF W
    <3> SUFFICES ASSUME (g * PageSize) + c = (PageOf(m) * PageSize) + PlaceOf(m)
                 PROVE  g = PageOf(m) /\ c = PlaceOf(m)
      OBVIOUS
    <3>1. PageSize \in Nat /\ PageSize > 0 /\ g \in Nat /\ PageOf(m) \in Nat
      BY <1>1, SizeFacts
    <3>2. PlaceOf(m) \in 0..(PageSize - 1)
      BY <1>1
    <3> QED BY <3>1, <3>2, PairUnique, SMTT(30)
  <2> QED BY <2>1, <2>2, <1>1
<1> HIDE DEF W
<1>3. PortVram(W) = [PortVram(M) EXCEPT ![<<PageOf(m), PlaceOf(m)>>] = v]
  <2>1. \A c \in PortCells :
          PortVram(W)[c] = IF c = <<PageOf(m), PlaceOf(m)>> THEN v ELSE PortVram(M)[c]
    <3> SUFFICES ASSUME NEW c \in PortCells
                 PROVE  PortVram(W)[c] =
                          IF c = <<PageOf(m), PlaceOf(m)>> THEN v ELSE PortVram(M)[c]
      OBVIOUS
    <3>1. c[1] \in 0..(Pages - 1) /\ c[2] \in 0..(PageSize - 1) /\ c = <<c[1], c[2]>>
      BY DEF PortCells
    <3>2. W[(c[1] * PageSize) + c[2]] =
            IF <<c[1], c[2]>> = <<PageOf(m), PlaceOf(m)>> THEN v
            ELSE M[(c[1] * PageSize) + c[2]]
      BY <3>1, <1>2
    <3> QED BY <3>1, <3>2 DEF PortVram
  <2>2. /\ PortVram(W) = [c \in PortCells |-> PortVram(W)[c]]
        /\ DOMAIN PortVram(M) = PortCells
    BY DEF PortVram
  <2> QED BY <2>1, <2>2
<1> QED BY <1>3 DEF W

LEMMA InitMaps == Init => Port!Init
<1> SUFFICES ASSUME Init PROVE Port!Init
  OBVIOUS
<1>1. /\ 0 \div PageSize = 0 /\ 0 % PageSize = 0 /\ 0 % Pages = 0
  <2>1. 0 \in 0..(PageSize - 1) /\ 0 \in 0..(Pages - 1)
    BY SizeFacts
  <2>2. (0 * PageSize) + 0 = 0 /\ (0 * Pages) + 0 = 0
    BY SizeFacts
  <2>3. 0 \div PageSize = 0 /\ 0 % PageSize = 0
    BY <2>1, <2>2, PairNumber, SizeFacts
  <2>4. 0 % Pages = 0
    BY <2>1, <2>2, PairNumber, SizeFacts
  <2> QED BY <2>3, <2>4
<1>2. [c \in PortCells |-> memory[(c[1] * PageSize) + c[2]]] = [c \in PortCells |-> 0]
  <2>1. ASSUME NEW c \in PortCells PROVE memory[(c[1] * PageSize) + c[2]] = 0
    <3>1. (c[1] * PageSize) + c[2] \in 0..(PPU_SIZE - 1)
      BY CellInside DEF PortCells
    <3> QED BY <3>1 DEF Init
  <2> QED BY <2>1
<1>3. Increment(ppu_regs["CR1"]) = 1
  BY DEF Init, RegsInit, PpuReg, Increment, GetField
<1> QED BY <1>1, <1>2, <1>3 DEF Init, Port!Init, PortCells

LEMMA AdvanceMaps ==
  ASSUME Typed, advance
  PROVE  Port!MoveOn
<1>1. /\ memaddr \in Nat /\ Increment(ppu_regs["CR1"]) \in Nat
      /\ memaddr' = Advanced(memaddr, Increment(ppu_regs["CR1"]))
  BY AdvanceTyped
<1>2. /\ PlaceOf(memaddr') = (PlaceOf(memaddr) + Increment(ppu_regs["CR1"])) % PageSize
      /\ PageOf(memaddr') =
           (PageOf(memaddr)
             + ((PlaceOf(memaddr) + Increment(ppu_regs["CR1"])) \div PageSize)) % Pages
  BY <1>1, AdvancedMovesOn
<1> QED BY <1>2 DEF Port!MoveOn, PlaceOf, PageOf

LEMMA ControlMaps ==
  ASSUME NEW reg \in {"CR1", "CR2"}, NEW value, PPU_hook_cr_write(reg, value)
  PROVE  Port!SetStep
<1>1. Increment(ppu_regs'["CR1"]) \in {1, Stride}
  BY IncrementType
<1>2. UNCHANGED <<memory, memaddr, memaddr_just_setted, set_lower, out>>
  BY DEF PPU_hook_cr_write
<1> QED BY <1>1, <1>2 DEF Port!SetStep

LEMMA AddressMaps ==
  ASSUME Typed, NEW value \in 0..(PageSize - 1), PPU_hook_memaddr_write(value)
  PROVE  Port!SetAddress(value)
<1>1. memaddr \in 0..(PPU_SIZE + PageSize - 1) /\ memaddr \in Nat
  BY SizeFacts DEF Typed, TypeOK
<1>2. memaddr_just_setted' = TRUE /\ UNCHANGED <<ppu_regs, memory, out>>
  BY DEF PPU_hook_memaddr_write
<1>3. CASE set_lower
  <2>1. memaddr' = ((memaddr \div PageSize) * PageSize) + value /\ set_lower' = FALSE
    BY <1>3 DEF PPU_hook_memaddr_write
  <2>2. PageOf(memaddr') = PageOf(memaddr) /\ PlaceOf(memaddr') = value
    BY <2>1, <1>1, LowByte
  <2> QED BY <1>2, <1>3, <2>1, <2>2 DEF Port!SetAddress, PageOf, PlaceOf
<1>4. CASE ~set_lower
  <2>1. memaddr' = (memaddr % PageSize) + ((value % Pages) * PageSize) /\ set_lower' = TRUE
    BY <1>4 DEF PPU_hook_memaddr_write
  <2>2. PageOf(memaddr') = value % Pages /\ PlaceOf(memaddr') = PlaceOf(memaddr)
    BY <2>1, <1>1, HighByte
  <2> QED BY <1>2, <1>4, <2>1, <2>2 DEF Port!SetAddress, PageOf, PlaceOf
<1> QED BY <1>3, <1>4

LEMMA ReadMaps ==
  ASSUME Typed, PPU_hook_memdata_read
  PROVE  Port!Discard \/ Port!Read
<1>1. CASE memaddr_just_setted
  <2>1. /\ memaddr_just_setted' = FALSE /\ out' = 0
        /\ UNCHANGED <<memory, memaddr, ppu_regs, set_lower>>
    BY <1>1 DEF PPU_hook_memdata_read
  <2> QED BY <1>1, <2>1 DEF Port!Discard
<1>2. CASE ~memaddr_just_setted
  <2>1. /\ out' = memory[memaddr % PPU_SIZE] /\ advance
        /\ UNCHANGED <<memory, memaddr_just_setted, ppu_regs, set_lower>>
    BY <1>2 DEF PPU_hook_memdata_read, memread
  <2>2. Port!MoveOn
    BY <2>1, AdvanceMaps
  <2>3. memaddr \in Nat
    BY <2>1, AdvanceTyped
  <2>4. /\ PageOf(memaddr) \in 0..(Pages - 1) /\ PlaceOf(memaddr) \in 0..(PageSize - 1)
        /\ memaddr % PPU_SIZE = (PageOf(memaddr) * PageSize) + PlaceOf(memaddr)
    BY <2>3, CellOfAddress
  <2>5. PortVram(memory)[<<PageOf(memaddr), PlaceOf(memaddr)>>] = memory[memaddr % PPU_SIZE]
    BY <2>4 DEF PortVram, PortCells
  <2>6. out' = PortVram(memory)[<<PageOf(memaddr), PlaceOf(memaddr)>>]
    BY <2>1, <2>5
  <2> QED BY <1>2, <2>1, <2>2, <2>6 DEF Port!Read, PortVram, PortCells, PageOf, PlaceOf
<1> QED BY <1>1, <1>2

LEMMA WriteMaps ==
  ASSUME Typed, NEW value \in Data, PPU_hook_memdata_write(value)
  PROVE  Port!Write(value)
<1>1. /\ memory' = [memory EXCEPT ![memaddr % PPU_SIZE] = value] /\ advance
      /\ UNCHANGED <<ppu_regs, memaddr_just_setted, set_lower, out>>
  BY DEF PPU_hook_memdata_write, memwrite
<1>2. Port!MoveOn
  BY <1>1, AdvanceMaps
<1>3. memaddr \in Nat /\ memory \in [0..(PPU_SIZE - 1) -> Data]
  BY <1>1, AdvanceTyped DEF Typed, TypeOK
<1>4. PortVram(memory') = [PortVram(memory) EXCEPT ![<<PageOf(memaddr), PlaceOf(memaddr)>>] = value]
  BY <1>1, <1>3, WriteIsOneCell
<1> QED BY <1>1, <1>2, <1>4 DEF Port!Write, PortVram, PortCells, PageOf, PlaceOf

LEMMA HookMaps == Typed /\ [HookCall]_vars => [Port!Next]_(Port!vars)
<1> SUFFICES ASSUME Typed, [HookCall]_vars PROVE [Port!Next]_(Port!vars)
  OBVIOUS
<1>1. CASE \E reg \in {"CR1", "CR2"}, value \in SUBSET Bit : PPU_hook_cr_write(reg, value)
  BY <1>1, ControlMaps DEF Port!Next
<1>2. CASE \E value \in 0..(PageSize - 1) : PPU_hook_memaddr_write(value)
  BY <1>2, AddressMaps DEF Port!Next
<1>3. CASE PPU_hook_memdata_read
  BY <1>3, ReadMaps DEF Port!Next
<1>4. CASE \E value \in Data : PPU_hook_memdata_write(value)
  BY <1>4, WriteMaps DEF Port!Next
<1>5. CASE UNCHANGED vars
  BY <1>5 DEF vars, Port!vars
<1> QED BY <1>1, <1>2, <1>3, <1>4, <1>5 DEF HookCall

\* Whatever the sizes, a program that talks to the hooks of the PPU talks to the
\* window on the VRAM that VramPort describes.
THEOREM HooksImplementPort == Spec => ImplementsPort
<1> QED BY InitMaps, NextCallsHook, HookMaps, TypedAlways, PTL
        DEF Spec, ImplementsPort, Port!PortSpec

=============================================================================
