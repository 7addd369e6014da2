---------------------------- MODULE LoadProofs ----------------------------
(***************************************************************************)
(* Theorems about SfotLoad and NesLoad, for every file, every place in it  *)
(* and however many read()s fail.                                          *)
(***************************************************************************)
EXTENDS NesLoad, TLAPS

-----------------------------------------------------------------------------
(* sfot_load().                                                             *)

\* What read() has put into the buffer: each byte comes from the file, at most
\* as many bytes late as read() has failed.
FromFile(bytes, count, failed) ==
  \A i \in 0..(count - 1) :
    \E d \in 0..failed : bytes[offset + i] = File[Start + 1 + i + d]

Arguments ==
  /\ offset \in Addr /\ len \in Addr
  /\ at # "called" /\ ret >= 0 => offset + len <= LastAddr + 1

Reading ==
  /\ at \in {"called", "reading"} => ret = 0
  /\ at = "called" => bytes_read = 0 /\ errors = 0 /\ pos = Start
  /\ at = "reading" =>
       /\ bytes_read \in Nat
       /\ pos = Start + bytes_read + errors
       /\ FromFile(buf, bytes_read, errors)

Returned ==
  at = "returned" /\ ret >= 0 => FromFile(mem, len, errors)

Types ==
  /\ LoadTypeOK
  /\ ret \in Int
  /\ buf \in [Addr -> Int] /\ mem \in [Addr -> Int]

Inv == Types /\ Arguments /\ Reading /\ Returned

-----------------------------------------------------------------------------
LEMMA MinOfTwo ==
  ASSUME NEW a \in Int, NEW b \in Int
  PROVE  Min({a, b}) \in {a, b} /\ Min({a, b}) <= a /\ Min({a, b}) <= b
<1>1. \E x \in {a, b} : \A y \in {a, b} : x <= y
  <2>1. CASE a <= b
    BY <2>1
  <2>2. CASE b <= a
    BY <2>2
  <2> QED BY <2>1, <2>2
<1> QED BY <1>1 DEF Min

\* read() gives no more than it was asked for and than the file has.
LEMMA GivenRange ==
  ASSUME NEW count \in Nat, pos \in Start..Len(File), NEW n \in Given(count)
  PROVE  n \in Nat /\ n <= count /\ pos + n \in Start..Len(File)
<1> DEFINE most == Min({count, Len(File) - pos})
<1>1. Start \in Nat /\ Len(File) \in Nat /\ pos \in Nat /\ Start <= pos /\ pos <= Len(File)
  BY LoadAssumption, FileAssumption
<1>2. most \in Int /\ most <= count /\ most <= Len(File) - pos
  <2>1. Len(File) - pos \in Int
    BY <1>1
  <2>2. most \in {count, Len(File) - pos} /\ most <= count /\ most <= Len(File) - pos
    BY <2>1, MinOfTwo
  <2> HIDE DEF most
  <2> QED BY <2>1, <2>2
<1>3. CASE most <= 0
  <2>1. n = 0
    BY <1>3 DEF Given
  <2> QED BY <2>1, <1>1
<1>4. CASE ~(most <= 0)
  <2>1. n \in 1..most
    BY <1>4 DEF Given
  <2> HIDE DEF most
  <2> QED BY <2>1, <1>1, <1>2
<1> QED BY <1>3, <1>4

LEMMA SeqElement ==
  ASSUME NEW S, NEW s \in Seq(S), NEW k \in 1..Len(s)
  PROVE  s[k] \in S
<1> QED OBVIOUS

LEMMA FileBytes ==
  ASSUME NEW k \in 1..Len(File)
  PROVE  File[k] \in 0..255
<1> QED BY FileAssumption, SeqElement

\* What Received() stores, and what it leaves alone.
LEMMA ReceivedBytes ==
  ASSUME NEW bytes, \A a \in DOMAIN bytes : a \in Int,
         NEW index \in Int, NEW n \in Nat,
         pos \in Start..Len(File), pos + n \in Start..Len(File)
  PROVE  /\ DOMAIN Received(bytes, index, n) = DOMAIN bytes
         /\ \A a \in DOMAIN bytes :
              /\ a \in index..(index + n - 1) =>
                   /\ Received(bytes, index, n)[a] = File[pos + 1 + (a - index)]
                   /\ Received(bytes, index, n)[a] \in 0..255
              /\ a \notin index..(index + n - 1) =>
                   Received(bytes, index, n)[a] = bytes[a]
<1>1. ASSUME NEW a \in DOMAIN bytes, a \in index..(index + n - 1)
      PROVE  File[pos + 1 + (a - index)] \in 0..255
  <2>1. pos + 1 + (a - index) \in 1..Len(File)
    <3>1. pos \in Nat /\ Len(File) \in Nat /\ a \in Int
      BY LoadAssumption, FileAssumption
    <3> QED BY <3>1, <1>1
  <2> QED BY <2>1, FileBytes
<1> QED BY <1>1 DEF Received

LEMMA ErrorShift ==
  ASSUME NEW s \in Nat, NEW r \in Nat, NEW e \in Nat, NEW i \in Nat, r <= i,
         NEW o \in Nat
  PROVE  s + r + e + 1 + ((o + i) - (o + r)) = s + 1 + i + e
<1> QED OBVIOUS

-----------------------------------------------------------------------------
LEMMA InitInv == LoadInit => Inv
<1> SUFFICES ASSUME LoadInit PROVE Inv
  OBVIOUS
<1>1. Start \in Nat /\ Len(File) \in Nat /\ Start <= Len(File)
  BY LoadAssumption, FileAssumption
<1>2. LoadTypeOK
  BY <1>1, LoadAssumption DEF LoadInit, LoadTypeOK, Blank, Uninit, Addr
<1>3. Types
  BY <1>2 DEF LoadInit, Types, Blank, Uninit, Cleared
<1> QED BY <1>3 DEF LoadInit, Inv, Arguments, Reading, Returned

LEMMA ReadSomeKeepsInv ==
  ASSUME Inv, read_some
  PROVE  Inv'
<1>1. PICK n \in Given(len - bytes_read) :
        /\ buf' = Received(buf, offset + bytes_read, n)
        /\ bytes_read' = bytes_read + n
        /\ pos' = pos + n
  BY DEF read_some
<1>2. /\ at = "reading" /\ ret = 0 /\ LoopTest
      /\ UNCHANGED <<fd, offset, len, errors>>
  BY DEF read_some, Inv, Reading
<1>3. /\ offset \in Nat /\ len \in Nat /\ bytes_read \in Nat /\ bytes_read <= len
      /\ LastAddr \in Nat /\ offset + len <= LastAddr + 1
      /\ errors \in 0..MaxErrors /\ errors \in Nat /\ Start \in Nat
      /\ pos \in Start..Len(File) /\ pos = Start + bytes_read + errors
  BY <1>2, LoadAssumption DEF Inv, Types, LoadTypeOK, Arguments, Reading, Addr
<1>4. /\ n \in Nat /\ bytes_read + n \in Nat /\ bytes_read + n <= len
      /\ pos + n \in Start..Len(File)
      /\ pos + n = Start + (bytes_read + n) + errors
  <2>1. len - bytes_read \in Nat
    BY <1>3
  <2>2. n \in Nat /\ n <= len - bytes_read /\ pos + n \in Start..Len(File)
    BY <2>1, <1>3, GivenRange
  <2> QED BY <2>2, <1>3
<1>5. buf \in [Addr -> Int] /\ buf \in [Addr -> 0..255 \cup {Uninit}]
  BY DEF Inv, Types, LoadTypeOK
<1>6. /\ DOMAIN buf' = Addr
      /\ \A a \in Addr :
           /\ a \in (offset + bytes_read)..(offset + bytes_read + n - 1) =>
                /\ buf'[a] = File[pos + 1 + (a - (offset + bytes_read))]
                /\ buf'[a] \in 0..255
           /\ a \notin (offset + bytes_read)..(offset + bytes_read + n - 1) =>
                buf'[a] = buf[a]
  <2>1. offset + bytes_read \in Int /\ DOMAIN buf = Addr /\ \A a \in Addr : a \in Int
    BY <1>3, <1>5 DEF Addr
  <2> QED BY <2>1, <1>1, <1>3, <1>4, <1>5, ReceivedBytes
<1>7. buf' \in [Addr -> 0..255 \cup {Uninit}] /\ buf' \in [Addr -> Int]
  <2>1. buf' = [a \in Addr |-> buf'[a]]
    BY <1>1, <1>5 DEF Received
  <2>2. \A a \in Addr : buf'[a] \in 0..255 \cup {Uninit}
    BY <1>5, <1>6
  <2>3. \A x \in 0..255 \cup {Uninit} : x \in Int
    BY DEF Uninit
  <2> QED BY <2>1, <2>2, <2>3
<1>8. FromFile(buf', bytes_read', errors)
  <2> SUFFICES ASSUME NEW i \in 0..(bytes_read' - 1)
               PROVE  \E d \in 0..errors : buf'[offset + i] = File[Start + 1 + i + d]
    BY DEF FromFile
  <2>0. i \in 0..(bytes_read + n - 1)
    <3>1. bytes_read' = bytes_read + n
      BY <1>1
    <3> QED BY <3>1, <1>3, <1>4
  <2>1. i \in Nat /\ i < len /\ offset + i \in Addr
    BY <2>0, <1>3, <1>4 DEF Addr
  <2>2. CASE i < bytes_read
    <3>1. offset + i \notin (offset + bytes_read)..(offset + bytes_read + n - 1)
      BY <2>1, <2>2, <1>3, <1>4
    <3>2. i \in 0..(bytes_read - 1)
      BY <2>1, <2>2, <1>3
    <3> QED BY <3>1, <3>2, <2>1, <1>2, <1>6 DEF Inv, Reading, FromFile
  <2>3. CASE ~(i < bytes_read)
    <3>1. offset + i \in (offset + bytes_read)..(offset + bytes_read + n - 1)
      BY <2>0, <2>1, <2>3, <1>3, <1>4
    <3>2. buf'[offset + i] = File[pos + 1 + ((offset + i) - (offset + bytes_read))]
      BY <3>1, <2>1, <1>6
    <3>3. pos + 1 + ((offset + i) - (offset + bytes_read)) = Start + 1 + i + errors
      BY <2>1, <2>3, <1>3, ErrorShift
    <3>4. errors \in 0..errors
      BY <1>3
    <3> QED BY <3>2, <3>3, <3>4
  <2> QED BY <2>2, <2>3
<1>9. CASE UNCHANGED <<mem, at, ret>>
  <2>1. Types'
    BY <1>1, <1>2, <1>3, <1>4, <1>7, <1>9 DEF Inv, Types, LoadTypeOK
  <2>2. Reading'
    BY <1>1, <1>2, <1>3, <1>4, <1>8, <1>9 DEF Inv, Reading, FromFile
  <2> QED BY <2>1, <2>2, <1>2, <1>9 DEF Inv, Arguments, Returned
<1>10. CASE mem' = Loaded /\ Return(len) /\ bytes_read' = len
  <2>1. at' = "returned" /\ ret' = len
    BY <1>10 DEF Return
  <2>2. mem' \in [Addr -> Int]
    BY <1>7, <1>10 DEF Inv, Types, Loaded
  <2>3. Types'
    BY <2>1, <2>2, <1>1, <1>2, <1>3, <1>4, <1>7 DEF Inv, Types, LoadTypeOK
  <2>4. ASSUME NEW i \in 0..(len - 1)
        PROVE  mem'[offset + i] = buf'[offset + i]
    <3>1. offset + i \in Addr /\ offset + i \in offset..(offset + len - 1)
      BY <1>3 DEF Addr
    <3> QED BY <3>1, <1>10 DEF Loaded
  <2>5. FromFile(mem', len, errors)
    BY <2>4, <1>8, <1>10 DEF FromFile
  <2> QED BY <2>1, <2>3, <2>5, <1>2, <1>3 DEF Inv, Arguments, Reading, Returned, FromFile
<1> QED BY <1>2, <1>9, <1>10 DEF LoopTest

LEMMA ReadErrorKeepsInv ==
  ASSUME Inv, read_error
  PROVE  Inv'
<1>1. /\ at = "reading" /\ ret = 0 /\ errors < MaxErrors
      /\ errors' = errors + 1 /\ bytes_read' = bytes_read - 1
      /\ UNCHANGED <<fd, offset, len, pos>>
  BY DEF read_error, Inv, Reading
<1>2. /\ bytes_read \in Nat /\ len \in Nat /\ errors \in Nat /\ MaxErrors \in Nat
      /\ Start \in Nat /\ bytes_read <= len /\ pos = Start + bytes_read + errors
      /\ offset + len <= LastAddr + 1
  BY <1>1, LoadAssumption DEF Inv, Types, LoadTypeOK, Arguments, Reading, Addr
<1>3. CASE bytes_read' < 0
  <2>1. at' = "returned" /\ ret' = -1 /\ UNCHANGED <<mem, buf>>
    BY <1>3 DEF read_error, Return
  <2>2. errors' \in 0..MaxErrors /\ bytes_read' \in Int /\ bytes_read' <= len
    BY <1>1, <1>2
  <2> QED BY <1>1, <2>1, <2>2 DEF Inv, Types, LoadTypeOK, Arguments, Reading, Returned
<1>4. CASE ~(bytes_read' < 0)
  <2>1. bytes_read' \in Nat /\ bytes_read' # len /\ bytes_read' <= len
    BY <1>1, <1>2, <1>4
  <2>2. UNCHANGED <<mem, at, ret, buf>>
    BY <1>4, <2>1 DEF read_error, LoopTest
  <2>3. errors' \in 0..MaxErrors /\ pos = Start + bytes_read' + errors'
    BY <1>1, <1>2
  <2>4. FromFile(buf, bytes_read', errors')
    <3>1. \A i \in 0..(bytes_read' - 1) : i \in 0..(bytes_read - 1)
      BY <1>1, <1>2
    <3>2. \A d \in 0..errors : d \in 0..errors'
      BY <1>1, <1>2
    <3> QED BY <3>1, <3>2, <1>1 DEF Inv, Reading, FromFile
  <2> QED BY <1>1, <2>1, <2>2, <2>3, <2>4
          DEF Inv, Types, LoadTypeOK, Arguments, Reading, Returned, FromFile
<1> QED BY <1>3, <1>4

LEMMA NextKeepsInv == Inv /\ [sfot_load]_load_vars => Inv'
<1> SUFFICES ASSUME Inv, [sfot_load]_load_vars PROVE Inv'
  OBVIOUS
<1>1. CASE refuse
  BY <1>1 DEF refuse, Return, Inv, Types, LoadTypeOK, Arguments, Reading, Returned
<1>2. CASE accept
  <2>1. /\ at = "called" /\ at' = "reading" /\ offset + len <= LastAddr + 1
        /\ UNCHANGED <<fd, offset, len, pos, errors, bytes_read, buf, mem, ret>>
    BY <1>2 DEF accept
  <2>2. Types' /\ Arguments' /\ Returned'
    BY <2>1 DEF Inv, Types, LoadTypeOK, Arguments, Returned
  <2>3. /\ bytes_read = 0 /\ errors = 0 /\ pos = Start /\ Start \in Nat
    BY <2>1, LoadAssumption DEF Inv, Reading
  <2>4. FromFile(buf, 0, 0)
    BY DEF FromFile
  <2> QED BY <2>1, <2>2, <2>3, <2>4 DEF Inv, Reading, FromFile
<1>3. CASE read_some
  BY <1>3, ReadSomeKeepsInv
<1>4. CASE read_error
  BY <1>4, ReadErrorKeepsInv
<1>5. CASE UNCHANGED load_vars
  BY <1>5 DEF load_vars, Inv, Types, LoadTypeOK, Arguments, Reading, Returned, FromFile
<1> QED BY <1>1, <1>2, <1>3, <1>4, <1>5 DEF sfot_load

LEMMA Invariance == LoadSpec => []Inv
<1> QED BY InitInv, NextKeepsInv, PTL DEF LoadSpec

\* The count never passes the length asked for, nor the position the end of the
\* file, and the buffer holds bytes.
THEOREM LoadTypeCorrect == LoadSpec => []LoadTypeOK
<1>1. Inv => LoadTypeOK
  BY DEF Inv, Types
<1> QED BY <1>1, Invariance, PTL

\* Each error of read() makes the count of sfot_load() one byte too small.
THEOREM CountBehindErrors == LoadSpec => []CountsErrors
<1>1. Inv => CountsErrors
  BY DEF Inv, Reading, CountsErrors
<1> QED BY <1>1, Invariance, PTL

\* Whatever read() gives at a time, a load that succeeds has loaded the file,
\* each byte at most as late as there were errors.
THEOREM LoadedFromFile == LoadSpec => []ShiftedByErrors
<1>1. Inv => ShiftedByErrors
  BY DEF Inv, Returned, FromFile, ShiftedByErrors
<1> QED BY <1>1, Invariance, PTL

\* The memory changes only at the return of a load that succeeds, and only where
\* it was asked to.
THEOREM LoadIsAtomic == LoadSpec => AllOrNothing
<1>1. Inv /\ [sfot_load]_load_vars =>
        [mem' # mem =>
           /\ at' = "returned" /\ ret' = len
           /\ \A a \in Addr : mem'[a] # mem[a] => a \in offset..(offset + len - 1)]_load_vars
  <2> SUFFICES ASSUME Inv, sfot_load, mem' # mem
               PROVE  /\ at' = "returned" /\ ret' = len
                      /\ \A a \in Addr : mem'[a] # mem[a] => a \in offset..(offset + len - 1)
    OBVIOUS
  <2>1. LoopTest
    BY DEF sfot_load, refuse, accept, read_some, read_error
  <2>2. mem' = Loaded /\ Return(len)
    BY <2>1 DEF LoopTest
  <2> QED BY <2>2 DEF Loaded, Return
<1> QED BY <1>1, Invariance, PTL DEF LoadSpec, AllOrNothing

-----------------------------------------------------------------------------
(* main() of simplenes and PPU_load().                                      *)

Vram == 0..(VramSize - 1)

NesTypes ==
  /\ main \in {"loads_program", "loads_vrom", "in_PPU_load", "runs", "failed"}
  /\ main # "loads_program" => at = "returned"
  /\ vram \in [Vram -> Int]
  /\ ppu_read \in Int /\ ppu_first \in Int /\ ppu_errors \in Nat

\* memory[] up to a count of n: what was in front of the count at the call, less
\* one byte for each error, is as it was, and behind it is the file.
VramFilled(n) ==
  \A i \in Vram :
    /\ i < ppu_first - ppu_errors => vram[i] = 0
    /\ ppu_first <= i /\ i < n =>
         \E d \in 0..ppu_errors : vram[i] = File[VromStart + 1 + (i - ppu_first) + d]

NotCalled ==
  main \in {"loads_program", "loads_vrom"} =>
    ppu_first = 0 /\ ppu_errors = 0 /\ vram = [i \in Vram |-> 0]

\* Each error of read() makes the count of PPU_load() one byte too small, as it
\* does that of sfot_load().
Filling ==
  CountInside =>
    /\ ~outside
    /\ main = "in_PPU_load" =>
         /\ ppu_read \in 0..VramSize /\ ppu_first - ppu_errors <= ppu_read
         /\ pos = VromStart + (ppu_read - ppu_first) + ppu_errors
         /\ VramFilled(ppu_read)
    /\ main = "runs" => VramFilled(VramSize)

\* The loading of the program, with the arguments of main(), leaves the file at
\* VromStart.
Positioned ==
  /\ fd = 3 /\ offset = PrgOffset /\ len = PrgLen
  /\ main = "loads_program" => at # "returned"
  /\ main = "loads_vrom" => pos = VromStart

NesInv == Inv /\ NesTypes /\ NotCalled /\ Positioned /\ Filling

LEMMA NesInitInv == NesInit => NesInv
<1> SUFFICES ASSUME NesInit PROVE NesInv
  OBVIOUS
<1>1. LoadInit
  BY NesAssumption DEF NesInit, LoadInit
<1>2. ~outside
  BY DEF NesInit
<1>3. NesTypes /\ NotCalled
  BY DEF NesInit, NesTypes, NotCalled, Vram
<1>4. Positioned
  BY DEF NesInit, Positioned
<1>5. Filling
  BY <1>2 DEF NesInit, Filling
<1> QED BY <1>1, <1>3, <1>4, <1>5, InitInv DEF NesInv

\* A step that leaves the call of sfot_load() alone, once it has returned, keeps
\* its invariant wherever it moves in the file.
LEMMA FileMoved ==
  ASSUME Inv, at = "returned", pos' \in Start..Len(File),
         UNCHANGED <<fd, offset, len, errors, bytes_read, buf, mem, at, ret>>
  PROVE  Inv'
<1> QED BY DEF Inv, Types, LoadTypeOK, Arguments, Reading, Returned, FromFile

\* The end of the loop of PPU_load(): it goes on, succeeds or fails.
LEMMA PpuLoopEnds ==
  ASSUME main = "in_PPU_load", PPU_loop_test, ppu_read' \in Int
  PROVE  /\ main' \in {"in_PPU_load", "runs", "failed"}
         /\ main' = "in_PPU_load" => ppu_read' >= 0
         /\ main' = "runs" => ppu_read' = VramSize
<1> QED BY NesAssumption DEF PPU_loop_test, PPU_return

\* A step of PPU_load() leaves what the loading of the program has left.
LEMMA VromStartKept ==
  ASSUME UNCHANGED <<ret, errors>>
  PROVE  VromStart' = VromStart
<1> QED BY DEF VromStart

LEMMA VromStartType ==
  ASSUME Inv
  PROVE  VromStart \in Int
<1>1. Start \in Int /\ errors \in Int /\ PrgLen \in Int /\ ret \in Int
  BY LoadAssumption, NesAssumption DEF Inv, Types, LoadTypeOK, Addr
<1> QED BY <1>1 DEF VromStart

\* sfot_load() returns to main() with the file at VromStart: at the end of the
\* program and the errors, or where an error found nothing loaded yet.
LEMMA ProgramLoadReturns ==
  ASSUME Inv, Positioned, at # "returned", sfot_load, at' = "returned"
  PROVE  pos' = VromStart'
<1>1. /\ fd = 3 /\ offset = PrgOffset /\ len = PrgLen /\ PrgLen \in Nat
      /\ Start \in Nat /\ errors \in Nat
      /\ PrgOffset + PrgLen <= LastAddr + 1 /\ LastAddr \in Nat /\ PrgOffset \in Nat
      /\ at = "reading" =>
           bytes_read \in Nat /\ bytes_read <= PrgLen /\ pos = Start + bytes_read + errors
  BY LoadAssumption, NesAssumption DEF Inv, Types, LoadTypeOK, Reading, Positioned, Addr
<1>2. ~refuse /\ ~accept
  <2>1. ~refuse
    BY <1>1 DEF refuse
  <2>2. ~accept
    BY DEF accept
  <2> QED BY <2>1, <2>2
<1>3. CASE read_some
  <2>1. PICK n \in Given(len - bytes_read) :
          bytes_read' = bytes_read + n /\ pos' = pos + n
    BY <1>3 DEF read_some
  <2>2. /\ at = "reading" /\ LoopTest /\ errors' = errors
    BY <1>3 DEF read_some
  <2>3. n \in Nat
    <3>1. len - bytes_read \in Nat
      BY <1>1, <2>2
    <3>2. pos \in Start..Len(File)
      BY DEF Inv, Types, LoadTypeOK
    <3> QED BY <3>1, <3>2, GivenRange
  <2>4. bytes_read' = PrgLen /\ ret' = PrgLen
    BY <1>1, <2>2 DEF LoopTest, Return
  <2>5. pos' = Start + PrgLen + errors
    BY <1>1, <2>1, <2>2, <2>3, <2>4
  <2>6. VromStart' = Start + (PrgLen + errors)
    BY <1>1, <2>2, <2>4 DEF VromStart
  <2> QED BY <1>1, <2>5, <2>6
<1>4. CASE read_error
  <2>1. /\ at = "reading" /\ errors' = errors + 1 /\ bytes_read' = bytes_read - 1
        /\ pos' = pos
    BY <1>4 DEF read_error
  <2>2. bytes_read' < 0
    <3>1. CASE ~(bytes_read' < 0)
      <4>1. LoopTest /\ bytes_read' # len
        BY <1>1, <1>4, <2>1, <3>1 DEF read_error
      <4> QED BY <4>1, <2>1 DEF LoopTest
    <3> QED BY <3>1
  <2>3. ret' = -1
    BY <1>4, <2>2 DEF read_error, Return
  <2>4. bytes_read = 0
    BY <1>1, <2>1, <2>2
  <2>5. VromStart' = Start + (errors' - 1)
    BY <2>3 DEF VromStart
  <2> QED BY <1>1, <2>1, <2>4, <2>5
<1> QED BY <1>2, <1>3, <1>4 DEF sfot_load

LEMMA PpuReadKeepsInv ==
  ASSUME NesInv, PPU_read_some
  PROVE  NesInv'
<1>1. PICK n \in Given(PPU_count) :
        /\ vram' = Received(vram, ppu_read, n)
        /\ outside' = (outside \/ Outside(ppu_read, n))
        /\ ppu_read' = ppu_read + n
        /\ pos' = pos + n
  BY DEF PPU_read_some
<1>2. /\ main = "in_PPU_load" /\ PPU_loop_test /\ at = "returned"
      /\ UNCHANGED <<fd, offset, len, errors, bytes_read, buf, mem, at, ret,
                     ppu_first, ppu_errors>>
      /\ VromStart' = VromStart
  BY VromStartKept DEF PPU_read_some, NesInv, NesTypes
<1>3. /\ VramSize \in Nat \ {0} /\ ppu_read \in Int /\ ppu_first \in Int
      /\ VromStart \in Int /\ ppu_errors \in Nat /\ vram \in [Vram -> Int]
      /\ pos \in Start..Len(File) /\ pos \in Nat
  BY NesAssumption, LoadAssumption, VromStartType DEF NesInv, NesTypes, Inv, Types, LoadTypeOK
<1>4. PPU_count \in Nat
  BY <1>3, FileAssumption DEF PPU_count
<1>5. n \in Nat /\ n <= PPU_count /\ pos + n \in Start..Len(File)
  BY <1>3, <1>4, GivenRange
<1>6. /\ DOMAIN vram' = Vram
      /\ \A i \in Vram :
           /\ i \in ppu_read..(ppu_read + n - 1) =>
                vram'[i] = File[pos + 1 + (i - ppu_read)] /\ vram'[i] \in 0..255
           /\ i \notin ppu_read..(ppu_read + n - 1) => vram'[i] = vram[i]
  <2>1. DOMAIN vram = Vram /\ \A i \in Vram : i \in Int
    BY <1>3 DEF Vram
  <2> QED BY <2>1, <1>1, <1>3, <1>5, ReceivedBytes
<1>7. vram' \in [Vram -> Int]
  <2>1. vram' = [i \in Vram |-> vram'[i]]
    <3>1. vram' = Received(vram, ppu_read, n) /\ DOMAIN vram = Vram
      BY <1>1, <1>3
    <3> QED BY <3>1 DEF Received
  <2>2. ASSUME NEW i \in Vram PROVE vram'[i] \in Int
    <3>1. CASE i \in ppu_read..(ppu_read + n - 1)
      BY <3>1, <1>6
    <3>2. CASE i \notin ppu_read..(ppu_read + n - 1)
      BY <3>2, <1>3, <1>6
    <3> QED BY <3>1, <3>2
  <2> QED BY <2>1, <2>2
<1>8. /\ ppu_read' \in Int /\ main' \in {"in_PPU_load", "runs", "failed"}
      /\ main' = "in_PPU_load" => ppu_read' >= 0
      /\ main' = "runs" => ppu_read' = VramSize
  <2>1. ppu_read' \in Int
    BY <1>1, <1>3, <1>5
  <2> QED BY <2>1, <1>2, PpuLoopEnds
<1>9. Inv'
  BY <1>1, <1>2, <1>5, FileMoved DEF NesInv
<1>10. NesTypes' /\ NotCalled' /\ Positioned'
  BY <1>2, <1>3, <1>7, <1>8 DEF NesInv, NesTypes, NotCalled, Positioned
<1>11. Filling'
  <2> SUFFICES ASSUME ppu_first \in 0..VramSize
               PROVE  /\ ~outside' /\ ppu_read' \in 0..VramSize
                      /\ ppu_first - ppu_errors <= ppu_read'
                      /\ pos' = VromStart + (ppu_read' - ppu_first) + ppu_errors
                      /\ \A i \in Vram :
                           /\ i < ppu_first - ppu_errors => vram'[i] = 0
                           /\ ppu_first <= i /\ i < ppu_read' =>
                                \E d \in 0..ppu_errors :
                                  vram'[i] = File[VromStart + 1 + (i - ppu_first) + d]
    <3>1. CountInside' => ppu_first \in 0..VramSize
      BY <1>2 DEF CountInside
    <3> QED BY <3>1, <1>2, <1>8 DEF Filling, VramFilled
  <2>1. /\ ~outside /\ ppu_read \in 0..VramSize /\ ppu_first - ppu_errors <= ppu_read
        /\ pos = VromStart + (ppu_read - ppu_first) + ppu_errors
        /\ VramFilled(ppu_read)
    BY <1>2 DEF NesInv, Filling, CountInside
  <2>2. ppu_read + n <= VramSize
    BY <1>3, <1>5, <2>1 DEF PPU_count
  <2>3. /\ ~outside' /\ ppu_read' \in 0..VramSize
        /\ ppu_first - ppu_errors <= ppu_read'
        /\ pos' = VromStart + (ppu_read' - ppu_first) + ppu_errors
    <3>1. ~Outside(ppu_read, n)
      BY <1>3, <1>5, <2>1, <2>2 DEF Outside
    <3>2. ppu_read + n \in 0..VramSize
      BY <1>3, <1>5, <2>1, <2>2
    <3>3. ppu_first - ppu_errors <= ppu_read + n
      BY <1>3, <1>5, <2>1
    <3>4. pos + n = VromStart + ((ppu_read + n) - ppu_first) + ppu_errors
      BY <1>3, <1>5, <2>1
    <3> QED BY <1>1, <2>1, <3>1, <3>2, <3>3, <3>4
  <2>4. ASSUME NEW i \in Vram, i < ppu_first - ppu_errors
        PROVE  vram'[i] = 0
    <3>1. i \notin ppu_read..(ppu_read + n - 1)
      BY <1>3, <1>5, <2>1, <2>4 DEF Vram
    <3> QED BY <3>1, <1>6, <2>1, <2>4 DEF VramFilled
  <2>5. ASSUME NEW i \in Vram, ppu_first <= i, i < ppu_read'
        PROVE  \E d \in 0..ppu_errors :
                 vram'[i] = File[VromStart + 1 + (i - ppu_first) + d]
    <3>1. i \in Nat /\ i < ppu_read + n
      BY <1>1, <1>3, <2>5 DEF Vram
    <3>2. CASE i < ppu_read
      <4>1. i \notin ppu_read..(ppu_read + n - 1)
        BY <1>3, <1>5, <3>1, <3>2
      <4> QED BY <4>1, <3>2, <1>6, <2>1, <2>5 DEF VramFilled
    <3>3. CASE ~(i < ppu_read)
      <4>1. i \in ppu_read..(ppu_read + n - 1)
        BY <1>3, <1>5, <3>1, <3>3
      <4>2. vram'[i] = File[pos + 1 + (i - ppu_read)]
        BY <4>1, <1>6
      <4>3. pos + 1 + (i - ppu_read) = VromStart + 1 + (i - ppu_first) + ppu_errors
        BY <1>3, <2>1, <3>1
      <4>4. ppu_errors \in 0..ppu_errors
        BY <1>3
      <4> QED BY <4>2, <4>3, <4>4
    <3> QED BY <3>2, <3>3
  <2> QED BY <2>3, <2>4, <2>5
<1> QED BY <1>9, <1>10, <1>11 DEF NesInv

LEMMA PpuErrorKeepsInv ==
  ASSUME NesInv, PPU_read_error
  PROVE  NesInv'
<1>1. /\ main = "in_PPU_load" /\ PPU_loop_test
      /\ ppu_errors' = ppu_errors + 1 /\ ppu_read' = ppu_read - 1
      /\ UNCHANGED <<load_vars, ppu_first, vram, outside>>
      /\ VromStart' = VromStart
  BY VromStartKept DEF PPU_read_error, load_vars
<1>2. /\ VramSize \in Nat \ {0} /\ ppu_read \in Int /\ ppu_first \in Int
      /\ VromStart \in Int /\ ppu_errors \in Nat /\ pos \in Nat
      /\ at = "returned"
  BY <1>1, NesAssumption, LoadAssumption, VromStartType DEF NesInv, NesTypes, Inv, Types, LoadTypeOK
<1>3. /\ ppu_read' \in Int /\ main' \in {"in_PPU_load", "runs", "failed"}
      /\ main' = "in_PPU_load" => ppu_read' >= 0
      /\ main' = "runs" => ppu_read' = VramSize
  <2>1. ppu_read' \in Int
    BY <1>1, <1>2
  <2> QED BY <2>1, <1>1, PpuLoopEnds
<1>4. Inv'
  BY <1>1 DEF load_vars, NesInv, Inv, Types, LoadTypeOK, Arguments, Reading, Returned, FromFile
<1>5. NesTypes' /\ NotCalled' /\ Positioned'
  <2>1. /\ ppu_errors' \in Nat /\ at' = "returned"
        /\ UNCHANGED <<vram, fd, offset, len>>
    BY <1>1, <1>2 DEF load_vars
  <2> QED BY <2>1, <1>1, <1>2, <1>3 DEF NesInv, NesTypes, NotCalled, Positioned
<1>6. Filling'
  <2> SUFFICES ASSUME ppu_first \in 0..VramSize
               PROVE  /\ ~outside /\ main' # "runs"
                      /\ main' = "in_PPU_load" => ppu_read' \in 0..VramSize
                      /\ ppu_first - ppu_errors' <= ppu_read'
                      /\ pos = VromStart + (ppu_read' - ppu_first) + ppu_errors'
                      /\ VramFilled(ppu_read)'
    <3>1. CountInside' => ppu_first \in 0..VramSize
      BY <1>1 DEF load_vars, CountInside
    <3>2. UNCHANGED <<pos, ppu_first, outside>> /\ VromStart' = VromStart
      BY <1>1 DEF load_vars
    <3> QED BY <3>1, <3>2 DEF Filling
  <2>1. /\ ~outside /\ ppu_read \in 0..VramSize /\ ppu_first - ppu_errors <= ppu_read
        /\ pos = VromStart + (ppu_read - ppu_first) + ppu_errors
        /\ VramFilled(ppu_read)
    BY <1>1 DEF NesInv, Filling, CountInside
  <2>2. ppu_read' # VramSize /\ ppu_read' <= VramSize
    BY <1>1, <1>2, <2>1
  <2>3. /\ ppu_first - ppu_errors' <= ppu_read'
        /\ pos = VromStart + (ppu_read' - ppu_first) + ppu_errors'
    BY <1>1, <1>2, <2>1
  <2>4. VramFilled(ppu_read)'
    <3> SUFFICES ASSUME NEW i \in Vram
                 PROVE  /\ i < ppu_first - ppu_errors' => vram[i] = 0
                        /\ ppu_first <= i /\ i < ppu_read' =>
                             \E d \in 0..ppu_errors' :
                               vram[i] = File[VromStart + 1 + (i - ppu_first) + d]
      <4>1. UNCHANGED <<ppu_first, vram>> /\ VromStart' = VromStart
        BY <1>1
      <4> QED BY <4>1 DEF VramFilled
    <3>1. i < ppu_first - ppu_errors' => i < ppu_first - ppu_errors
      BY <1>1, <1>2 DEF Vram
    <3>2. i < ppu_read' => i < ppu_read
      BY <1>1, <1>2 DEF Vram
    <3>3. \A d \in 0..ppu_errors : d \in 0..ppu_errors'
      BY <1>1, <1>2
    <3> QED BY <2>1, <3>1, <3>2, <3>3 DEF VramFilled
  <2>5. main' = "in_PPU_load" => ppu_read' \in 0..VramSize
    BY <1>1, <1>2, <1>3, <2>2
  <2> QED BY <1>3, <2>1, <2>2, <2>3, <2>4, <2>5
<1> QED BY <1>4, <1>5, <1>6 DEF NesInv

LEMMA NesNextInv == NesInv /\ [NesNext]_nes_vars => NesInv'
<1> SUFFICES ASSUME NesInv, [NesNext]_nes_vars PROVE NesInv'
  OBVIOUS
<1>1. CASE main_sfot_load
  <2>1. /\ main = "loads_program" /\ sfot_load /\ UNCHANGED ppu_vars
        /\ main' = IF at' = "returned" THEN "loads_vrom" ELSE main
    BY <1>1 DEF main_sfot_load
  <2>2. Inv'
    BY <2>1, NextKeepsInv DEF NesInv
  <2>3. NesTypes' /\ NotCalled'
    BY <2>1 DEF ppu_vars, NesInv, NesTypes, NotCalled
  <2>4. Filling'
    BY <2>1 DEF ppu_vars, NesInv, Filling, CountInside
  <2>5. UNCHANGED <<fd, offset, len>>
    BY <2>1 DEF sfot_load, refuse, accept, read_some, read_error
  <2>6. Positioned'
    <3>1. at # "returned"
      BY <2>1 DEF NesInv, Positioned
    <3>2. main' = "loads_vrom" => pos' = VromStart'
      BY <2>1, <3>1, ProgramLoadReturns DEF NesInv
    <3> QED BY <2>1, <2>5, <3>2 DEF NesInv, Positioned
  <2> QED BY <2>2, <2>3, <2>4, <2>6 DEF NesInv
<1>2. CASE PPU_load_call
  <2>1. /\ main = "loads_vrom" /\ main' = "in_PPU_load"
        /\ ppu_first' \in Int /\ ppu_read' = ppu_first'
        /\ pos = VromStart /\ VromStart' = VromStart
        /\ UNCHANGED <<load_vars, vram, outside, ppu_errors>>
    BY <1>2, NesAssumption, VromStartKept DEF PPU_load_call, load_vars, NesInv, Positioned
  <2>2. /\ ppu_errors = 0 /\ vram = [i \in Vram |-> 0] /\ at = "returned"
        /\ pos \in Nat /\ VramSize \in Nat /\ ~outside
    BY <2>1, NesAssumption, LoadAssumption
       DEF NesInv, NotCalled, Filling, CountInside, NesTypes, Inv, Types, LoadTypeOK
  <2>3. Inv'
    BY <2>1 DEF load_vars, NesInv, Inv, Types, LoadTypeOK, Arguments, Reading, Returned, FromFile
  <2>4. NesTypes' /\ NotCalled' /\ Positioned'
    BY <2>1, <2>2 DEF load_vars, NesInv, NesTypes, NotCalled, Positioned
  <2>5. Filling'
    <3>1. VramFilled(ppu_read)'
      BY <2>1, <2>2 DEF VramFilled, Vram
    <3>2. /\ ppu_first' - ppu_errors' <= ppu_read'
          /\ pos = pos + (ppu_read' - ppu_first') + ppu_errors'
      <4>1. \A k \in Int, p \in Nat : k - 0 <= k /\ p = p + (k - k) + 0
        OBVIOUS
      <4> QED BY <2>1, <2>2, <4>1
    <3> QED BY <2>1, <2>2, <3>1, <3>2 DEF load_vars, Filling, CountInside
  <2> QED BY <2>3, <2>4, <2>5 DEF NesInv
<1>3. CASE PPU_read_some
  BY <1>3, PpuReadKeepsInv
<1>4. CASE PPU_read_error
  BY <1>4, PpuErrorKeepsInv
<1>5. CASE UNCHANGED nes_vars
  <2>1. Inv'
    BY <1>5, NextKeepsInv DEF nes_vars, NesInv
  <2>2. NesTypes' /\ NotCalled' /\ Positioned' /\ Filling'
    BY <1>5, VromStartKept DEF Positioned, nes_vars, load_vars, ppu_vars, NesInv, NesTypes, NotCalled, Filling,
                CountInside, VramFilled
  <2> QED BY <2>1, <2>2 DEF NesInv
<1> QED BY <1>1, <1>2, <1>3, <1>4, <1>5 DEF NesNext

LEMMA NesInvariance == NesSpec => []NesInv
<1> QED BY NesInitInv, NesNextInv, PTL DEF NesSpec

\* What main() of simplenes has loaded of the program is the file, each byte at
\* most as late as read() has failed, whatever PPU_load() does after it.
THEOREM ProgramFromFile == NesSpec => []ShiftedByErrors
<1>1. NesInv => ShiftedByErrors
  BY DEF NesInv, Inv, Returned, FromFile, ShiftedByErrors
<1> QED BY <1>1, NesInvariance, PTL

\* A VROM of any size: where PPU_load() starts from a count inside memory[], it
\* stores nothing outside, and fills all behind the count with the file, from the
\* place on where the loading of the program, in success or in failure, left it.
THEOREM VromBehindCount == NesSpec => []LoadsBehindCount
<1>1. NesInv => LoadsBehindCount
  <2> SUFFICES ASSUME NesInv, CountInside
               PROVE  /\ ~outside
                      /\ main = "runs" =>
                           \A i \in Vram :
                             \/ i < ppu_first - ppu_errors /\ vram[i] = 0
                             \/ i \in (ppu_first - ppu_errors)..(ppu_first - 1)
                             \/ i >= ppu_first /\ \E d \in 0..ppu_errors :
                                  vram[i] = File[VromStart + 1 + (i - ppu_first) + d]
    BY DEF LoadsBehindCount, Vram
  <2>1. ~outside /\ (main = "runs" => VramFilled(VramSize))
    BY DEF NesInv, Filling
  <2>2. ASSUME main = "runs", NEW i \in Vram
        PROVE  \/ i < ppu_first - ppu_errors /\ vram[i] = 0
               \/ i \in (ppu_first - ppu_errors)..(ppu_first - 1)
               \/ i >= ppu_first /\ \E d \in 0..ppu_errors :
                    vram[i] = File[VromStart + 1 + (i - ppu_first) + d]
    <3>1. /\ i \in Int /\ i < VramSize /\ ppu_first \in Int /\ ppu_errors \in Nat
      BY NesAssumption DEF Vram, NesInv, NesTypes
    <3>2. \/ i < ppu_first - ppu_errors
          \/ i \in (ppu_first - ppu_errors)..(ppu_first - 1)
          \/ ppu_first <= i
      BY <3>1
    <3> QED BY <2>1, <2>2, <3>1, <3>2 DEF VramFilled
  <2> QED BY <2>1, <2>2
<1> QED BY <1>1, NesInvariance, PTL

=============================================================================
