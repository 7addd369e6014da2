----------------------------- MODULE SfotLoad -----------------------------
(***************************************************************************)
(* sfot_load(): the loop of read() that fills a buffer from a file, and    *)
(* the copy of the buffer into the memory of the machine.  read() may give *)
(* less than was asked for, fail, or be at the end of the file.            *)
(***************************************************************************)
EXTENDS Integers, Sequences, FiniteSetsExt

CONSTANTS
  File,        \* the contents of the file: a sequence of bytes
  Start,       \* where the caller has lseeked to
  LastAddr,    \* the last address of the memory: 0xFFFF
  MaxErrors    \* how often read() may fail

ASSUME FileAssumption == File \in Seq(0..255)
ASSUME LoadAssumption ==
  /\ Start \in 0..Len(File)
  /\ LastAddr \in Nat /\ MaxErrors \in Nat

VARIABLES
  fd, offset, len,   \* the arguments
  pos,               \* the position in the file
  errors,            \* how often read() has failed
  bytes_read, buf,   \* the locals of sfot_load()
  mem,               \* the memory of the machine
  at,                \* where the call is
  ret                \* what it has returned

load_vars == <<fd, offset, len, pos, errors, bytes_read, buf, mem, at, ret>>

Addr    == 0..LastAddr
Uninit  == -1          \* a byte of buf that nothing has been stored to
Cleared == [a \in Addr |-> 0]
Blank   == [a \in Addr |-> Uninit]

\* read(): how many bytes it gives when asked for count, none at the end.
Given(count) ==
  LET most == Min({count, Len(File) - pos}) IN IF most <= 0 THEN {0} ELSE 1..most

\* The n bytes of the file at pos, stored from an index on.
Received(bytes, index, n) ==
  [a \in DOMAIN bytes |->
     IF a \in index..(index + n - 1) THEN File[pos + 1 + (a - index)] ELSE bytes[a]]

Return(value) == at' = "returned" /\ ret' = value

refuse ==
  /\ at = "called"
  /\ fd < 0 \/ offset + len > LastAddr + 1
  /\ Return(-1)
  /\ UNCHANGED <<fd, offset, len, pos, errors, bytes_read, buf, mem>>

accept ==
  /\ at = "called"
  /\ fd >= 0 /\ offset + len <= LastAddr + 1
  /\ at' = "reading"
  /\ UNCHANGED <<fd, offset, len, pos, errors, bytes_read, buf, mem, ret>>

\* The test at the end of the loop; past it, the copy into the memory.
Loaded == [a \in Addr |-> IF a \in offset..(offset + len - 1) THEN buf'[a] ELSE mem[a]]

LoopTest ==
  \/ /\ bytes_read' # len
     /\ UNCHANGED <<mem, at, ret>>
  \/ /\ bytes_read' = len
     /\ mem' = Loaded
     /\ Return(len)

\* Mutants: every read() goes to the start of the buffer; a read() that does
\* not give all is forgotten; the bytes go to the memory as they come.
read_at_start ==
  /\ at = "reading"
  /\ \E n \in Given(len - bytes_read) :
       /\ buf' = Received(buf, offset, n)
       /\ bytes_read' = bytes_read + n
       /\ pos' = pos + n
  /\ LoopTest
  /\ UNCHANGED <<fd, offset, len, errors>>

read_all_at_once ==
  /\ at = "reading"
  /\ \E n \in Given(len) :
       /\ buf' = Received(buf, offset, n)
       /\ bytes_read' = n
       /\ pos' = pos + n
  /\ LoopTest
  /\ UNCHANGED <<fd, offset, len, errors>>

read_to_memory ==
  /\ at = "reading"
  /\ \E n \in Given(len - bytes_read) :
       /\ mem' = Received(mem, offset + bytes_read, n)
       /\ bytes_read' = bytes_read + n
       /\ pos' = pos + n
  /\ IF bytes_read' = len THEN Return(len) ELSE UNCHANGED <<at, ret>>
  /\ UNCHANGED <<fd, offset, len, errors, buf>>

read_some ==
  /\ at = "reading"
  /\ \E n \in Given(len - bytes_read) :
       /\ buf' = Received(buf, offset + bytes_read, n)
       /\ bytes_read' = bytes_read + n
       /\ pos' = pos + n
  /\ LoopTest
  /\ UNCHANGED <<fd, offset, len, errors>>

\* The -1 of a failed read() is added to the count like any other answer, and
\* ends the call only where it makes the count negative.
read_error ==
  /\ at = "reading" /\ errors < MaxErrors
  /\ errors' = errors + 1
  /\ bytes_read' = bytes_read - 1
  /\ IF bytes_read' < 0
     THEN Return(-1) /\ UNCHANGED <<mem, buf>>
     ELSE UNCHANGED buf /\ LoopTest
  /\ UNCHANGED <<fd, offset, len, pos>>

sfot_load == refuse \/ accept \/ read_some \/ read_error

LoadInit ==
  /\ fd \in {-1, 3} /\ offset \in Addr /\ len \in Addr
  /\ pos = Start /\ errors = 0
  /\ bytes_read = 0 /\ buf = Blank
  /\ mem = Cleared
  /\ at = "called" /\ ret = 0

LoadSpec == LoadInit /\ [][sfot_load]_load_vars

\* The loop is alone in its thread and goes on as long as read() returns, which
\* it does for a file.
FairLoadSpec == LoadSpec /\ WF_load_vars(sfot_load)

-----------------------------------------------------------------------------
LoadTypeOK ==
  /\ pos \in Start..Len(File) /\ errors \in 0..MaxErrors
  /\ bytes_read \in Int /\ bytes_read <= len
  /\ buf \in [Addr -> 0..255 \cup {Uninit}]
  /\ at \in {"called", "reading", "returned"}

\* The count of sfot_load() is short of what it has taken from the file by the
\* number of errors, no more and no less.
CountsErrors == at = "reading" => pos = Start + bytes_read + errors

\* What a call that returns len has loaded is the file, in order and nothing
\* else: byte by byte it is at most as many bytes further on in the file as
\* read() has failed.  Without failures, however short the reads, it is the file.
ShiftedByErrors ==
  at = "returned" /\ ret >= 0 =>
    \A i \in 0..(len - 1) :
      \E d \in 0..errors : mem[offset + i] = File[Start + 1 + i + d]

\* The memory changes in one step, with the return of len, and only where the
\* caller asked: a call that fails or that never returns has loaded nothing.
AllOrNothing ==
  [][mem' # mem =>
       /\ at' = "returned" /\ ret' = len
       /\ \A a \in Addr : mem'[a] # mem[a] => a \in offset..(offset + len - 1)]_load_vars

\* A call returns if the file has enough bytes for what was asked for and for
\* those that errors make it take twice.
EnoughFor(n) == Len(File) - Start >= n + MaxErrors

LoadEnds == EnoughFor(len) ~> at = "returned"

=============================================================================
