----------------------------- MODULE VramPort -----------------------------
(***************************************************************************)
(* What the memory registers of the PPU promise a program: a window on the *)
(* VRAM.  Bytes written to the address register set the page and the place *)
(* in it in turns; bytes written to and read from the data register go     *)
(* there, and the window moves on, around the end of the VRAM to its       *)
(* start.  The first read after an address byte has no answer yet.         *)
(***************************************************************************)
EXTENDS Integers

CONSTANTS PageSize, Pages, Stride, Data

VARIABLES
  vram,   \* the memory, a byte at each <<page, place>>
  page, place,
  next,   \* the part of the address that the next address byte is
  step,   \* how far the window moves
  empty,  \* has the read buffer no answer?
  out     \* the answer to the last access

vars == <<vram, page, place, next, step, empty, out>>

MoveOn ==
  /\ place' = (place + step) % PageSize
  /\ page' = (page + ((place + step) \div PageSize)) % Pages

SetAddress(v) ==
  /\ \/ next = "page"  /\ next' = "place" /\ page' = v % Pages /\ UNCHANGED place
     \/ next = "place" /\ next' = "page"  /\ place' = v        /\ UNCHANGED page
  /\ empty' = TRUE
  /\ UNCHANGED <<vram, step, out>>

Discard ==
  /\ empty
  /\ empty' = FALSE /\ out' = 0
  /\ UNCHANGED <<vram, page, place, next, step>>

Read ==
  /\ ~empty
  /\ out' = vram[<<page, place>>]
  /\ MoveOn
  /\ UNCHANGED <<vram, next, step, empty>>

Write(v) ==
  /\ vram' = [vram EXCEPT ![<<page, place>>] = v]
  /\ MoveOn
  /\ UNCHANGED <<next, step, empty, out>>

SetStep ==
  /\ step' \in {1, Stride}
  /\ UNCHANGED <<vram, page, place, next, empty, out>>

Init ==
  /\ vram = [c \in (0..(Pages - 1)) \X (0..(PageSize - 1)) |-> 0]
  /\ page = 0 /\ place = 0 /\ next = "page"
  /\ step = 1 /\ ~empty /\ out = 0

Next ==
  \/ \E v \in 0..(PageSize - 1) : SetAddress(v)
  \/ Discard \/ Read \/ SetStep
  \/ \E v \in Data : Write(v)

PortSpec == Init /\ [][Next]_vars

=============================================================================
