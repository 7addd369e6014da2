------------------------- MODULE Simple6502Proofs -------------------------
(***************************************************************************)
(* Theorems about SimpleScreen, for a screen of any size and any program,  *)
(* and about SimpleKeys, for any keys pressed in any order.                *)
(***************************************************************************)
EXTENDS SimpleScreen, SimpleKeys, TLAPS

-----------------------------------------------------------------------------
(* The screen.                                                              *)

\* The timer is set as long as the program runs, and the CPU thread draws only
\* in its last refresh.
WhoDraws ==
  /\ armed <=> cpu = "runs"
  /\ drawing["cpu"] # Idle <=> cpu = "refreshes"

\* With the timer at rest, the surface has the picture up to the cell that the
\* CPU thread is at.
Done(n) == \A j \in Cell : j < n => screen[j] = framebuffer[j]

LastRefresh ==
  cpu # "runs" /\ alone =>
    /\ drawing["timer"] = Idle
    /\ \A i \in Cell : drawing["cpu"] = Look(i) => Done(i)
    /\ \A i \in Cell : drawing["cpu"] = Fill(i) => Done(i) /\ rgb["cpu"] = framebuffer[i]
    /\ drawing["cpu"] = Flip => screen = framebuffer
    /\ cpu = "done" => shown = framebuffer

\* The frame buffer is a second copy of the screen's memory: its writers, the hook
\* and main(), give both the same colour.
PictureIsMemory == \A i \in Cell : framebuffer[i] = mem[i] % 16

Inv == TypeOK /\ PictureIsMemory /\ WhoDraws /\ LastRefresh

-----------------------------------------------------------------------------
\* The four bits that screen_memhook() keeps.
LEMMA Colour ==
  ASSUME NEW c \in 0..255
  PROVE  c % 16 \in 0..15 /\ (c % 16) % 16 = c % 16 /\ c % 16 \in 0..255
<1> QED OBVIOUS

LEMMA PlacesDiffer ==
  /\ Idle # Flip
  /\ \A i \in Cell : Look(i) # Idle /\ Look(i) # Flip /\ Fill(i) # Idle /\ Fill(i) # Flip
  /\ \A i, j \in Cell : Look(i) # Fill(j)
  /\ \A i, j \in Cell : Look(i) = Look(j) => i = j
  /\ \A i, j \in Cell : Fill(i) = Fill(j) => i = j
<1> QED BY DEF Idle, Flip, Look, Fill

LEMMA FirstCell == 0 \in Cell /\ \A i \in Cell : i \in Nat /\ (i + 1 < Size => i + 1 \in Cell)
<1> QED BY ScreenAssumption DEF Cell

LEMMA InitInv == Init => Inv
<1> SUFFICES ASSUME Init PROVE Inv
  OBVIOUS
<1>1. \A i \in Cell : mem[i] \in 0..255
  BY ScreenAssumption DEF Init
<1>2. /\ mem \in [Cell -> 0..255] /\ framebuffer \in [Cell -> 0..15]
      /\ PictureIsMemory
  BY <1>1, Colour DEF Init, PictureIsMemory
<1>3. writes \in 0..MaxWrites
  BY ScreenAssumption DEF Init
<1>4. /\ drawing \in [Thread -> Place] /\ rgb \in [Thread -> 0..15]
      /\ screen \in [Cell -> 0..15] /\ shown \in [Cell -> 0..15]
  BY DEF Init, Place
<1>5. WhoDraws /\ LastRefresh
  BY DEF Init, WhoDraws, LastRefresh, Thread
<1> QED BY <1>2, <1>3, <1>4, <1>5 DEF Init, Inv, TypeOK

\* A step of screen_update(): the thread moves on, and no other.
LEMMA UpdateTyped ==
  ASSUME Inv, NEW t \in Thread, screen_update(t)
  PROVE  /\ drawing' \in [Thread -> Place] /\ rgb' \in [Thread -> 0..15]
         /\ screen' \in [Cell -> 0..15] /\ shown' \in [Cell -> 0..15]
         /\ \A u \in Thread : u # t => drawing'[u] = drawing[u]
         /\ drawing[t] # Idle
         /\ drawing'[t] = Idle <=> drawing[t] = Flip
<1> USE DEF Inv, TypeOK
<1>1. CASE look_up(t)
  <2>1. PICK i \in Cell :
          /\ drawing[t] = Look(i)
          /\ drawing' = [drawing EXCEPT ![t] = Fill(i)]
          /\ rgb' = IF framebuffer[i] < 16 THEN [rgb EXCEPT ![t] = framebuffer[i]] ELSE rgb
          /\ UNCHANGED surface
    BY <1>1 DEF look_up
  <2>2. Fill(i) \in Place /\ framebuffer[i] \in 0..15
    BY DEF Place
  <2> QED BY <2>1, <2>2, PlacesDiffer DEF surface
<1>2. CASE fill_rect(t)
  <2>1. PICK i \in Cell :
          /\ drawing[t] = Fill(i)
          /\ drawing' = [drawing EXCEPT ![t] = IF i + 1 < Size THEN Look(i + 1) ELSE Flip]
          /\ screen' = [screen EXCEPT ![i] = rgb[t]]
          /\ UNCHANGED <<rgb, shown>>
    BY <1>2 DEF fill_rect
  <2>2. i + 1 < Size => i + 1 \in Cell
    BY FirstCell
  <2>3. Flip \in Place /\ (i + 1 < Size => Look(i + 1) \in Place)
    BY <2>2 DEF Place
  <2> QED BY <2>1, <2>2, <2>3, PlacesDiffer
<1>3. CASE flip(t)
  BY <1>3, PlacesDiffer DEF flip, Place
<1> QED BY <1>1, <1>2, <1>3 DEF screen_update

LEMMA DrawsKeepsInv ==
  ASSUME Inv, cpu_draws
  PROVE  Inv'
<1>1. PICK i \in Cell, color \in Colors : screen_memhook(i, color)
  BY DEF cpu_draws
<1>2. color \in 0..255
  BY ScreenAssumption
<1>3. /\ mem' \in [Cell -> 0..255] /\ framebuffer' \in [Cell -> 0..15]
      /\ PictureIsMemory'
  BY <1>1, <1>2, Colour DEF screen_memhook, Inv, TypeOK, PictureIsMemory
<1>4. writes' \in 0..MaxWrites
  BY ScreenAssumption DEF cpu_draws, Inv, TypeOK
<1>5. cpu = "runs" /\ UNCHANGED <<cpu, armed, drawing, rgb, screen, shown, running, alone>>
  BY DEF cpu_draws, surface
<1> QED BY <1>3, <1>4, <1>5 DEF Inv, TypeOK, WhoDraws, LastRefresh

LEMMA RefreshKeepsInv ==
  ASSUME Inv, cpu_refreshes
  PROVE  Inv'
<1>1. /\ cpu = "refreshes" /\ screen_update("cpu")
      /\ cpu' = IF drawing["cpu"] = Flip THEN "done" ELSE cpu
      /\ UNCHANGED <<mem, framebuffer, writes, armed, running, alone>>
  BY DEF cpu_refreshes, program
<1>2. /\ drawing' \in [Thread -> Place] /\ rgb' \in [Thread -> 0..15]
      /\ screen' \in [Cell -> 0..15] /\ shown' \in [Cell -> 0..15]
      /\ drawing'["timer"] = drawing["timer"]
      /\ drawing'["cpu"] = Idle <=> drawing["cpu"] = Flip
  BY <1>1, UpdateTyped DEF Thread
<1>3. TypeOK' /\ PictureIsMemory' /\ WhoDraws'
  BY <1>1, <1>2 DEF Inv, TypeOK, PictureIsMemory, WhoDraws
<1>4. LastRefresh'
  <2> SUFFICES ASSUME alone
               PROVE  /\ drawing'["timer"] = Idle
                      /\ \A i \in Cell : drawing'["cpu"] = Look(i) => Done(i)'
                      /\ \A i \in Cell : drawing'["cpu"] = Fill(i) =>
                           Done(i)' /\ rgb'["cpu"] = framebuffer[i]
                      /\ drawing'["cpu"] = Flip => screen' = framebuffer
                      /\ cpu' = "done" => shown' = framebuffer
    BY <1>1 DEF LastRefresh
  <2>1. /\ drawing["timer"] = Idle
        /\ \A i \in Cell : drawing["cpu"] = Look(i) => Done(i)
        /\ \A i \in Cell : drawing["cpu"] = Fill(i) => Done(i) /\ rgb["cpu"] = framebuffer[i]
        /\ drawing["cpu"] = Flip => screen = framebuffer
    BY <1>1 DEF Inv, LastRefresh
  <2>2. framebuffer \in [Cell -> 0..15] /\ screen \in [Cell -> 0..15]
        /\ drawing \in [Thread -> Place] /\ rgb \in [Thread -> 0..15] /\ "cpu" \in Thread
    BY DEF Inv, TypeOK, Thread
  <2>3. CASE look_up("cpu")
    <3>1. PICK i \in Cell :
            /\ drawing["cpu"] = Look(i) /\ drawing'["cpu"] = Fill(i)
            /\ rgb'["cpu"] = framebuffer[i] /\ UNCHANGED <<screen, shown>>
      BY <2>2, <2>3 DEF look_up, surface
    <3>2. Done(i)' /\ cpu' # "done"
      BY <2>1, <3>1, <1>1, PlacesDiffer DEF Done
    <3> QED BY <2>1, <3>1, <3>2, <1>2, PlacesDiffer
  <2>4. CASE fill_rect("cpu")
    <3>1. PICK i \in Cell :
            /\ drawing["cpu"] = Fill(i)
            /\ drawing'["cpu"] = IF i + 1 < Size THEN Look(i + 1) ELSE Flip
            /\ screen' = [screen EXCEPT ![i] = rgb["cpu"]]
      BY <2>2, <2>4 DEF fill_rect
    <3>2. \A j \in Cell : j < i + 1 => screen'[j] = framebuffer[j]
      <4>1. \A j \in Cell : j < i + 1 => j < i \/ j = i
        BY FirstCell
      <4> QED BY <2>1, <2>2, <3>1, <4>1 DEF Done
    <3>3. cpu' # "done"
      BY <3>1, <1>1, PlacesDiffer
    <3>4. CASE i + 1 < Size
      <4>1. i + 1 \in Cell /\ drawing'["cpu"] = Look(i + 1)
        BY <3>1, <3>4, FirstCell
      <4>2. Done(i + 1)'
        BY <3>2, <1>1 DEF Done
      <4> QED BY <2>1, <4>1, <4>2, <3>3, <1>2, PlacesDiffer
    <3>5. CASE ~(i + 1 < Size)
      <4>1. \A j \in Cell : j < i + 1
        BY <3>5, ScreenAssumption DEF Cell
      <4>2. screen' = framebuffer
        BY <3>1, <3>2, <4>1, <2>2
      <4>3. drawing'["cpu"] = Flip
        BY <3>1, <3>5
      <4> QED BY <2>1, <4>2, <4>3, <3>3, <1>2, PlacesDiffer
    <3> QED BY <3>4, <3>5
  <2>5. CASE flip("cpu")
    <3>1. drawing["cpu"] = Flip /\ drawing'["cpu"] = Idle /\ shown' = screen
      BY <2>2, <2>5 DEF flip
    <3> QED BY <2>1, <3>1, <1>2, PlacesDiffer
  <2> QED BY <1>1, <2>3, <2>4, <2>5 DEF screen_update
<1> QED BY <1>3, <1>4 DEF Inv

LEMMA NextKeepsInv == Inv /\ [Next]_vars => Inv'
<1> SUFFICES ASSUME Inv, [Next]_vars PROVE Inv'
  OBVIOUS
<1>1. CASE cpu_draws
  BY <1>1, DrawsKeepsInv
<1>2. CASE excepthook
  <2>1. /\ cpu' = "refreshes" /\ armed' = FALSE /\ alone' = (drawing["timer"] = Idle)
        /\ drawing' = [drawing EXCEPT !["cpu"] = Look(0)]
        /\ UNCHANGED <<mem, framebuffer, writes, rgb, screen, shown, running>>
    BY <1>2 DEF excepthook, program, surface
  <2>2. Look(0) \in Place /\ 0 \in Cell
    BY FirstCell DEF Place
  <2>3. drawing'["cpu"] = Look(0) /\ drawing'["timer"] = drawing["timer"]
    BY <2>1 DEF Inv, TypeOK, Thread
  <2>4. TypeOK' /\ PictureIsMemory' /\ WhoDraws'
    BY <2>1, <2>2, <2>3, PlacesDiffer DEF Inv, TypeOK, PictureIsMemory, WhoDraws
  <2>5. Done(0)'
    BY FirstCell DEF Done
  <2>6. LastRefresh'
    BY <2>1, <2>2, <2>3, <2>5, PlacesDiffer DEF LastRefresh
  <2> QED BY <2>4, <2>6 DEF Inv
<1>3. CASE cpu_refreshes
  BY <1>3, RefreshKeepsInv
<1>4. CASE timer_fires
  <2>1. /\ armed /\ drawing' = [drawing EXCEPT !["timer"] = Look(0)]
        /\ UNCHANGED <<mem, framebuffer, writes, cpu, armed, rgb, screen, shown, running, alone>>
    BY <1>4 DEF timer_fires, program, surface
  <2>2. Look(0) \in Place
    BY FirstCell DEF Place
  <2>3. cpu = "runs" /\ drawing'["cpu"] = drawing["cpu"]
    BY <2>1 DEF Inv, TypeOK, WhoDraws, Thread
  <2> QED BY <2>1, <2>2, <2>3 DEF Inv, TypeOK, PictureIsMemory, WhoDraws, LastRefresh
<1>5. CASE timer_draws
  <2>1. screen_update("timer") /\ UNCHANGED <<mem, framebuffer, writes, cpu, armed, running, alone>>
    BY <1>5 DEF timer_draws, program
  <2>2. /\ drawing' \in [Thread -> Place] /\ rgb' \in [Thread -> 0..15]
        /\ screen' \in [Cell -> 0..15] /\ shown' \in [Cell -> 0..15]
        /\ drawing'["cpu"] = drawing["cpu"] /\ drawing["timer"] # Idle
    BY <2>1, UpdateTyped DEF Thread
  <2>3. cpu = "runs" \/ ~alone
    BY <2>2 DEF Inv, LastRefresh
  <2> QED BY <2>1, <2>2, <2>3 DEF Inv, TypeOK, PictureIsMemory, WhoDraws, LastRefresh
<1>6. CASE main_returns
  BY <1>6 DEF main_returns, program, surface, Inv, TypeOK, PictureIsMemory, WhoDraws,
              LastRefresh, Done
<1>7. CASE UNCHANGED vars
  BY <1>7 DEF vars, program, surface, Inv, TypeOK, PictureIsMemory, WhoDraws, LastRefresh, Done
<1> QED BY <1>1, <1>2, <1>3, <1>4, <1>5, <1>6, <1>7 DEF Next

LEMMA Invariance == Spec => []Inv
<1> QED BY InitInv, NextKeepsInv, PTL DEF Spec

\* The frame buffer holds colours of four bits, whatever the file and the program
\* put on the screen, so screen_update() always finds a colour.
THEOREM TypeCorrect == Spec => []TypeOK
<1>1. Inv => TypeOK
  BY DEF Inv
<1> QED BY <1>1, Invariance, PTL

\* On a screen of any size, a refresh that has the surface to itself shows what
\* the program left.
THEOREM LastRefreshIsRight == Spec => []LastRefreshShows
<1>1. Inv => LastRefreshShows
  BY DEF Inv, PictureIsMemory, LastRefresh, LastRefreshShows, PictureShown
<1> QED BY <1>1, Invariance, PTL

-----------------------------------------------------------------------------
(* The keyboard.                                                            *)

KeysTypeOK ==
  /\ held \subseteq Keys /\ events \in Seq(Event)
  /\ event \in Event \cup {[type |-> "none"]}
  /\ main \in {"waits", "locks", "stores", "unlocks", "returned"}
  /\ poll \in {"runs", "locks", "reads", "unlocks"}
  /\ keycode_m \in {"none", "main", "cpu"}
  /\ keycode \in 0..255

Storing == main \in {"locks", "stores"}

\* What changes the key code is in the queue, past the place n.
Changes(e)     == e.type = "up" \/ Typed(e)
ChangeAfter(n) == \E j \in DOMAIN events : j > n /\ Changes(events[j])

\* The key k is the last one typed, and is down.
IsLast(k) == k = last /\ last \in held

\* What main() has on its way to the key code is a key that went up, or the last
\* key typed, or something that changes the code again comes later in the queue.
StoresKey ==
  Storing => event.type = "up" \/ (Typed(event) /\ (IsLast(event.key) \/ ChangeAfter(0)))

\* The same for a key typed that is in the queue.
QueueInOrder ==
  \A i \in DOMAIN events :
    Typed(events[i]) => IsLast(events[i].key) \/ ChangeAfter(i)

\* A key code is that of the last key typed, or it is about to be changed.
CodeIsHeld ==
  keycode # 0 =>
    (last \in held /\ keycode = last % 256) \/ ChangeAfter(0) \/ Storing

KeysInv == KeysTypeOK /\ MutexHeld /\ StoresKey /\ QueueInOrder /\ CodeIsHeld

-----------------------------------------------------------------------------
\* The queue grows at its end: whatever changes the code stays in it.
LEMMA EventQueued ==
  ASSUME events \in Seq(Event), NEW e \in Event, events' = Append(events, e)
  PROVE  /\ events' \in Seq(Event)
         /\ \A n \in Nat : ChangeAfter(n) => ChangeAfter(n)'
         /\ Changes(e) => \A n \in 0..Len(events) : ChangeAfter(n)'
         /\ \A i \in DOMAIN events' :
              \/ i \in DOMAIN events /\ events'[i] = events[i]
              \/ i = Len(events) + 1 /\ events'[i] = e
<1>1. /\ events' \in Seq(Event) /\ Len(events') = Len(events) + 1 /\ Len(events) \in Nat
      /\ DOMAIN events = 1..Len(events) /\ DOMAIN events' = 1..(Len(events) + 1)
      /\ \A i \in DOMAIN events : events'[i] = events[i]
      /\ events'[Len(events) + 1] = e
  OBVIOUS
<1>2. \A n \in Nat : ChangeAfter(n) => ChangeAfter(n)'
  <2> SUFFICES ASSUME NEW n \in Nat, NEW j \in DOMAIN events, j > n, Changes(events[j])
               PROVE  \E i \in DOMAIN events' : i > n /\ Changes(events'[i])
    BY DEF ChangeAfter, Changes, Typed
  <2>1. j \in DOMAIN events' /\ events'[j] = events[j]
    BY <1>1
  <2> QED BY <2>1
<1>3. Changes(e) => \A n \in 0..Len(events) : ChangeAfter(n)'
  <2> SUFFICES ASSUME Changes(e), NEW n \in 0..Len(events)
               PROVE  \E j \in DOMAIN events' : j > n /\ Changes(events'[j])
    BY DEF ChangeAfter, Changes, Typed
  <2>1. Len(events) + 1 \in DOMAIN events' /\ Len(events) + 1 > n
    BY <1>1
  <2> QED BY <1>1, <2>1
<1> QED BY <1>1, <1>2, <1>3

\* The queue is taken from its head: what was after it is there still.
LEMMA EventTaken ==
  ASSUME events \in Seq(Event), events # << >>, events' = Tail(events)
  PROVE  /\ events' \in Seq(Event) /\ Head(events) = events[1] /\ events[1] \in Event
         /\ 1 \in DOMAIN events
         /\ \A n \in Nat : ChangeAfter(n + 1) => ChangeAfter(n)'
         /\ ChangeAfter(0) => Changes(events[1]) \/ ChangeAfter(0)'
         /\ \A i \in DOMAIN events' :
              i + 1 \in DOMAIN events /\ events'[i] = events[i + 1] /\ i \in Nat
<1>1. /\ events' \in Seq(Event) /\ Len(events') = Len(events) - 1
      /\ Len(events) \in Nat \ {0} /\ Head(events) = events[1] /\ events[1] \in Event
      /\ DOMAIN events = 1..Len(events) /\ DOMAIN events' = 1..(Len(events) - 1)
      /\ \A i \in DOMAIN events' : events'[i] = events[i + 1]
  OBVIOUS
<1>2. ASSUME NEW j \in DOMAIN events, j > 1, Changes(events[j])
      PROVE  j - 1 \in DOMAIN events' /\ Changes(events'[j - 1])
  <2>1. j - 1 \in DOMAIN events' /\ (j - 1) + 1 = j
    BY <1>1, <1>2
  <2>2. events'[j - 1] = events[j]
    BY <1>1, <2>1
  <2> QED BY <1>2, <2>1, <2>2
<1>3. ASSUME NEW n \in Nat, ChangeAfter(n + 1)
      PROVE  ChangeAfter(n)'
  <2>1. PICK j \in DOMAIN events : j > n + 1 /\ Changes(events[j])
    BY <1>3 DEF ChangeAfter
  <2>2. j > 1 /\ j - 1 > n
    BY <1>1, <2>1
  <2>3. j - 1 \in DOMAIN events' /\ Changes(events'[j - 1])
    BY <1>2, <2>1, <2>2
  <2> QED BY <2>2, <2>3 DEF ChangeAfter, Changes, Typed
<1>4. ASSUME ChangeAfter(0)
      PROVE  Changes(events[1]) \/ ChangeAfter(0)'
  <2>1. PICK j \in DOMAIN events : Changes(events[j])
    BY <1>4 DEF ChangeAfter
  <2>2. CASE j = 1
    BY <2>1, <2>2
  <2>3. CASE j # 1
    <3>1. j > 1 /\ j - 1 > 0
      BY <1>1, <2>3
    <3>2. j - 1 \in DOMAIN events' /\ Changes(events'[j - 1])
      BY <1>2, <2>1, <3>1
    <3> QED BY <3>1, <3>2 DEF ChangeAfter, Changes, Typed
  <2> QED BY <2>2, <2>3
<1>5. 1 \in DOMAIN events /\ \A i \in DOMAIN events' : i + 1 \in DOMAIN events /\ i \in Nat
  BY <1>1
<1> QED BY <1>1, <1>3, <1>4, <1>5

LEMMA KeysInitInv == KeysInit => KeysInv
<1> SUFFICES ASSUME KeysInit PROVE KeysInv
  OBVIOUS
<1>1. events \in Seq(Event) /\ DOMAIN events = {}
  BY DEF KeysInit
<1>2. KeysTypeOK /\ StoresKey /\ QueueInOrder /\ CodeIsHeld
  BY <1>1 DEF KeysInit, KeysTypeOK, Storing, StoresKey, QueueInOrder, CodeIsHeld
<1>3. MutexHeld
  BY DEF KeysInit, MutexHeld, InMutex
<1> QED BY <1>2, <1>3 DEF KeysInv

\* An event of the user changes the key code, or leaves the last key typed as it
\* was; a key typed is the last one.
LEMMA UserKeepsInv ==
  ASSUME KeysInv, NEW e \in Event, events' = Append(events, e),
         held' \subseteq Keys,
         Changes(e) \/ (last' = last /\ (last \in held => last \in held')),
         Typed(e) => e.key = last' /\ last' \in held',
         UNCHANGED <<event, main, keycode, keycode_m, poll>>
  PROVE  KeysInv'
<1>1. /\ events' \in Seq(Event)
      /\ \A n \in Nat : ChangeAfter(n) => ChangeAfter(n)'
      /\ Changes(e) => \A n \in 0..Len(events) : ChangeAfter(n)'
      /\ \A i \in DOMAIN events' :
           \/ i \in DOMAIN events /\ events'[i] = events[i]
           \/ i = Len(events) + 1 /\ events'[i] = e
  BY EventQueued DEF KeysInv, KeysTypeOK
<1>2. Len(events) \in Nat /\ DOMAIN events = 1..Len(events) /\ 0 \in 0..Len(events)
  BY DEF KeysInv, KeysTypeOK
<1>3. KeysTypeOK' /\ MutexHeld'
  BY <1>1 DEF KeysInv, KeysTypeOK, MutexHeld, InMutex
<1>4. Changes(e) => ChangeAfter(0)'
  BY <1>1, <1>2
<1>5. ASSUME NEW k, IsLast(k)
      PROVE  (k = last' /\ last' \in held') \/ Changes(e)
  BY <1>5 DEF IsLast
<1>6. StoresKey'
  <2> SUFFICES ASSUME Storing, event.type # "up"
               PROVE  /\ Typed(event)
                      /\ (event.key = last' /\ last' \in held') \/ ChangeAfter(0)'
    BY DEF StoresKey, Storing, Typed, IsLast
  <2>1. Typed(event) /\ (IsLast(event.key) \/ ChangeAfter(0))
    BY DEF KeysInv, StoresKey
  <2> QED BY <2>1, <1>1, <1>4, <1>5
<1>7. QueueInOrder'
  <2> SUFFICES ASSUME NEW i \in DOMAIN events', Typed(events'[i])
               PROVE  (events'[i].key = last' /\ last' \in held') \/ ChangeAfter(i)'
    BY DEF QueueInOrder, Typed, IsLast
  <2>1. CASE i \in DOMAIN events /\ events'[i] = events[i]
    <3>1. IsLast(events[i].key) \/ ChangeAfter(i)
      BY <2>1 DEF KeysInv, QueueInOrder
    <3>2. i \in Nat /\ i \in 0..Len(events)
      BY <1>2, <2>1
    <3>3. CASE ChangeAfter(i)
      BY <1>1, <3>2, <3>3
    <3>4. CASE IsLast(events[i].key)
      BY <1>1, <1>5, <2>1, <3>2, <3>4
    <3> QED BY <3>1, <3>3, <3>4
  <2>2. CASE i = Len(events) + 1 /\ events'[i] = e
    BY <2>2
  <2> QED BY <1>1, <2>1, <2>2
<1>8. CodeIsHeld'
  BY <1>1, <1>4 DEF KeysInv, CodeIsHeld, Storing
<1> QED BY <1>3, <1>6, <1>7, <1>8 DEF KeysInv

LEMMA EventKeepsInv ==
  ASSUME KeysInv, main_event
  PROVE  KeysInv'
<1>1. /\ main = "waits" /\ events # << >> /\ event' = Head(events) /\ events' = Tail(events)
      /\ UNCHANGED <<held, last, keycode, keycode_m, poll>>
      /\ main' = IF Exits(event') THEN "returned"
                 ELSE IF event'.type = "up" \/ Typed(event') THEN "locks"
                 ELSE "waits"
  BY DEF main_event, keyboard, cpu_vars
<1>2. events \in Seq(Event)
  BY DEF KeysInv, KeysTypeOK
<1>3. /\ events' \in Seq(Event) /\ event' = events[1] /\ event' \in Event
      /\ 1 \in DOMAIN events
      /\ \A n \in Nat : ChangeAfter(n + 1) => ChangeAfter(n)'
      /\ ChangeAfter(0) => Changes(event') \/ ChangeAfter(0)'
      /\ \A i \in DOMAIN events' :
           i + 1 \in DOMAIN events /\ events'[i] = events[i + 1] /\ i \in Nat
  BY <1>1, <1>2, EventTaken
<1>4. Changes(event') => main' = "locks"
  BY <1>1 DEF Exits, Changes, Typed
<1>5. KeysTypeOK' /\ MutexHeld'
  BY <1>1, <1>3 DEF KeysInv, KeysTypeOK, MutexHeld, InMutex
<1>6. StoresKey'
  <2> SUFFICES ASSUME Storing', event'.type # "up"
               PROVE  Typed(event') /\ (IsLast(event'.key) \/ ChangeAfter(0)')
    BY <1>1 DEF StoresKey, IsLast, Typed
  <2>1. Typed(event')
    BY <1>1 DEF Storing
  <2>2. IsLast(event'.key) \/ ChangeAfter(1)
    BY <1>3, <2>1 DEF KeysInv, QueueInOrder, Typed
  <2>3. 0 \in Nat /\ 0 + 1 = 1
    OBVIOUS
  <2>4. ChangeAfter(1) => ChangeAfter(0)'
    BY <1>3, <2>3
  <2> QED BY <2>1, <2>2, <2>4
<1>7. QueueInOrder'
  <2> SUFFICES ASSUME NEW i \in DOMAIN events', Typed(events'[i])
               PROVE  IsLast(events'[i].key) \/ ChangeAfter(i)'
    BY <1>1 DEF QueueInOrder, IsLast, Typed
  <2>1. i + 1 \in DOMAIN events /\ events'[i] = events[i + 1] /\ i \in Nat
    BY <1>3
  <2>2. IsLast(events[i + 1].key) \/ ChangeAfter(i + 1)
    BY <2>1 DEF KeysInv, QueueInOrder
  <2> QED BY <1>3, <2>1, <2>2
<1>8. CodeIsHeld'
  <2>1. main # "locks" /\ main # "stores"
    BY <1>1
  <2>2. keycode # 0 => (last \in held /\ keycode = last % 256) \/ ChangeAfter(0)
    BY <2>1 DEF KeysInv, CodeIsHeld, Storing
  <2> QED BY <1>1, <1>3, <1>4, <2>2 DEF CodeIsHeld, Storing
<1> QED BY <1>5, <1>6, <1>7, <1>8 DEF KeysInv

LEMMA StoreKeepsInv ==
  ASSUME KeysInv, main_store
  PROVE  KeysInv'
<1>1. /\ main = "stores" /\ main' = "unlocks"
      /\ keycode' = IF event.type = "up" THEN 0 ELSE event.key % 256
      /\ UNCHANGED <<held, last, events, event, keycode_m, poll>>
  BY DEF main_store, keyboard, cpu_vars
<1>2. event.type = "up" \/ (Typed(event) /\ (IsLast(event.key) \/ ChangeAfter(0)))
  BY <1>1 DEF KeysInv, StoresKey, Storing
<1>3. keycode' \in 0..255
  <2>1. CASE event.type = "up"
    BY <1>1, <2>1
  <2>2. CASE event.type # "up"
    <3>1. event \in Event /\ event.type = "down"
      BY <1>2, <2>2 DEF KeysInv, KeysTypeOK, Typed
    <3>2. event.key \in Keys
      BY <3>1 DEF Event
    <3>3. event.key \in Nat
      BY <3>2, KeysAssumption
    <3>4. event.key % 256 \in 0..255
      BY <3>3
    <3> QED BY <1>1, <2>2, <3>4
  <2> QED BY <2>1, <2>2
<1>4. KeysTypeOK' /\ MutexHeld'
  BY <1>1, <1>3 DEF KeysInv, KeysTypeOK, MutexHeld, InMutex
<1>5. ChangeAfter(0)' <=> ChangeAfter(0)
  BY <1>1 DEF ChangeAfter
<1>6. StoresKey'
  BY <1>1 DEF StoresKey, Storing
<1>7. QueueInOrder'
  BY <1>1 DEF KeysInv, QueueInOrder, ChangeAfter, IsLast
<1>8. CodeIsHeld'
  BY <1>1, <1>2, <1>5 DEF CodeIsHeld, IsLast
<1> QED BY <1>4, <1>6, <1>7, <1>8 DEF KeysInv

LEMMA KeysNextInv == KeysInv /\ [KeysNext]_keys_vars => KeysInv'
<1> SUFFICES ASSUME KeysInv, [KeysNext]_keys_vars PROVE KeysInv'
  OBVIOUS
<1> USE DEF keyboard, cpu_vars
<1>1. CASE key_down
  <2>1. PICK k \in Keys \ held, mod \in Modifier :
          /\ held' = held \cup {k}
          /\ last' = IF mod = "none" THEN k ELSE last
          /\ events' = Append(events, [type |-> "down", key |-> k, mod |-> mod])
    BY <1>1 DEF key_down
  <2> DEFINE e == [type |-> "down", key |-> k, mod |-> mod]
  <2>2. e \in Event
    BY DEF Event
  <2>3. held' \subseteq Keys /\ UNCHANGED <<event, main, keycode, keycode_m, poll>>
    BY <1>1, <2>1 DEF key_down, KeysInv, KeysTypeOK
  <2>4. Changes(e) \/ (last' = last /\ (last \in held => last \in held'))
    BY <2>1 DEF Changes, Typed
  <2>5. Typed(e) => e.key = last' /\ last' \in held'
    BY <2>1 DEF Typed
  <2> QED BY <2>1, <2>2, <2>3, <2>4, <2>5, UserKeepsInv
<1>2. CASE key_up
  <2>1. PICK k \in held :
          /\ held' = held \ {k}
          /\ events' = Append(events, [type |-> "up", key |-> k, mod |-> "none"])
    BY <1>2 DEF key_up
  <2> DEFINE e == [type |-> "up", key |-> k, mod |-> "none"]
  <2>2. held' \subseteq Keys /\ UNCHANGED <<event, main, keycode, keycode_m, poll>>
    BY <1>2, <2>1 DEF key_up, KeysInv, KeysTypeOK
  <2>3. e \in Event
    BY <2>1 DEF Event, Modifier, KeysInv, KeysTypeOK
  <2>4. Changes(e) /\ ~Typed(e)
    BY DEF Changes, Typed
  <2> QED BY <2>1, <2>2, <2>3, <2>4, UserKeepsInv
<1>3. CASE closes_window
  <2> DEFINE e == [type |-> "quit"]
  <2>1. e \in Event /\ ~Typed(e)
    BY DEF Event, Typed
  <2>2. held \subseteq Keys
    BY DEF KeysInv, KeysTypeOK
  <2> QED BY <1>3, <2>1, <2>2, UserKeepsInv DEF closes_window
<1>4. CASE main_event
  BY <1>4, EventKeepsInv
<1>5. CASE main_lock
  BY <1>5 DEF main_lock, KeysInv, KeysTypeOK, MutexHeld, InMutex, StoresKey, Storing,
              QueueInOrder, CodeIsHeld, ChangeAfter, IsLast
<1>6. CASE main_store
  BY <1>6, StoreKeepsInv
<1>7. CASE main_unlock
  BY <1>7 DEF main_unlock, KeysInv, KeysTypeOK, MutexHeld, InMutex, StoresKey, Storing,
              QueueInOrder, CodeIsHeld, ChangeAfter, IsLast
<1>8. CASE cpu_call \/ CpuHook \/ UNCHANGED keys_vars
  <2>1. UNCHANGED <<held, last, events, event, main, keycode>>
    BY <1>8 DEF cpu_call, CpuHook, cpu_lock, cpu_read, cpu_unlock, keys_vars
  <2>2. StoresKey' /\ QueueInOrder' /\ CodeIsHeld'
    BY <2>1 DEF KeysInv, StoresKey, Storing, QueueInOrder, CodeIsHeld, ChangeAfter, IsLast
  <2>3. KeysTypeOK' /\ MutexHeld'
    BY <1>8, <2>1 DEF cpu_call, CpuHook, cpu_lock, cpu_read, cpu_unlock, keys_vars,
                      KeysInv, KeysTypeOK, MutexHeld, InMutex
  <2> QED BY <2>2, <2>3 DEF KeysInv
<1> QED BY <1>1, <1>2, <1>3, <1>4, <1>5, <1>6, <1>7, <1>8 DEF KeysNext, User, MainRun

LEMMA KeysInvariance == KeysSpec => []KeysInv
<1> QED BY KeysInitInv, KeysNextInv, PTL DEF KeysSpec

\* main() and keycode_memhook() never meet at the key code, whatever the user
\* and the program do.
THEOREM KeyCodeIsGuarded == KeysSpec => []MutexHeld
<1>1. KeysInv => MutexHeld
  BY DEF KeysInv
<1> QED BY <1>1, KeysInvariance, PTL

\* Once main() has seen all that the user did, the key code is 0 or that of the
\* last key typed, which is still down, however many keys were pressed and in
\* whatever order.
THEOREM NoKeyHangs == KeysSpec => []NoGhostKey
<1>1. KeysInv => NoGhostKey
  <2> SUFFICES ASSUME KeysInv, main = "waits", events = << >>, keycode # 0
               PROVE  last \in held /\ keycode = last % 256
    BY DEF NoGhostKey, Settled
  <2>1. ~ChangeAfter(0) /\ ~Storing
    BY DEF ChangeAfter, Storing
  <2> QED BY <2>1 DEF KeysInv, CodeIsHeld
<1> QED BY <1>1, KeysInvariance, PTL

=============================================================================
