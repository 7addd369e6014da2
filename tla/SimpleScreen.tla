--------------------------- MODULE SimpleScreen ---------------------------
(***************************************************************************)
(* simple6502's screen: the CPU thread writes the frame buffer through its *)
(* hook, the timer thread draws it, and a BRK has the CPU thread draw it a *)
(* last time.  The main thread ends all of them when it returns.           *)
(*                                                                         *)
(* SDL is external: a timer calls screen_update() again and again until it *)
(* is removed, and SDL_RemoveTimer() does not wait for a call under way.   *)
(***************************************************************************)
EXTENDS Integers

CONSTANTS
  Size,         \* SCREEN_HOOK_SIZE: 0x400 cells
  Colors,       \* the bytes that the file and the program put on the screen
  MaxWrites     \* how often the program writes to the screen

ASSUME ScreenAssumption ==
  Size \in Nat \ {0} /\ Colors \subseteq 0..255 /\ MaxWrites \in Nat

VARIABLES
  mem,          \* mem[], from SCREEN_HOOK_OFFSET on
  framebuffer,
  writes,       \* the number of writes to the screen
  cpu,          \* where the CPU thread is
  armed,        \* is refresh_timer set?
  drawing,      \* where the calls of screen_update() of the two threads are
  rgb,          \* their local rgb
  screen,       \* the surface they draw on
  shown,        \* the surface on display
  running,      \* has main() not returned?
  alone         \* was no call of the timer under way when it was removed?

program == <<mem, framebuffer, writes>>
surface == <<screen, shown>>
vars == <<program, cpu, armed, drawing, rgb, surface, running, alone>>

Cell   == 0..(Size - 1)
Thread == {"timer", "cpu"}

\* The steps of screen_update(): the loop takes each cell in two, the switch on
\* its colour and SDL_FillRect(); SDL_Flip() comes last.
Idle    == <<"idle", 0>>
Look(i) == <<"look", i>>
Fill(i) == <<"fill", i>>
Flip    == <<"flip", 0>>

\* Mutant: the colour is masked on its way to the memory only.
screen_memhook_unmasked(i, color) ==
  /\ framebuffer' = [framebuffer EXCEPT ![i] = color]
  /\ mem' = [mem EXCEPT ![i] = color % 16]

\* MEM_WRITE stores what the hook returns.
screen_memhook(i, color) ==
  /\ framebuffer' = [framebuffer EXCEPT ![i] = color % 16]
  /\ mem' = [mem EXCEPT ![i] = color % 16]

cpu_draws ==
  /\ running /\ cpu = "runs" /\ writes < MaxWrites
  /\ writes' = writes + 1
  /\ \E i \in Cell, color \in Colors : screen_memhook(i, color)
  /\ UNCHANGED <<cpu, armed, drawing, rgb, surface, running, alone>>

\* The switch has no case for a colour past 0xF, and leaves rgb as it was.
look_up(t) ==
  \E i \in Cell :
    /\ drawing[t] = Look(i)
    /\ drawing' = [drawing EXCEPT ![t] = Fill(i)]
    /\ rgb' = IF framebuffer[i] < 16 THEN [rgb EXCEPT ![t] = framebuffer[i]] ELSE rgb
    /\ UNCHANGED surface

\* Mutants: the loop ends a cell early; its index is too narrow to reach the end.
fill_rect_short(t) ==
  \E i \in Cell :
    /\ drawing[t] = Fill(i)
    /\ drawing' = [drawing EXCEPT ![t] = IF i + 2 < Size THEN Look(i + 1) ELSE Flip]
    /\ screen' = [screen EXCEPT ![i] = rgb[t]]
    /\ UNCHANGED <<rgb, shown>>

fill_rect_narrow(t) ==
  \E i \in Cell :
    /\ drawing[t] = Fill(i)
    /\ drawing' = [drawing EXCEPT ![t] = Look((i + 1) % Size)]
    /\ screen' = [screen EXCEPT ![i] = rgb[t]]
    /\ UNCHANGED <<rgb, shown>>

fill_rect(t) ==
  \E i \in Cell :
    /\ drawing[t] = Fill(i)
    /\ drawing' = [drawing EXCEPT ![t] = IF i + 1 < Size THEN Look(i + 1) ELSE Flip]
    /\ screen' = [screen EXCEPT ![i] = rgb[t]]
    /\ UNCHANGED <<rgb, shown>>

flip(t) ==
  /\ drawing[t] = Flip
  /\ drawing' = [drawing EXCEPT ![t] = Idle]
  /\ shown' = screen
  /\ UNCHANGED <<rgb, screen>>

screen_update(t) == look_up(t) \/ fill_rect(t) \/ flip(t)

timer_fires ==
  /\ running /\ armed /\ drawing["timer"] = Idle
  /\ drawing' = [drawing EXCEPT !["timer"] = Look(0)]
  /\ UNCHANGED <<program, cpu, armed, rgb, surface, running, alone>>

timer_draws ==
  /\ running /\ screen_update("timer")
  /\ UNCHANGED <<program, cpu, armed, running, alone>>

\* excepthook() on a BRK: SDL_RemoveTimer(), and screen_update() is called.
excepthook ==
  /\ running /\ cpu = "runs"
  /\ cpu' = "refreshes"
  /\ armed' = FALSE /\ alone' = (drawing["timer"] = Idle)
  /\ drawing' = [drawing EXCEPT !["cpu"] = Look(0)]
  /\ UNCHANGED <<program, rgb, surface, running>>

\* Behind the last step of it comes pthread_exit().
cpu_refreshes ==
  /\ running /\ cpu = "refreshes" /\ screen_update("cpu")
  /\ cpu' = IF drawing["cpu"] = Flip THEN "done" ELSE cpu
  /\ UNCHANGED <<program, armed, running, alone>>

main_returns ==
  /\ running /\ running' = FALSE
  /\ UNCHANGED <<program, cpu, armed, drawing, rgb, surface, alone>>

\* main() loads the file into the memory, walks its screen part, passing each
\* cell that is not 0 to the hook, and starts the timer and the CPU thread.
Init ==
  /\ mem \in [Cell -> Colors]
  /\ framebuffer = [i \in Cell |-> mem[i] % 16]
  /\ writes = 0 /\ cpu = "runs" /\ armed = TRUE
  /\ drawing = [t \in Thread |-> Idle] /\ rgb = [t \in Thread |-> 0]
  /\ screen = [i \in Cell |-> 0] /\ shown = [i \in Cell |-> 0]
  /\ running = TRUE /\ alone = TRUE

Next ==
  \/ cpu_draws \/ excepthook \/ cpu_refreshes
  \/ timer_fires \/ timer_draws
  \/ main_returns

Spec == Init /\ [][Next]_vars

\* The timer thread runs.  That the program writes, comes to a BRK or that main()
\* returns is not assumed.
FairSpec == Spec /\ WF_vars(timer_fires \/ timer_draws)

-----------------------------------------------------------------------------
Place == {Idle, Flip} \cup {Look(i) : i \in Cell} \cup {Fill(i) : i \in Cell}

TypeOK ==
  /\ mem \in [Cell -> 0..255] /\ framebuffer \in [Cell -> 0..15]
  /\ writes \in 0..MaxWrites /\ cpu \in {"runs", "refreshes", "done"}
  /\ armed \in BOOLEAN /\ running \in BOOLEAN /\ alone \in BOOLEAN
  /\ drawing \in [Thread -> Place] /\ rgb \in [Thread -> 0..15]
  /\ screen \in [Cell -> 0..15] /\ shown \in [Cell -> 0..15]

\* While the timer is set, the colours that the program has in its memory, when it
\* leaves them alone, are shown and stay, although they may change while they are
\* being drawn and go through the frame buffer and the surface.
PictureShown == \A i \in Cell : shown[i] = mem[i] % 16

PictureSettles == [](running /\ armed) => <>[]PictureShown

\* Unless the timer was drawing when it was removed, the last refresh shows the
\* picture the program left, and nothing is drawn over it.
LastRefreshShows == cpu = "done" /\ alone => PictureShown

=============================================================================
