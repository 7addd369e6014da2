---------------------------- MODULE SimpleKeys ----------------------------
(***************************************************************************)
(* simple6502's keyboard: main() turns the events of keys into the key     *)
(* code that the program reads at $FF, through a hook of the CPU thread.   *)
(* A mutex guards the key code.                                            *)
(*                                                                         *)
(* SDL and the user are external: keys go down and up, and their events    *)
(* arrive in that order, whenever main() gets to them.                     *)
(***************************************************************************)
EXTENDS Integers, SequencesExt

CONSTANTS
  Keys,         \* the key symbols of SDL, not all of which fit into a byte
  Escape,       \* SDLK_ESCAPE
  MaxPresses    \* how many keys the user presses

ASSUME KeysAssumption == Keys \subseteq Nat \ {0} /\ Escape \in Keys
ASSUME PressesAssumption == MaxPresses \in Nat

VARIABLES
  held,         \* the keys that are down
  presses,      \* how many keys have gone down
  last,         \* the last of them that went down without a modifier, or 0 (a
                \* history: what the program should read)
  events,       \* the queue of SDL
  event,        \* the local of main(): the last event taken from the queue
  main,         \* where main() is
  keycode,
  keycode_m,    \* the thread that has the mutex
  poll,          \* where the CPU thread is in keycode_memhook()
  got           \* its local, which it returns

keyboard == <<held, presses, last>>
cpu_vars == <<poll, got>>
keys_vars == <<keyboard, events, event, main, keycode, keycode_m, cpu_vars>>

Modifier == {"none", "lshift", "other"}
Event == [type : {"down", "up"}, key : Keys, mod : Modifier]
       \cup [type : {"quit"}]

-----------------------------------------------------------------------------
(* The user.                                                                *)

key_down ==
  /\ main # "returned" /\ presses < MaxPresses
  /\ presses' = presses + 1
  /\ \E k \in Keys \ held, mod \in Modifier :
       /\ held' = held \cup {k}
       /\ last' = IF mod = "none" THEN k ELSE last
       /\ events' = Append(events, [type |-> "down", key |-> k, mod |-> mod])
  /\ UNCHANGED <<event, main, keycode, keycode_m, cpu_vars>>

key_up ==
  /\ main # "returned"
  /\ \E k \in held :
       /\ held' = held \ {k}
       /\ events' = Append(events, [type |-> "up", key |-> k, mod |-> "none"])
  /\ UNCHANGED <<presses, last, event, main, keycode, keycode_m, cpu_vars>>

closes_window ==
  /\ main # "returned" /\ \A i \in DOMAIN events : events[i].type # "quit"
  /\ events' = Append(events, [type |-> "quit"])
  /\ UNCHANGED <<keyboard, event, main, keycode, keycode_m, cpu_vars>>

-----------------------------------------------------------------------------
(* main(): the loop over the events.                                        *)

Exits(e) ==
  \/ e.type = "quit"
  \/ e.type = "down" /\ e.key = Escape /\ e.mod = "lshift"

Typed(e) == e.type = "down" /\ e.mod = "none"

\* SDL_WaitEvent(), and the tests of the event.
main_event ==
  /\ main = "waits" /\ events # << >>
  /\ event' = Head(events) /\ events' = Tail(events)
  /\ main' = IF Exits(event') THEN "returned"
             ELSE IF event'.type = "up" \/ Typed(event') THEN "locks"
             ELSE "waits"
  /\ UNCHANGED <<keyboard, keycode, keycode_m, cpu_vars>>

main_lock ==
  /\ main = "locks" /\ keycode_m = "none"
  /\ keycode_m' = "main" /\ main' = "stores"
  /\ UNCHANGED <<keyboard, events, event, keycode, cpu_vars>>

\* Mutant: only the key whose code is there clears it, by its symbol.
main_store_own ==
  /\ main = "stores" /\ main' = "unlocks"
  /\ keycode' = IF event.type = "down" THEN event.key % 256
                ELSE IF event.key = keycode THEN 0 ELSE keycode
  /\ UNCHANGED <<keyboard, events, event, keycode_m, cpu_vars>>

\* Any key that goes up clears the code; a symbol is cut to a byte.
main_store ==
  /\ main = "stores" /\ main' = "unlocks"
  /\ keycode' = IF event.type = "up" THEN 0 ELSE event.key % 256
  /\ UNCHANGED <<keyboard, events, event, keycode_m, cpu_vars>>

main_unlock ==
  /\ main = "unlocks" /\ main' = "waits"
  /\ keycode_m' = "none"
  /\ UNCHANGED <<keyboard, events, event, keycode, cpu_vars>>

-----------------------------------------------------------------------------
(* keycode_memhook(), whenever the program reads the key register.          *)

cpu_call ==
  /\ main # "returned" /\ poll = "runs"
  /\ poll' = "locks"
  /\ UNCHANGED <<keyboard, events, event, main, keycode, keycode_m, got>>

cpu_lock ==
  /\ main # "returned" /\ poll = "locks" /\ keycode_m = "none"
  /\ keycode_m' = "cpu" /\ poll' = "reads"
  /\ UNCHANGED <<keyboard, events, event, main, keycode, got>>

cpu_read ==
  /\ main # "returned" /\ poll = "reads"
  /\ got' = keycode /\ poll' = "unlocks"
  /\ UNCHANGED <<keyboard, events, event, main, keycode, keycode_m>>

\* Mutant: the mutex is not given back.
cpu_unlock_not ==
  /\ main # "returned" /\ poll = "unlocks"
  /\ poll' = "runs"
  /\ UNCHANGED <<keyboard, events, event, main, keycode, keycode_m, got>>

cpu_unlock ==
  /\ main # "returned" /\ poll = "unlocks"
  /\ keycode_m' = "none" /\ poll' = "runs"
  /\ UNCHANGED <<keyboard, events, event, main, keycode, got>>

KeysInit ==
  /\ held = {} /\ presses = 0 /\ last = 0 /\ events = << >>
  /\ event = [type |-> "none"] /\ main = "waits"
  /\ keycode = 0 /\ keycode_m = "none"
  /\ poll = "runs" /\ got = 0

User    == key_down \/ key_up \/ closes_window
MainRun == main_event \/ main_lock \/ main_store \/ main_unlock
CpuHook == cpu_lock \/ cpu_read \/ cpu_unlock

KeysNext == User \/ MainRun \/ cpu_call \/ CpuHook

KeysSpec == KeysInit /\ [][KeysNext]_keys_vars

\* Both threads run, and each gets a mutex that is free again and again: the CPU
\* thread sleeps after every instruction (step_cb), outside of the mutex, and
\* the user presses only so many keys.
FairKeysSpec ==
  /\ KeysSpec
  /\ WF_keys_vars(MainRun) /\ SF_keys_vars(main_lock)
  /\ WF_keys_vars(CpuHook)

-----------------------------------------------------------------------------
InMutex(place) == place \in {"reads", "stores", "unlocks"}

\* The mutex is with the thread that is between its lock and its unlock: the two
\* never meet at the key code.
MutexHeld ==
  /\ InMutex(main) <=> keycode_m = "main"
  /\ InMutex(poll) <=> keycode_m = "cpu"

\* Once main() has seen all that the user did, a key code that is not 0 is that of
\* the last key typed, and this key is still down: neither a key that is up again
\* nor one that was typed before another leaves its code there.
Settled == main = "waits" /\ events = << >>

NoGhostKey == Settled /\ keycode # 0 => last \in held /\ keycode = last % 256

\* "$FF: Last key pressed": at least while the last key typed is down, and main()
\* has seen all that the user did, its code is there.
LastKeyPressed == Settled /\ last \in held => keycode = last % 256

\* Every key that goes down or up is seen, and no read of the key register gets
\* stuck, however often the other thread takes the mutex.
EventsSeen   == events # << >> ~> Settled \/ main = "returned"
KeyReadEnds == poll = "locks" ~> poll = "runs" \/ main = "returned"

=============================================================================
