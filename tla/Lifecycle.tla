----------------------------- MODULE Lifecycle -----------------------------
(***************************************************************************)
(* sfot.c, between its client and the CPU loops it starts: power-on in the *)
(* caller or in a thread, the step callback, the hooks, and power-off.     *)
(*                                                                         *)
(* The client is external.  In its own thread it loads, installs, clears   *)
(* and powers off whenever it likes, a loop running or not; what it has    *)
(* installed runs in the thread of the loop and may load, install and      *)
(* clear too.  Power-on and power-off are called from the client's own     *)
(* thread only.  Nothing in sfot.c waits for a thread, so that the         *)
(* variable taken keeps a history of what was taken from a loop that still *)
(* needed it.                                                              *)
(***************************************************************************)
EXTENDS Integers, FiniteSets

CONSTANT MaxStarts   \* how often the machine is powered on

ASSUME StartsAssumption == MaxStarts \in Nat

VARIABLES
  is_powered_on,
  step_cb,    \* is a step callback installed?
  hooks,      \* are memory hooks installed?
  eh_fun,     \* is an exception hook installed?
  stored,     \* what has been stored in memory since it was cleared: an image,
              \* and the values of loops
  starts,     \* how many loops have been started
  loop,       \* where each of them is
  inside,     \* the loops that are in a memory hook of the client
  client,     \* where the client's thread is
  taken       \* what has been taken away from a loop at work (a history)

control    == <<is_powered_on, starts, client>>
installed  == <<step_cb, hooks, eh_fun>>
power_vars == <<control, installed, stored, loop, inside, taken>>

Loop  == 1..MaxStarts
Image == 0

\* A loop that can still touch the machine, or call what the client installed.
Active(t) == loop[t] \in {"top", "executes", "in hook", "resumes", "tests", "calls",
                          "in callback"}
Working   == \E t \in Loop : Active(t)

\* Where memory is read and written through the lists of hooks.
Walks(t) == loop[t] \in {"executes", "resumes", "calls"} /\ t \notin inside

\* Where the client's code runs in the thread of the loop.
InClientCode(t) == loop[t] \in {"in hook", "in callback"} \/ t \in inside

At(t, place) == loop[t] = place
Goes(t, place) ==
  /\ t \notin inside
  /\ loop' = [loop EXCEPT ![t] = place]
  /\ UNCHANGED <<control, installed, inside, taken>>

-----------------------------------------------------------------------------
(* cpu_thread()                                                             *)

cpu_executes(t) == At(t, "top") /\ Goes(t, "executes") /\ UNCHANGED stored

\* opcode_fetch() and opcode_exec() use the memory.
cpu_executed(t) ==
  /\ At(t, "executes") /\ Goes(t, "tests")
  /\ stored' \in {stored, stored \cup {t}}

\* A read or a write comes to a hook: check() has done with the list when the
\* hook is called.
memhook_called(t) ==
  /\ Walks(t) /\ hooks
  /\ inside' = inside \cup {t}
  /\ UNCHANGED <<control, installed, stored, loop, taken>>

memhook_returns(t) ==
  /\ t \in inside /\ inside' = inside \ {t}
  /\ UNCHANGED <<control, installed, stored, loop, taken>>

\* BRK: excepthook_check() calls the hook that is there, which returns, or ends
\* its thread and lets the client know.
cpu_BRK(t) == At(t, "executes") /\ eh_fun /\ Goes(t, "in hook") /\ UNCHANGED stored

\* asm_break() has the vector to read yet.
hook_returns(t) == At(t, "in hook") /\ Goes(t, "resumes") /\ UNCHANGED stored
cpu_resumed(t)  == At(t, "resumes") /\ Goes(t, "tests") /\ UNCHANGED stored

hook_exits(t) ==
  /\ At(t, "in hook") /\ ~(client = "in loop" /\ t = starts)
  /\ Goes(t, "leaves") /\ UNCHANGED stored

\* Mutant: the callback is taken to be there.
cpu_tests_not(t) == At(t, "tests") /\ Goes(t, "calls") /\ UNCHANGED stored

cpu_tests(t) ==
  /\ At(t, "tests") /\ Goes(t, IF step_cb THEN "calls" ELSE "top")
  /\ UNCHANGED stored

\* collect_step_info() reads the instruction again; then comes the call, of NULL
\* when the callback is gone by now.
cpu_calls(t) ==
  /\ At(t, "calls") /\ Goes(t, IF step_cb THEN "in callback" ELSE "crashed")
  /\ UNCHANGED stored

\* The callback goes on, or asks to stop and lets the client know before it
\* returns.
callback_goes_on(t) == At(t, "in callback") /\ Goes(t, "top") /\ UNCHANGED stored
callback_stops(t)   == At(t, "in callback") /\ Goes(t, "leaves") /\ UNCHANGED stored

\* Mutants: the loop runs on, for ever or for an instruction.
cpu_breaks_not(t) == At(t, "leaves") /\ Goes(t, "top") /\ UNCHANGED stored

cpu_breaks_late(t) ==
  /\ At(t, "leaves") /\ (Goes(t, "executes") \/ Goes(t, "ended"))
  /\ UNCHANGED stored

\* The answer is not 0: the loop is left, and cpu_thread() returns.  Behind
\* pthread_exit() there is nothing left to do either.
cpu_breaks(t) == At(t, "leaves") /\ Goes(t, "ended") /\ UNCHANGED stored

cpu_thread(t) ==
  \/ cpu_executes(t) \/ cpu_executed(t) \/ memhook_called(t) \/ memhook_returns(t)
  \/ cpu_BRK(t) \/ hook_returns(t) \/ cpu_resumed(t) \/ hook_exits(t)
  \/ cpu_tests(t) \/ cpu_calls(t)
  \/ callback_goes_on(t) \/ callback_stops(t) \/ cpu_breaks(t)

-----------------------------------------------------------------------------
(* What the client calls, in its own thread or in that of a loop.  None of  *)
(* it looks at is_powered_on.                                               *)

Takes(what, yes) == taken' = IF yes THEN taken \cup what ELSE taken

sfot_load_stream ==
  /\ client = "free" \/ \E t \in Loop : InClientCode(t)
  /\ stored' = stored \cup {Image}
  /\ UNCHANGED <<control, installed, loop, inside, taken>>

\* In the loop's own thread the callback is still needed in a memory hook that
\* collect_step_info() comes to.
sfot_install_step_cb ==
  /\ step_cb' \in BOOLEAN
  /\ \/ client = "free" /\ Takes({"callback"}, step_cb /\ ~step_cb' /\ Working)
     \/ \E t \in Loop :
          InClientCode(t) /\ Takes({"callback"}, step_cb /\ ~step_cb' /\ At(t, "calls"))
  /\ UNCHANGED <<control, hooks, eh_fun, stored, loop, inside>>

\* The insertions, and sfot_memhook_clear().
sfot_memhook ==
  /\ hooks' \in BOOLEAN
  /\ \/ client = "free" /\ Takes({"hooks"}, hooks /\ ~hooks' /\ Working)
     \/ (\E t \in Loop : InClientCode(t)) /\ UNCHANGED taken
  /\ UNCHANGED <<control, step_cb, eh_fun, stored, loop, inside>>

\* The insertion, and sfot_excepthook_clear().
sfot_excepthook ==
  /\ client = "free" \/ \E t \in Loop : InClientCode(t)
  /\ eh_fun' \in BOOLEAN
  /\ UNCHANGED <<control, step_cb, hooks, stored, loop, inside, taken>>

-----------------------------------------------------------------------------
(* Power-on and power-off.                                                  *)

Started(mode) ==
  /\ starts < MaxStarts /\ starts' = starts + 1
  /\ loop' = [loop EXCEPT ![starts + 1] = "top"]
  /\ client' = mode
  /\ UNCHANGED <<is_powered_on, installed, stored, inside, taken>>

\* Mutant: a second power-on is not refused.
sfot_poweron_again == client = "free" /\ (Started("in loop") \/ Started("has created"))

\* A power-on of a machine that is on returns at once, and changes nothing.
sfot_poweron ==
  /\ client = "free" /\ ~is_powered_on
  /\ Started("in loop") \/ Started("has created")

\* The flag is set when the thread has been created, which may be after its end,
\* or when the loop that ran in the client has returned.
sfot_poweron_ends ==
  /\ \/ client = "in loop" /\ At(starts, "ended")
     \/ client = "has created"
  /\ is_powered_on' = TRUE /\ client' = "free"
  /\ UNCHANGED <<installed, stored, starts, loop, inside, taken>>

\* All that a loop needs goes with a power-off.
Clearing ==
  /\ client = "free" /\ is_powered_on
  /\ client' = "clears hooks"
  /\ Takes({"machine", "callback", "hooks"}, Working)
  /\ UNCHANGED <<is_powered_on, installed, starts, loop, inside>>

\* Mutant: the memory is not cleared.
sfot_poweroff_keeps == Clearing /\ UNCHANGED stored

sfot_poweroff == Clearing /\ stored' = {}

poweroff_hooks ==
  /\ client = "clears hooks" /\ client' = "clears callback"
  /\ hooks' = FALSE /\ eh_fun' = FALSE
  /\ UNCHANGED <<is_powered_on, step_cb, stored, starts, loop, inside, taken>>

poweroff_step_cb ==
  /\ client = "clears callback" /\ client' = "free"
  /\ step_cb' = FALSE /\ is_powered_on' = FALSE
  /\ UNCHANGED <<hooks, eh_fun, stored, starts, loop, inside, taken>>

PowerInit ==
  /\ is_powered_on = FALSE /\ step_cb = FALSE /\ hooks = FALSE /\ eh_fun = FALSE
  /\ stored = {} /\ starts = 0 /\ loop = [t \in Loop |-> "none"]
  /\ inside = {} /\ client = "free" /\ taken = {}

\* A call of NULL ends the process.
Lives == \A t \in Loop : loop[t] # "crashed"

PowerNext ==
  /\ Lives
  /\ \/ \E t \in Loop : cpu_thread(t)
     \/ sfot_load_stream \/ sfot_install_step_cb \/ sfot_memhook \/ sfot_excepthook
     \/ sfot_poweron \/ sfot_poweron_ends
     \/ sfot_poweroff \/ poweroff_hooks \/ poweroff_step_cb

PowerSpec == PowerInit /\ [][PowerNext]_power_vars

\* The threads run; that the client does anything, or that the callback ever
\* asks to stop, is not assumed.
FairPowerSpec ==
  /\ PowerSpec
  /\ \A t \in Loop : WF_power_vars(Lives /\ cpu_thread(t))
  /\ WF_power_vars(Lives /\ sfot_poweron_ends)
  /\ WF_power_vars(Lives /\ (poweroff_hooks \/ poweroff_step_cb))

-----------------------------------------------------------------------------
\* Of a client that powers off only once its loop has told it that it ends: one
\* loop at a time uses the registers and the memory, for there is one set of
\* them.
OneLoop ==
  "machine" \notin taken => \A t, u \in Loop : Active(t) /\ Active(u) => t = u

\* For such a client, a machine that is off has no loop, but for the one being
\* started.
OffIsOff == "machine" \notin taken /\ ~is_powered_on /\ client = "free" => ~Working

\* For such a client, no loop finds values of an earlier one in memory.
OwnMemory ==
  "machine" \notin taken => \A t \in Loop : Active(t) => stored \subseteq {Image, t}

\* The callback that cpu_thread() has tested is there when it is called, unless
\* another thread, or a hook that collect_step_info() came to, uninstalled it
\* under the loop: no callback, exception hook or earlier memory hook can have
\* its own loop call NULL, and no step of power-on and power-off can.
CallbackThere == \A t \in Loop : At(t, "crashed") => "callback" \in taken

\* The lists of hooks are freed under a loop that may be walking them, in an
\* instruction, for the vector of a BRK or for the step information, only by a
\* client that clears them or powers off from another thread: hooks and callbacks
\* may clear them where they run.
HooksStayInUse ==
  [][hooks /\ ~hooks' => "hooks" \in taken' \/ \A t \in Loop : ~Walks(t)]_power_vars

\* sfot_poweron() returns: at once with a thread, and otherwise when the callback
\* has asked the loop to stop.
PowerOnReturns ==
  client = "has created" \/ (client = "in loop" /\ At(starts, "leaves"))
    ~> client = "free" \/ ~Lives

=============================================================================
