-------------------------- MODULE LifecycleProofs --------------------------
(***************************************************************************)
(* Theorems about Lifecycle, for any number of power-ons and a client that *)
(* installs, clears and powers off at any time.                            *)
(***************************************************************************)
EXTENDS Lifecycle, TLAPS

Place == {"none", "top", "executes", "in hook", "resumes", "tests", "calls",
          "in callback", "leaves", "ended", "crashed"}

LifecycleType ==
  /\ is_powered_on \in BOOLEAN /\ step_cb \in BOOLEAN /\ hooks \in BOOLEAN
  /\ eh_fun \in BOOLEAN
  /\ starts \in 0..MaxStarts
  /\ loop \in [Loop -> Place] /\ inside \subseteq Loop
  /\ client \in {"free", "in loop", "has created", "clears hooks", "clears callback"}

\* A memory hook is called where a list is walked.
InsideWalks == \A t \in inside : loop[t] \in {"executes", "resumes", "calls"}

\* Loops are started in order.
InOrder == \A t \in Loop : t > starts => loop[t] = "none"

\* A loop whose machine is taken away loses all that it needs.
TakesAll == "machine" \in taken => "callback" \in taken /\ "hooks" \in taken

\* Only the loop started last can be active.
OnlyLast == \A t \in Loop : Active(t) => t = starts

\* What the place of the client says of the flag and of the loops.
ClientKnows ==
  /\ client = "free" /\ ~is_powered_on => ~Working
  /\ client \in {"clears hooks", "clears callback"} => ~Working
  /\ client \in {"in loop", "has created"} => ~is_powered_on

\* The machine being off, or being cleared, only an image is in memory.
MemoryOf ==
  /\ stored \subseteq {Image, starts}
  /\ client \in {"clears hooks", "clears callback"} => stored \subseteq {Image}
  /\ client = "free" /\ ~is_powered_on => stored \subseteq {Image}

\* A callback that is tested and not taken away is there.
Tested == \A t \in Loop : loop[t] # "crashed" /\ (loop[t] = "calls" => step_cb)

Inv ==
  /\ LifecycleType /\ InsideWalks /\ InOrder /\ TakesAll
  /\ "machine" \notin taken => OnlyLast /\ ClientKnows /\ MemoryOf
  /\ "callback" \notin taken => Tested

LEMMA InitInv == PowerInit => Inv
<1> SUFFICES ASSUME PowerInit PROVE Inv
  OBVIOUS
<1>1. LifecycleType
  <2>1. starts \in 0..MaxStarts
    BY StartsAssumption DEF PowerInit
  <2>2. loop \in [Loop -> Place]
    BY DEF PowerInit, Place
  <2> QED BY <2>1, <2>2 DEF PowerInit, LifecycleType
<1>2. \A t \in Loop : loop[t] = "none"
  BY DEF PowerInit
<1>3. OnlyLast /\ ClientKnows /\ Tested
  BY <1>2 DEF OnlyLast, ClientKnows, Tested, Active, Working, PowerInit
<1>4. MemoryOf /\ InsideWalks /\ InOrder /\ TakesAll
  BY <1>2 DEF MemoryOf, InsideWalks, InOrder, TakesAll, PowerInit
<1> QED BY <1>1, <1>3, <1>4 DEF Inv

-----------------------------------------------------------------------------
(* The loops.                                                               *)

\* A loop that moves leaves what the client has installed, and is active then
\* only if it was before.
LEMMA LoopGoes ==
  ASSUME Inv, NEW t \in Loop, cpu_thread(t), UNCHANGED inside
  PROVE  /\ UNCHANGED <<is_powered_on, starts, client, step_cb, hooks, eh_fun, taken>>
         /\ t \notin inside /\ loop[t] # "none"
         /\ loop' \in [Loop -> Place]
         /\ \A u \in Loop : u # t => loop'[u] = loop[u]
         /\ \A u \in Loop : Active(u)' => Active(u)
         /\ loop'[t] = "calls" => step_cb
         /\ loop'[t] = "crashed" => loop[t] = "calls" /\ ~step_cb
         /\ stored' = stored \/ (Active(t) /\ stored' = stored \cup {t})
<1> USE DEF Inv, LifecycleType, Goes, At, control, installed
<1>1. ~memhook_called(t) /\ ~memhook_returns(t)
  <2>1. ~memhook_called(t)
    BY DEF memhook_called, Walks
  <2>2. ~memhook_returns(t)
    BY DEF memhook_returns
  <2> QED BY <2>1, <2>2
<1>2. PICK place \in Place : Goes(t, place)
  BY <1>1 DEF cpu_thread, cpu_executes, cpu_executed, cpu_BRK, hook_returns, cpu_resumed,
              hook_exits, cpu_tests, cpu_calls, callback_goes_on, callback_stops,
              cpu_breaks, Place
<1>3. \A u \in Loop : u # t => loop'[u] = loop[u]
  BY <1>2
<1>4. Active(t)' => Active(t)
  BY <1>1 DEF cpu_thread, cpu_executes, cpu_executed, cpu_BRK, hook_returns, cpu_resumed,
              hook_exits, cpu_tests, cpu_calls, callback_goes_on, callback_stops,
              cpu_breaks, Active
<1>5. /\ loop[t] # "none"
      /\ loop'[t] = "calls" => step_cb
      /\ loop'[t] = "crashed" => loop[t] = "calls" /\ ~step_cb
  BY <1>1 DEF cpu_thread, cpu_executes, cpu_executed, cpu_BRK, hook_returns, cpu_resumed,
              hook_exits, cpu_tests, cpu_calls, callback_goes_on, callback_stops,
              cpu_breaks
<1>6. stored' = stored \/ (Active(t) /\ stored' = stored \cup {t})
  BY <1>1 DEF cpu_thread, cpu_executes, cpu_executed, cpu_BRK, hook_returns, cpu_resumed,
              hook_exits, cpu_tests, cpu_calls, callback_goes_on, callback_stops,
              cpu_breaks, Active
<1>7. \A u \in Loop : Active(u)' => Active(u)
  BY <1>3, <1>4 DEF Active
<1> QED BY <1>2, <1>3, <1>5, <1>6, <1>7

LEMMA LoopKeepsInv ==
  ASSUME Inv, NEW t \in Loop, cpu_thread(t), UNCHANGED inside
  PROVE  Inv'
<1>1. /\ UNCHANGED <<is_powered_on, starts, client, step_cb, hooks, eh_fun, taken>>
      /\ t \notin inside /\ loop[t] # "none"
      /\ loop' \in [Loop -> Place]
      /\ \A u \in Loop : u # t => loop'[u] = loop[u]
      /\ \A u \in Loop : Active(u)' => Active(u)
      /\ loop'[t] = "calls" => step_cb
      /\ loop'[t] = "crashed" => loop[t] = "calls" /\ ~step_cb
      /\ stored' = stored \/ (Active(t) /\ stored' = stored \cup {t})
  BY LoopGoes
<1>2. LifecycleType' /\ TakesAll'
  BY <1>1 DEF Inv, LifecycleType, TakesAll
<1>3. InsideWalks' /\ InOrder'
  BY <1>1 DEF Inv, LifecycleType, InsideWalks, InOrder
<1>4. ASSUME "machine" \notin taken
      PROVE  OnlyLast' /\ ClientKnows' /\ MemoryOf'
  <2>1. Working' => Working
    BY <1>1 DEF Working
  <2>2. OnlyLast' /\ ClientKnows'
    BY <1>1, <1>4, <2>1 DEF Inv, OnlyLast, ClientKnows
  <2>3. CASE stored' = stored
    BY <1>1, <1>4, <2>3, <2>2 DEF Inv, MemoryOf
  <2>4. CASE Active(t) /\ stored' = stored \cup {t}
    <3>1. t = starts /\ Working
      BY <1>4, <2>4 DEF Inv, OnlyLast, Working
    <3>2. /\ client \notin {"clears hooks", "clears callback"}
          /\ ~(client = "free" /\ ~is_powered_on)
      BY <1>4, <3>1 DEF Inv, ClientKnows
    <3>3. stored' \subseteq {Image, starts}
      BY <1>4, <2>4, <3>1 DEF Inv, MemoryOf
    <3> QED BY <1>1, <2>2, <3>2, <3>3 DEF MemoryOf
  <2> QED BY <1>1, <2>2, <2>3, <2>4
<1>5. ASSUME "callback" \notin taken
      PROVE  Tested'
  <2>1. Tested
    BY <1>5 DEF Inv
  <2>2. loop'[t] # "crashed"
    BY <1>1, <2>1 DEF Tested
  <2> QED BY <1>1, <2>1, <2>2 DEF Tested
<1> QED BY <1>1, <1>2, <1>3, <1>4, <1>5 DEF Inv

LEMMA MemhookKeepsInv ==
  ASSUME Inv, NEW t \in Loop, memhook_called(t) \/ memhook_returns(t)
  PROVE  Inv'
<1>1. UNCHANGED <<is_powered_on, starts, client, step_cb, hooks, eh_fun, stored, loop, taken>>
  BY DEF memhook_called, memhook_returns, control, installed
<1>2. \/ inside' = inside \cup {t} /\ loop[t] \in {"executes", "resumes", "calls"}
      \/ inside' = inside \ {t}
  BY DEF memhook_called, memhook_returns, Walks
<1>3. LifecycleType' /\ InsideWalks'
  BY <1>1, <1>2 DEF Inv, LifecycleType, InsideWalks
<1>4. /\ TakesAll' <=> TakesAll
      /\ InOrder' <=> InOrder
      /\ OnlyLast' <=> OnlyLast
      /\ ClientKnows' <=> ClientKnows
      /\ MemoryOf' <=> MemoryOf
      /\ Tested' <=> Tested
  BY <1>1 DEF TakesAll, InOrder, OnlyLast, ClientKnows, MemoryOf, Tested, Active, Working
<1> QED BY <1>1, <1>3, <1>4 DEF Inv

-----------------------------------------------------------------------------
(* What the client calls.                                                   *)

LEMMA TakesMore ==
  ASSUME NEW what, NEW yes, Takes(what, yes)
  PROVE  taken \subseteq taken' /\ (yes => what \subseteq taken')
<1> QED BY DEF Takes

\* Client code in the thread of a loop that is not at the call of its callback.
LEMMA ClientCodeIsActive ==
  ASSUME Inv, NEW t \in Loop, InClientCode(t)
  PROVE  Active(t) /\ ~Walks(t)
<1>1. CASE t \in inside
  BY <1>1 DEF Inv, InsideWalks, Active, Walks
<1>2. CASE loop[t] \in {"in hook", "in callback"}
  BY <1>2 DEF Active, Walks
<1> QED BY <1>1, <1>2 DEF InClientCode

LEMMA InstallKeepsInv ==
  ASSUME Inv, sfot_install_step_cb
  PROVE  Inv'
<1>1. /\ UNCHANGED <<is_powered_on, starts, client, hooks, eh_fun, stored, loop, inside>>
      /\ step_cb' \in BOOLEAN
  BY DEF sfot_install_step_cb, control
<1>2. taken \subseteq taken' /\ taken' \subseteq taken \cup {"callback"}
  BY DEF sfot_install_step_cb, Takes
<1>3. LifecycleType' /\ InsideWalks' /\ InOrder'
  BY <1>1 DEF Inv, LifecycleType, InsideWalks, InOrder
<1>4. TakesAll'
  BY <1>2 DEF Inv, TakesAll
<1>5. /\ OnlyLast' <=> OnlyLast
      /\ ClientKnows' <=> ClientKnows
      /\ MemoryOf' <=> MemoryOf
  BY <1>1 DEF OnlyLast, ClientKnows, MemoryOf, Active, Working
<1>6. ASSUME "callback" \notin taken'
      PROVE  Tested'
  <2>1. "callback" \notin taken /\ "machine" \notin taken
    BY <1>2, <1>6 DEF Inv, TakesAll
  <2>2. Tested /\ OnlyLast
    BY <2>1 DEF Inv
  <2>3. CASE ~(step_cb /\ ~step_cb')
    BY <1>1, <2>2, <2>3 DEF Tested
  <2>4. CASE step_cb /\ ~step_cb'
    <3> SUFFICES \A u \in Loop : loop[u] # "calls"
      BY <1>1, <2>2 DEF Tested
    <3>1. CASE Takes({"callback"}, step_cb /\ ~step_cb' /\ Working)
      <4>1. ~Working
        BY <1>6, <2>4, <3>1 DEF Takes
      <4> QED BY <4>1 DEF Working, Active
    <3>2. CASE \E t \in Loop :
                 InClientCode(t) /\ Takes({"callback"}, step_cb /\ ~step_cb' /\ At(t, "calls"))
      <4>1. PICK t \in Loop :
              InClientCode(t) /\ Takes({"callback"}, step_cb /\ ~step_cb' /\ At(t, "calls"))
        BY <3>2
      <4>2. loop[t] # "calls"
        BY <1>6, <2>4, <4>1 DEF Takes, At
      <4>3. t = starts
        BY <2>2, <4>1, ClientCodeIsActive DEF OnlyLast
      <4> QED BY <2>2, <4>2, <4>3 DEF OnlyLast, Active
    <3> QED BY <3>1, <3>2 DEF sfot_install_step_cb
  <2> QED BY <2>3, <2>4
<1> QED BY <1>2, <1>3, <1>4, <1>5, <1>6 DEF Inv

LEMMA HooksKeepInv ==
  ASSUME Inv, sfot_memhook \/ sfot_excepthook
  PROVE  Inv'
<1>1. /\ UNCHANGED <<is_powered_on, starts, client, step_cb, stored, loop, inside>>
      /\ hooks' \in BOOLEAN /\ eh_fun' \in BOOLEAN
  BY DEF sfot_memhook, sfot_excepthook, control, Inv, LifecycleType
<1>2. taken \subseteq taken' /\ taken' \subseteq taken \cup {"hooks"}
  BY DEF sfot_memhook, sfot_excepthook, Takes
<1>3. LifecycleType' /\ InsideWalks' /\ InOrder'
  BY <1>1 DEF Inv, LifecycleType, InsideWalks, InOrder
<1>4. TakesAll'
  BY <1>2 DEF Inv, TakesAll
<1>5. /\ OnlyLast' <=> OnlyLast
      /\ ClientKnows' <=> ClientKnows
      /\ MemoryOf' <=> MemoryOf
      /\ Tested' <=> Tested
  BY <1>1 DEF OnlyLast, ClientKnows, MemoryOf, Tested, Active, Working
<1> QED BY <1>2, <1>3, <1>4, <1>5 DEF Inv

LEMMA StreamKeepsInv ==
  ASSUME Inv, sfot_load_stream
  PROVE  Inv'
<1>1. /\ stored' = stored \cup {Image}
      /\ UNCHANGED <<is_powered_on, starts, client, step_cb, hooks, eh_fun, loop, inside, taken>>
  BY DEF sfot_load_stream, control, installed
<1>2. LifecycleType' /\ InsideWalks' /\ InOrder' /\ TakesAll'
  BY <1>1 DEF Inv, LifecycleType, InsideWalks, InOrder, TakesAll
<1>3. /\ OnlyLast' <=> OnlyLast
      /\ ClientKnows' <=> ClientKnows
      /\ Tested' <=> Tested
  BY <1>1 DEF OnlyLast, ClientKnows, Tested, Active, Working
<1>4. MemoryOf => MemoryOf'
  BY <1>1 DEF MemoryOf
<1> QED BY <1>1, <1>2, <1>3, <1>4 DEF Inv

-----------------------------------------------------------------------------
(* Power-on and power-off.                                                  *)

LEMMA NextStart ==
  ASSUME NEW n \in 0..MaxStarts, n < MaxStarts
  PROVE  /\ n + 1 \in 1..MaxStarts /\ n + 1 \in 0..MaxStarts
         /\ n + 1 > n
         /\ \A u \in 1..MaxStarts : u > n + 1 => u > n /\ u # n + 1
<1> QED BY StartsAssumption

\* A power-on finds no loop at work: the client is free and the flag is clear.
LEMMA PowerOnKeepsInv ==
  ASSUME Inv, sfot_poweron
  PROVE  Inv'
<1>1. PICK mode \in {"in loop", "has created"} : Started(mode)
  BY DEF sfot_poweron
<1>2. /\ client = "free" /\ ~is_powered_on
      /\ UNCHANGED <<is_powered_on, step_cb, hooks, eh_fun, stored, inside, taken>>
  BY <1>1 DEF sfot_poweron, Started, installed
<1>3. /\ starts + 1 \in Loop /\ starts + 1 \in 0..MaxStarts
      /\ starts + 1 > starts
      /\ \A u \in Loop : u > starts + 1 => u > starts /\ u # starts + 1
  <2>1. starts < MaxStarts
    BY <1>1 DEF Started
  <2>2. starts \in 0..MaxStarts
    BY DEF Inv, LifecycleType
  <2>3. /\ starts + 1 \in 1..MaxStarts /\ starts + 1 \in 0..MaxStarts
        /\ starts + 1 > starts
        /\ \A u \in 1..MaxStarts : u > starts + 1 => u > starts /\ u # starts + 1
    BY <2>1, <2>2, NextStart
  <2> QED BY <2>3 DEF Loop
<1>4. /\ starts' = starts + 1 /\ client' = mode
      /\ loop' = [loop EXCEPT ![starts + 1] = "top"]
  BY <1>1 DEF Started
<1>5. /\ loop' \in [Loop -> Place] /\ loop'[starts + 1] = "top"
      /\ \A u \in Loop : u # starts + 1 => loop'[u] = loop[u]
  BY <1>3, <1>4 DEF Inv, LifecycleType, Place
<1>6. LifecycleType' /\ TakesAll'
  BY <1>2, <1>3, <1>4, <1>5 DEF Inv, LifecycleType, TakesAll
<1>7. ASSUME "machine" \notin taken
      PROVE  OnlyLast' /\ ClientKnows' /\ MemoryOf'
  <2>1. \A u \in Loop : ~Active(u)
    BY <1>2, <1>7 DEF Inv, ClientKnows, Working
  <2>2. OnlyLast'
    BY <1>4, <1>5, <2>1 DEF OnlyLast, Active
  <2>3. ClientKnows'
    BY <1>2, <1>4 DEF ClientKnows
  <2>4. MemoryOf'
    BY <1>2, <1>4, <1>7 DEF Inv, MemoryOf
  <2> QED BY <2>2, <2>3, <2>4
<1>8. InsideWalks' /\ InOrder'
  <2>1. loop[starts + 1] = "none"
    BY <1>3 DEF Inv, InOrder
  <2>2. starts + 1 \notin inside
    BY <2>1 DEF Inv, InsideWalks
  <2> QED BY <1>2, <1>3, <1>4, <1>5, <2>2 DEF Inv, LifecycleType, InsideWalks, InOrder
<1>9. Tested => Tested'
  BY <1>2, <1>5 DEF Tested
<1> QED BY <1>2, <1>6, <1>7, <1>8, <1>9 DEF Inv

LEMMA NextKeepsInv == Inv /\ [PowerNext]_power_vars => Inv'
<1> SUFFICES ASSUME Inv, [PowerNext]_power_vars PROVE Inv'
  OBVIOUS
<1>1. CASE \E t \in Loop : cpu_thread(t)
  <2>1. PICK t \in Loop : cpu_thread(t)
    BY <1>1
  <2>2. CASE memhook_called(t) \/ memhook_returns(t)
    BY <2>2, MemhookKeepsInv
  <2>3. CASE ~memhook_called(t) /\ ~memhook_returns(t)
    <3>1. UNCHANGED inside
      BY <2>1, <2>3 DEF cpu_thread, cpu_executes, cpu_executed, cpu_BRK, hook_returns,
                        cpu_resumed, hook_exits, cpu_tests, cpu_calls, callback_goes_on,
                        callback_stops, cpu_breaks, Goes
    <3> QED BY <2>1, <3>1, LoopKeepsInv
  <2> QED BY <2>2, <2>3
<1>2. CASE sfot_load_stream
  BY <1>2, StreamKeepsInv
<1>3. CASE sfot_install_step_cb
  BY <1>3, InstallKeepsInv
<1>4. CASE sfot_memhook \/ sfot_excepthook
  BY <1>4, HooksKeepInv
<1>5. CASE sfot_poweron
  BY <1>5, PowerOnKeepsInv
<1>6. CASE sfot_poweron_ends
  <2>1. /\ client \in {"in loop", "has created"} /\ is_powered_on' = TRUE /\ client' = "free"
        /\ UNCHANGED <<step_cb, hooks, eh_fun, stored, starts, loop, inside, taken>>
    BY <1>6 DEF sfot_poweron_ends, installed
  <2> QED BY <2>1 DEF Inv, LifecycleType, InsideWalks, InOrder, TakesAll, OnlyLast, ClientKnows,
                      MemoryOf, Tested, Active, Working
<1>7. CASE sfot_poweroff
  <2>1. /\ client = "free" /\ is_powered_on /\ client' = "clears hooks" /\ stored' = {}
        /\ UNCHANGED <<is_powered_on, step_cb, hooks, eh_fun, starts, loop, inside>>
        /\ taken' = IF Working THEN taken \cup {"machine", "callback", "hooks"} ELSE taken
    BY <1>7 DEF sfot_poweroff, Clearing, installed, Takes
  <2>2. LifecycleType' /\ InsideWalks' /\ InOrder' /\ TakesAll'
    BY <2>1 DEF Inv, LifecycleType, InsideWalks, InOrder, TakesAll
  <2>3. /\ OnlyLast' <=> OnlyLast
        /\ Tested' <=> Tested
        /\ Working' <=> Working
    BY <2>1 DEF OnlyLast, Tested, Active, Working
  <2>4. ~Working => ClientKnows'
    BY <2>1, <2>3 DEF ClientKnows
  <2>5. MemoryOf'
    BY <2>1 DEF MemoryOf
  <2>6. "machine" \notin taken' => ~Working /\ "machine" \notin taken
    BY <2>1
  <2>7. "callback" \notin taken' => "callback" \notin taken
    BY <2>1
  <2> QED BY <2>2, <2>3, <2>4, <2>5, <2>6, <2>7 DEF Inv
<1>8. CASE poweroff_hooks
  <2>1. /\ client = "clears hooks" /\ client' = "clears callback"
        /\ hooks' = FALSE /\ eh_fun' = FALSE
        /\ UNCHANGED <<is_powered_on, step_cb, stored, starts, loop, inside, taken>>
    BY <1>8 DEF poweroff_hooks
  <2> QED BY <2>1 DEF Inv, LifecycleType, InsideWalks, InOrder, TakesAll, OnlyLast, ClientKnows,
                      MemoryOf, Tested, Active, Working
<1>9. CASE poweroff_step_cb
  <2>1. /\ client = "clears callback" /\ client' = "free"
        /\ step_cb' = FALSE /\ is_powered_on' = FALSE
        /\ UNCHANGED <<hooks, eh_fun, stored, starts, loop, inside, taken>>
    BY <1>9 DEF poweroff_step_cb
  <2>2. LifecycleType' /\ InsideWalks' /\ InOrder' /\ TakesAll'
    BY <2>1 DEF Inv, LifecycleType, InsideWalks, InOrder, TakesAll
  <2>3. "machine" \notin taken => OnlyLast' /\ ClientKnows' /\ MemoryOf'
    BY <2>1 DEF Inv, OnlyLast, ClientKnows, MemoryOf, Active, Working
  <2>4. ASSUME "callback" \notin taken
        PROVE  Tested'
    <3>1. "machine" \notin taken /\ Tested
      BY <2>4 DEF Inv, TakesAll
    <3>2. ~Working
      BY <2>1, <3>1 DEF Inv, ClientKnows
    <3> QED BY <2>1, <3>1, <3>2 DEF Tested, Working, Active
  <2> QED BY <2>1, <2>2, <2>3, <2>4 DEF Inv
<1>10. CASE UNCHANGED power_vars
  BY <1>10 DEF power_vars, control, installed, Inv, LifecycleType, InsideWalks, InOrder, TakesAll,
               OnlyLast, ClientKnows, MemoryOf, Tested, Active, Working
<1> QED BY <1>1, <1>2, <1>3, <1>4, <1>5, <1>6, <1>7, <1>8, <1>9, <1>10 DEF PowerNext

LEMMA Invariance == PowerSpec => []Inv
<1> QED BY InitInv, NextKeepsInv, PTL DEF PowerSpec

-----------------------------------------------------------------------------
\* However often the machine is powered on and off, in whichever mode, by a client
\* that powers off once its loop has told it to end, two loops never share its
\* registers.
THEOREM AtMostOneLoop == PowerSpec => []OneLoop
<1>1. Inv => OneLoop
  BY DEF Inv, OnlyLast, OneLoop
<1> QED BY <1>1, Invariance, PTL

\* For such a client, a machine whose flag is clear is not being run.
THEOREM OffMeansOff == PowerSpec => []OffIsOff
<1>1. Inv => OffIsOff
  BY DEF Inv, ClientKnows, OffIsOff
<1> QED BY <1>1, Invariance, PTL

\* For such a client, no run of the machine finds in memory what an earlier one
\* left there.
THEOREM MemoryIsOwn == PowerSpec => []OwnMemory
<1>1. Inv => OwnMemory
  BY DEF Inv, OnlyLast, MemoryOf, OwnMemory
<1> QED BY <1>1, Invariance, PTL

\* A loop that calls NULL has had its callback taken: by another thread while it
\* was at work, or by a hook called on the way from the test to the call.
THEOREM CallbackStays == PowerSpec => []CallbackThere
<1>1. Inv => CallbackThere
  BY DEF Inv, Tested, CallbackThere, At
<1> QED BY <1>1, Invariance, PTL

\* Only a clear or a power-off from another thread, under a loop at work, frees the
\* lists of hooks where they may be walked; client code in the loop's thread and a
\* power-off after the loop's end never do.
THEOREM HooksOutliveUse == PowerSpec => HooksStayInUse
<1>1. Inv /\ [PowerNext]_power_vars =>
        [hooks /\ ~hooks' => "hooks" \in taken' \/ \A t \in Loop : ~Walks(t)]_power_vars
  <2> SUFFICES ASSUME Inv, PowerNext, hooks, ~hooks', "hooks" \notin taken'
               PROVE  \A t \in Loop : ~Walks(t)
    OBVIOUS
  <2>1. CASE sfot_memhook
    <3>1. CASE Takes({"hooks"}, hooks /\ ~hooks' /\ Working)
      BY <3>1 DEF Takes, Working, Active, Walks
    <3>2. CASE (\E t \in Loop : InClientCode(t)) /\ UNCHANGED taken
      <4>1. PICK t \in Loop : InClientCode(t)
        BY <3>2
      <4>2. "machine" \notin taken
        BY <3>2 DEF Inv, TakesAll
      <4>3. OnlyLast
        BY <4>2 DEF Inv
      <4>4. t = starts /\ ~Walks(t)
        BY <4>1, <4>3, ClientCodeIsActive DEF OnlyLast
      <4> QED BY <4>3, <4>4 DEF OnlyLast, Walks, Active
    <3> QED BY <2>1, <3>1, <3>2 DEF sfot_memhook
  <2>2. CASE poweroff_hooks
    <3>1. client = "clears hooks" /\ "hooks" \notin taken
      BY <2>2 DEF poweroff_hooks
    <3>2. ~Working
      BY <3>1 DEF Inv, TakesAll, ClientKnows
    <3> QED BY <3>2 DEF Working, Walks, Active
  <2>3. CASE ~sfot_memhook /\ ~poweroff_hooks
    <3>1. UNCHANGED hooks
      BY <2>3 DEF PowerNext, cpu_thread, cpu_executes, cpu_executed, memhook_called,
                  memhook_returns, cpu_BRK, hook_returns, cpu_resumed, hook_exits,
                  cpu_tests, cpu_calls, callback_goes_on, callback_stops, cpu_breaks, Goes,
                  sfot_load_stream, sfot_install_step_cb, sfot_excepthook, sfot_poweron,
                  Started, sfot_poweron_ends, sfot_poweroff, Clearing, poweroff_step_cb,
                  installed
    <3> QED BY <3>1
  <2> QED BY <2>1, <2>2, <2>3
<1> QED BY <1>1, Invariance, PTL DEF PowerSpec, HooksStayInUse

=============================================================================
