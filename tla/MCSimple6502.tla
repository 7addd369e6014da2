--------------------------- MODULE MCSimple6502 ---------------------------
(***************************************************************************)
(* simple6502: its screen, its keyboard, and the power-on and power-off of *)
(* the library around its CPU thread.  The three share no state but where  *)
(* the CPU thread is, and each meets every point of the other two; so that *)
(* the states do not multiply, a behaviour here is one of one of the parts *)
(* while the other two rest.                                               *)
(***************************************************************************)
EXTENDS SimpleScreen, SimpleKeys, Lifecycle

VARIABLE part   \* the part of the machine that this behaviour is about

\* Of these bytes two are the same colour.
ThreeBytes == {0, 1, 17}

\* Escape and an arrow key, whose symbol is past 255.
EscapeKey == 27
SomeKeys  == {EscapeKey, 273}

\* The rest of a screen is black.
MachineInit ==
  /\ Init /\ KeysInit /\ PowerInit
  /\ part \in {"screen", "keys", "power"}
  /\ part # "screen" => mem = [i \in Cell |-> 0]

MachineNext ==
  /\ UNCHANGED part
  /\ \/ part = "screen" /\ Next /\ UNCHANGED <<keys_vars, power_vars>>
     \/ part = "keys" /\ KeysNext /\ UNCHANGED <<vars, power_vars>>
     \/ part = "power" /\ PowerNext /\ UNCHANGED <<vars, keys_vars>>

\* The fairness of FairSpec, FairKeysSpec and FairPowerSpec, in their own parts.
MachineSpec ==
  /\ MachineInit /\ [][MachineNext]_<<vars, keys_vars, power_vars, part>>
  /\ WF_vars(part = "screen" /\ (timer_fires \/ timer_draws))
  /\ WF_keys_vars(part = "keys" /\ MainRun)
  /\ SF_keys_vars(part = "keys" /\ main_lock)
  /\ WF_keys_vars(part = "keys" /\ CpuHook)
  /\ \A t \in Loop : WF_power_vars(part = "power" /\ Lives /\ cpu_thread(t))
  /\ WF_power_vars(part = "power" /\ Lives /\ sfot_poweron_ends)
  /\ WF_power_vars(part = "power" /\ Lives /\ (poweroff_hooks \/ poweroff_step_cb))

=============================================================================
