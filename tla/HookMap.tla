------------------------------ MODULE HookMap ------------------------------
(***************************************************************************)
(* What a machine expects of the memory hooks: a map from addresses to     *)
(* functions for each type of hook.  A range is hooked as a whole, only if *)
(* no address of it is, and stays hooked until all hooks are cleared.      *)
(***************************************************************************)
EXTENDS Integers

CONSTANTS HookType, HookFun, LastAddr

VARIABLE hooked

Address == 0..LastAddr
Unhooked == "none"

Clear == hooked' = [t \in HookType |-> [a \in Address |-> Unhooked]]

Install(t, first, last, f) ==
  /\ first <= last
  /\ \A a \in first..last : hooked[t][a] = Unhooked
  /\ hooked' = [hooked EXCEPT ![t] =
                  [a \in Address |-> IF a \in first..last THEN f ELSE @[a]]]

MapInit == hooked = [t \in HookType |-> [a \in Address |-> Unhooked]]

MapNext ==
  \/ Clear
  \/ \E t \in HookType, first, last \in Address, f \in HookFun :
       Install(t, first, last, f)

MapSpec == MapInit /\ [][MapNext]_hooked

=============================================================================
