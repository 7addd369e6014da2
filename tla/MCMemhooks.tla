---------------------------- MODULE MCMemhooks ----------------------------
(***************************************************************************)
(* The hook lists of a small address space.  A behaviour installs hooks of *)
(* one type in any order, or hooks of two types in ascending order.        *)
(***************************************************************************)
EXTENDS Memhooks

CONSTANTS R, W, f, g

VARIABLE ascending   \* which of the two this behaviour is

ListsInit == Init /\ ascending \in BOOLEAN

ListsNext ==
  /\ UNCHANGED ascending
  /\ \/ ascending /\ AscendingNext
     \/ ~ascending /\ sfot_memhook_clear
     \/ ~ascending /\ \E h \in Hook : insert(R, h)

ListsSpec == ListsInit /\ [][ListsNext]_<<vars, ascending>>

=============================================================================
