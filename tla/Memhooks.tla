----------------------------- MODULE Memhooks -----------------------------
(***************************************************************************)
(* memhooks.c: for each type of hook, a linked list of the address ranges  *)
(* hooked, in which MEM_READ, MEM_WRITE and MEM_INC look an address up.    *)
(* A range is half open: [start, end).  A list is the sequence of its      *)
(* entries; walking it and linking into it is one call, one step.          *)
(***************************************************************************)
EXTENDS Integers, SequencesExt

CONSTANTS
  HookType,  \* enum mh_type_t: read, write and translation hooks
  HookFun,   \* the functions the machines hook
  LastAddr   \* the last address: 0xFFFF

ASSUME LastAddrAssumption == LastAddr \in Nat

VARIABLES
  all_mh,    \* all_mh[]: the list of each type
  ret        \* the outcome of the last call

vars == <<all_mh, ret>>

Addr == 0..LastAddr
Hook == [start : Addr, end : Addr, fun : HookFun]
NoHook == "none"

\* Mutant: the end is taken for the last address.
CoversEnd(e, a) == e.start <= a /\ a <= e.end

Covers(e, a) == e.start <= a /\ a < e.end

\* check(): the function of the first entry that covers an address.
check(list, a) ==
  LET i == SelectInSeq(list, LAMBDA e : Covers(e, a))
  IN  IF i = 0 THEN NoHook ELSE list[i].fun

\* The loop of insert() leaves an entry behind, or stops at it.
Passes(h, e)  == h.start >= e.start /\ h.start >= e.end
Accepts(h, e) == h.start < e.start /\ h.end >= e.start

\* Where the loop stops: at an entry, or past the last one.
StopsAt(list, h, i) ==
  /\ i \in 1..(Len(list) + 1)
  /\ \A j \in 1..(i - 1) : Passes(h, list[j])
  /\ i <= Len(list) => ~Passes(h, list[i])

\* Mutants: the iterator is one entry late; the rest of the list is not linked.
LinkedLate(list, h, i)  == IF i = 1 THEN <<h>> ELSE InsertAt(list, i - 1, h)
LinkedAtEnd(list, h, i) == Append(SubSeq(list, 1, i - 1), h)

\* Linking in front of the first entry forgets the list behind it.
Linked(list, h, i) == IF i = 1 THEN <<h>> ELSE InsertAt(list, i, h)

\* Mutant: the assertion on the range is left out.
insert_unchecked(t, h) ==
  /\ ret # "aborted"
  /\ \E i \in 1..(Len(all_mh[t]) + 1) :
       /\ StopsAt(all_mh[t], h, i)
       /\ IF i <= Len(all_mh[t]) /\ ~Accepts(h, all_mh[t][i])
          THEN ret' = "rejected" /\ UNCHANGED all_mh
          ELSE /\ ret' = "inserted"
               /\ all_mh' = [all_mh EXCEPT ![t] = Linked(@, h, i)]

insert(t, h) ==
  /\ ret # "aborted"
  /\ \/ /\ h.start >= h.end
        /\ ret' = "aborted" /\ UNCHANGED all_mh
     \/ /\ h.start < h.end
        /\ \E i \in 1..(Len(all_mh[t]) + 1) :
             /\ StopsAt(all_mh[t], h, i)
             /\ IF i <= Len(all_mh[t]) /\ ~Accepts(h, all_mh[t][i])
                THEN ret' = "rejected" /\ UNCHANGED all_mh
                ELSE /\ ret' = "inserted"
                     /\ all_mh' = [all_mh EXCEPT ![t] = Linked(@, h, i)]

NoLists == [t \in HookType |-> << >>]

\* Mutant: the loop over the types ends after one.
sfot_memhook_clear_one ==
  /\ ret # "aborted"
  /\ all_mh' = [all_mh EXCEPT ![CHOOSE t \in HookType : TRUE] = << >>]
  /\ ret' = "cleared"

sfot_memhook_clear ==
  /\ ret # "aborted"
  /\ all_mh' = NoLists
  /\ ret' = "cleared"

Init == all_mh = NoLists /\ ret = "cleared"

Next == sfot_memhook_clear \/ \E t \in HookType, h \in Hook : insert(t, h)

Spec == Init /\ [][Next]_vars

\* The machines install the hooks of a type from low addresses to high ones.
Ascending(t, h) ==
  h.start < h.end /\ \A i \in 1..Len(all_mh[t]) : all_mh[t][i].end <= h.start

AscendingNext ==
  \/ sfot_memhook_clear
  \/ \E t \in HookType, h \in Hook : Ascending(t, h) /\ insert(t, h)

AscendingSpec == Init /\ [][AscendingNext]_vars

-----------------------------------------------------------------------------
(* Every list keeps nonempty ranges of the address space.                   *)
TypeOK ==
  /\ all_mh \in [HookType -> Seq(Hook)]
  /\ \A t \in HookType : \A i \in 1..Len(all_mh[t]) :
       all_mh[t][i].start < all_mh[t][i].end
  /\ ret \in {"cleared", "inserted", "rejected", "aborted"}

\* "Each linked list is sorted by the address of the mapping": whatever the
\* order of the calls, ranges start at ever higher addresses.
SortedList(list) ==
  \A i, j \in 1..Len(list) : i < j => list[i].start < list[j].start

Sorted == \A t \in HookType : SortedList(all_mh[t])

\* A hook that insert() accepts answers for all of its range from then on: no
\* entry already in the list comes before it there.
AcceptedIsEffective ==
  [][\A t \in HookType, h \in Hook :
       insert(t, h) /\ ret' = "inserted" =>
         \A a \in h.start..(h.end - 1) : check(all_mh'[t], a) = h.fun]_vars

\* A call installs or refuses one hook: at an address outside its range nothing
\* changes, unless the hook was linked at the head of its list.
LinkedBehind(t) == ret' = "inserted" => Len(all_mh'[t]) > 1

NothingElseChanges ==
  [][\A t \in HookType, h \in Hook :
       insert(t, h) /\ LinkedBehind(t) =>
         \A u \in HookType, a \in Addr :
           u # t \/ ~Covers(h, a) => check(all_mh'[u], a) = check(all_mh[u], a)]_vars

-----------------------------------------------------------------------------
(* The map the lists stand for.                                             *)

Hooked == [t \in HookType |-> [a \in Addr |-> check(all_mh[t], a)]]

Map == INSTANCE HookMap WITH hooked <- Hooked

\* However disordered the calls before, an insertion above all of its list and a
\* clear do to the map what they should: nothing installed is lost or shadowed.
\* So a machine that installs its hooks in ascending order gets the map it expects.
ImplementsMap ==
  /\ Map!MapInit
  /\ [][AscendingNext => Map!MapNext \/ UNCHANGED Hooked]_vars

-----------------------------------------------------------------------------
(* What the comments of memhooks.c say, and insert() does not keep.         *)

\* "None of the mappings should be overlaped inside the same list."
NoOverlap ==
  \A t \in HookType : \A i, j \in 1..Len(all_mh[t]) :
    i < j => all_mh[t][i].end <= all_mh[t][j].start

\* "We keep an iterator *behind* the mapping that we are checking to do the
\* insertion there": an insertion adds an entry to the list and takes none out.
InsertionKeepsHooks ==
  [][\A t \in HookType, h \in Hook :
       insert(t, h) /\ ret' = "inserted" => Len(all_mh'[t]) = Len(all_mh[t]) + 1]_vars

=============================================================================
