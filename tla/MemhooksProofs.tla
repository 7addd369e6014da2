-------------------------- MODULE MemhooksProofs --------------------------
(***************************************************************************)
(* Theorems about the hook lists, for every address space and every set of *)
(* hook functions and types.                                               *)
(***************************************************************************)
EXTENDS Memhooks, FiniteSetTheorems, SequenceTheorems, TLAPS

-----------------------------------------------------------------------------
(* Lemmas about numbers and sequences.                                      *)

\* A nonempty set of naturals has a least element.
LEMMA LeastNat ==
  ASSUME NEW T, T \subseteq Nat, T # {}
  PROVE  \E x \in T : \A y \in T : x <= y
<1> DEFINE Down == {0..x : x \in T}
           R == StrictSubsetOrdering(Nat)
<1>1. Down \subseteq FiniteSubsetsOf(Nat) /\ Down # {}
  <2>1. ASSUME NEW x \in T PROVE 0..x \in FiniteSubsetsOf(Nat)
    <3>1. 0 \in Int /\ x \in Int /\ 0..x \in SUBSET Nat
      OBVIOUS
    <3>2. IsFiniteSet(0..x)
      BY <3>1, FS_Interval
    <3> QED BY <3>1, <3>2 DEF FiniteSubsetsOf
  <2> QED BY <2>1
<1>2. \E X \in Down : \A Y \in Down : ~ (<<Y, X>> \in R)
  <2> HIDE DEF Down, R
  <2> QED BY <1>1, FS_StrictSubsetOrderingWellFounded, WFMin DEF R
<1>3. PICK x \in T : \A Y \in Down : ~ (<<Y, 0..x>> \in R)
  BY <1>2
<1>4. \A y \in T : x <= y
  <2> SUFFICES ASSUME NEW y \in T, y < x PROVE FALSE
    OBVIOUS
  <2>1. 0..y \subseteq 0..x /\ 0..y # 0..x /\ 0..x \subseteq Nat
    <3>1. x \in 0..x /\ x \notin 0..y
      OBVIOUS
    <3> QED BY <3>1
  <2>2. <<0..y, 0..x>> \in R
    BY <2>1 DEF StrictSubsetOrdering
  <2> QED BY <2>2, <1>3
<1> QED BY <1>4

\* Inserting into a sequence moves the rest of it up by one.
LEMMA InsertAtElements ==
  ASSUME NEW S, NEW s \in Seq(S), NEW e \in S, NEW i \in 1..(Len(s) + 1)
  PROVE  /\ InsertAt(s, i, e) \in Seq(S)
         /\ Len(InsertAt(s, i, e)) = Len(s) + 1
         /\ \A j \in 1..(Len(s) + 1) :
              InsertAt(s, i, e)[j] =
                IF j < i THEN s[j] ELSE IF j = i THEN e ELSE s[j - 1]
<1> DEFINE front == SubSeq(s, 1, i - 1)
           back  == SubSeq(s, i, Len(s))
           upto  == front \o <<e>>
<1>1. Len(s) \in Nat
  OBVIOUS
<1>2. front \in Seq(S) /\ Len(front) = i - 1 /\ \A j \in 1..(i - 1) : front[j] = s[j]
  BY <1>1
<1>3. back \in Seq(S) /\ Len(back) = Len(s) - i + 1
        /\ \A j \in 1..(Len(s) - i + 1) : back[j] = s[i + j - 1]
  BY <1>1
<1>4. upto \in Seq(S) /\ Len(upto) = i /\ upto[i] = e /\ \A j \in 1..(i - 1) : upto[j] = s[j]
  <2> HIDE DEF front
  <2> QED BY <1>2
<1>5. InsertAt(s, i, e) = upto \o back
  BY DEF InsertAt
<1> HIDE DEF upto, back
<1>6. /\ upto \o back \in Seq(S)
      /\ Len(upto \o back) = Len(s) + 1
      /\ \A j \in 1..(Len(s) + 1) :
           (upto \o back)[j] = IF j <= i THEN upto[j] ELSE back[j - i]
  BY <1>1, <1>3, <1>4, ConcatProperties
<1>7. \A j \in 1..(Len(s) + 1) : j > i => back[j - i] = s[j - 1]
  BY <1>1, <1>3
<1> QED BY <1>4, <1>5, <1>6, <1>7

-----------------------------------------------------------------------------
(* Lemmas about check().                                                    *)

\* An address that no entry covers has no hook.
LEMMA CheckUncovered ==
  ASSUME NEW list \in Seq(Hook), NEW a \in Addr,
         \A k \in 1..Len(list) : ~Covers(list[k], a)
  PROVE  check(list, a) = NoHook
<1> DEFINE I == {k \in 1..Len(list) : Covers(list[k], a)}
<1>1. I = {}
  OBVIOUS
<1>2. SelectInSeq(list, LAMBDA e : Covers(e, a)) = 0
  BY <1>1 DEF SelectInSeq
<1> QED BY <1>2 DEF check

\* The first entry that covers an address answers for it.
LEMMA CheckFirst ==
  ASSUME NEW list \in Seq(Hook), NEW a \in Addr, NEW i \in 1..Len(list),
         Covers(list[i], a), \A k \in 1..(i - 1) : ~Covers(list[k], a)
  PROVE  check(list, a) = list[i].fun
<1> DEFINE I == {k \in 1..Len(list) : Covers(list[k], a)}
<1>1. i \in I /\ \A k \in I : i <= k
  OBVIOUS
<1>2. Min(I) = i
  <2> HIDE DEF I
  <2>1. \A x \in I : x \in Int
    BY DEF I
  <2>2. \A x \in I : (\A y \in I : x <= y) => x = i
    BY <1>1, <2>1
  <2>3. \E x \in I : \A y \in I : x <= y
    BY <1>1
  <2> DEFINE m == CHOOSE x \in I : \A y \in I : x <= y
  <2>4. m \in I /\ \A y \in I : m <= y
    BY <2>3
  <2>5. m = i
    <3> HIDE DEF m
    <3> QED BY <2>2, <2>4
  <2> QED BY <2>5 DEF Min
<1>3. SelectInSeq(list, LAMBDA e : Covers(e, a)) = i
  BY <1>1, <1>2 DEF SelectInSeq
<1> QED BY <1>3 DEF check

\* A covered address has a first entry that covers it.
LEMMA FirstCovering ==
  ASSUME NEW list \in Seq(Hook), NEW a \in Addr,
         \E k \in 1..Len(list) : Covers(list[k], a)
  PROVE  \E i \in 1..Len(list) :
           Covers(list[i], a) /\ \A k \in 1..(i - 1) : ~Covers(list[k], a)
<1> DEFINE I == {k \in 1..Len(list) : Covers(list[k], a)}
<1>1. I \subseteq Nat /\ I # {}
  OBVIOUS
<1>2. PICK i \in I : \A k \in I : i <= k
  <2> HIDE DEF I
  <2> QED BY <1>1, LeastNat
<1> QED BY <1>2

\* An inserted entry changes no answer outside the range it covers.
LEMMA CheckInserted ==
  ASSUME NEW list \in Seq(Hook), NEW h \in Hook, NEW i \in 1..(Len(list) + 1),
         NEW a \in Addr, ~Covers(h, a)
  PROVE  check(InsertAt(list, i, h), a) = check(list, a)
<1> DEFINE new == InsertAt(list, i, h)
<1>1. /\ new \in Seq(Hook)
      /\ Len(new) = Len(list) + 1
      /\ \A j \in 1..(Len(list) + 1) :
           new[j] = IF j < i THEN list[j] ELSE IF j = i THEN h ELSE list[j - 1]
  BY InsertAtElements
<1> HIDE DEF new
<1>2. CASE \E k \in 1..Len(list) : Covers(list[k], a)
  <2>1. PICK k \in 1..Len(list) :
          Covers(list[k], a) /\ \A j \in 1..(k - 1) : ~Covers(list[j], a)
    BY <1>2, FirstCovering
  <2>2. check(list, a) = list[k].fun
    BY <2>1, CheckFirst
  <2> DEFINE m == IF k < i THEN k ELSE k + 1
  <2>3. m \in 1..Len(new) /\ new[m] = list[k]
    BY <1>1
  <2>4. \A j \in 1..(m - 1) : ~Covers(new[j], a)
    <3> SUFFICES ASSUME NEW j \in 1..(m - 1) PROVE ~Covers(new[j], a)
      OBVIOUS
    <3>0. j \in 1..(Len(list) + 1) /\ j <= k /\ (j < i => j < k)
      OBVIOUS
    <3>1. CASE j < i
      <4>1. new[j] = list[j] /\ j \in 1..(k - 1)
        BY <3>0, <3>1, <1>1
      <4> QED BY <4>1, <2>1
    <3>2. CASE j = i
      BY <3>0, <3>2, <1>1
    <3>3. CASE j > i
      <4>1. new[j] = list[j - 1] /\ j - 1 \in 1..(k - 1)
        BY <3>0, <3>3, <1>1
      <4> QED BY <4>1, <2>1
    <3> QED BY <3>0, <3>1, <3>2, <3>3
  <2>5. check(new, a) = new[m].fun
    <3> HIDE DEF m
    <3> QED BY <1>1, <2>1, <2>3, <2>4, CheckFirst
  <2> QED BY <2>2, <2>3, <2>5 DEF new
<1>3. CASE \A k \in 1..Len(list) : ~Covers(list[k], a)
  <2>1. \A k \in 1..Len(new) : ~Covers(new[k], a)
    BY <1>1, <1>3, SMTT(30)
  <2> QED BY <1>1, <1>3, <2>1, CheckUncovered DEF new
<1> QED BY <1>2, <1>3

-----------------------------------------------------------------------------
(* The inductive invariant: it adds to the order of the starts that every   *)
(* range is nonempty, without which an entry that the loop passes need not  *)
(* start before the new one.                                                *)

Inv == TypeOK /\ Sorted

Ranges(list) == \A k \in 1..Len(list) : list[k].start < list[k].end

\* The loop of insert() stops at a place where the new entry keeps the order.
LEMMA LinkedKeepsOrder ==
  ASSUME NEW list \in Seq(Hook), Ranges(list), SortedList(list),
         NEW h \in Hook, h.start < h.end,
         NEW i \in 1..(Len(list) + 1), StopsAt(list, h, i),
         i <= Len(list) => Accepts(h, list[i])
  PROVE  /\ Linked(list, h, i) \in Seq(Hook)
         /\ Ranges(Linked(list, h, i))
         /\ SortedList(Linked(list, h, i))
<1> DEFINE new == InsertAt(list, i, h)
<1>1. CASE i = 1
  <2>1. Linked(list, h, i) = <<h>>
    BY <1>1 DEF Linked
  <2>2. Len(<<h>>) = 1 /\ <<h>>[1] = h /\ <<h>> \in Seq(Hook)
    OBVIOUS
  <2> QED BY <2>1, <2>2 DEF Ranges, SortedList
<1>2. CASE i # 1
  <2>1. /\ new \in Seq(Hook)
        /\ Len(new) = Len(list) + 1
        /\ \A j \in 1..(Len(list) + 1) :
             new[j] = IF j < i THEN list[j] ELSE IF j = i THEN h ELSE list[j - 1]
    BY InsertAtElements
  <2> HIDE DEF new
  <2>2. \A k \in 1..Len(list) : list[k] \in Hook
    OBVIOUS
  <2>3. \A k \in 1..(i - 1) : list[k].start < h.start
    <3> SUFFICES ASSUME NEW k \in 1..(i - 1) PROVE list[k].start < h.start
      OBVIOUS
    <3>1. k \in 1..Len(list) /\ list[k] \in Hook
      BY <2>2
    <3>2. list[k].start < list[k].end /\ list[k].end <= h.start
      BY <3>1 DEF StopsAt, Passes, Ranges
    <3> QED BY <3>1, <3>2, SMTT(30) DEF Hook, Addr
  <2>4. \A k \in i..Len(list) : h.start < list[k].start
    <3>1. i <= Len(list) => h.start < list[i].start
      BY DEF Accepts
    <3> QED BY <2>2, <3>1, SMTT(30) DEF SortedList, Hook, Addr
  <2>5. Ranges(new)
    <3> SUFFICES ASSUME NEW k \in 1..(Len(list) + 1) PROVE new[k].start < new[k].end
      BY <2>1 DEF Ranges
    <3>1. CASE k < i
      BY <2>1, <3>1 DEF Ranges
    <3>2. CASE k = i
      BY <2>1, <3>2
    <3>3. CASE k > i
      <4>1. new[k] = list[k - 1] /\ k - 1 \in 1..Len(list)
        BY <2>1, <3>3
      <4> QED BY <4>1 DEF Ranges
    <3> QED BY <3>1, <3>2, <3>3
  <2>6. SortedList(new)
    <3> SUFFICES ASSUME NEW j \in 1..Len(new), NEW k \in 1..Len(new), j < k
                 PROVE  new[j].start < new[k].start
      BY DEF SortedList
    <3>1. CASE k < i
      BY <2>1, <3>1 DEF SortedList
    <3>2. CASE k = i
      BY <2>1, <2>3, <3>2
    <3>3. CASE k > i /\ j < i
      <4>1. /\ new[k] = list[k - 1] /\ k - 1 \in 1..Len(list)
            /\ new[j] = list[j] /\ j \in 1..Len(list) /\ j < k - 1
        BY <2>1, <3>3
      <4> QED BY <4>1 DEF SortedList
    <3>4. CASE k > i /\ j = i
      <4>1. new[k] = list[k - 1] /\ k - 1 \in i..Len(list) /\ new[j] = h
        BY <2>1, <3>4
      <4> QED BY <4>1, <2>4
    <3>5. CASE j > i
      <4>1. /\ new[k] = list[k - 1] /\ k - 1 \in 1..Len(list)
            /\ new[j] = list[j - 1] /\ j - 1 \in 1..Len(list) /\ j - 1 < k - 1
        BY <2>1, <3>5
      <4> QED BY <4>1 DEF SortedList
    <3> QED BY <2>1, <3>1, <3>2, <3>3, <3>4, <3>5
  <2> QED BY <1>2, <2>1, <2>5, <2>6 DEF Linked, new
<1> QED BY <1>1, <1>2

\* What an accepted insert() does, in one place.
LEMMA Inserted ==
  ASSUME TypeOK, NEW t \in HookType, NEW h \in Hook, insert(t, h), ret' = "inserted"
  PROVE  /\ h.start < h.end
         /\ \E i \in 1..(Len(all_mh[t]) + 1) :
              /\ StopsAt(all_mh[t], h, i)
              /\ i <= Len(all_mh[t]) => Accepts(h, all_mh[t][i])
              /\ all_mh'[t] = Linked(all_mh[t], h, i)
              /\ all_mh' = [all_mh EXCEPT ![t] = Linked(all_mh[t], h, i)]
BY DEF insert, TypeOK

LEMMA InsertKeepsInv ==
  ASSUME Inv, NEW t \in HookType, NEW h \in Hook, insert(t, h)
  PROVE  Inv'
<1>1. CASE ret' # "inserted"
  <2>1. all_mh' = all_mh /\ ret' \in {"rejected", "aborted"}
    BY <1>1 DEF insert
  <2> QED BY <2>1 DEF Inv, TypeOK, Sorted
<1>2. CASE ret' = "inserted"
  <2>1. PICK i \in 1..(Len(all_mh[t]) + 1) :
          /\ StopsAt(all_mh[t], h, i)
          /\ i <= Len(all_mh[t]) => Accepts(h, all_mh[t][i])
          /\ all_mh' = [all_mh EXCEPT ![t] = Linked(all_mh[t], h, i)]
    BY <1>2, Inserted DEF Inv
  <2> DEFINE new == Linked(all_mh[t], h, i)
  <2>2. all_mh[t] \in Seq(Hook) /\ Ranges(all_mh[t]) /\ SortedList(all_mh[t])
    BY DEF Inv, TypeOK, Sorted, Ranges
  <2>3. new \in Seq(Hook) /\ Ranges(new) /\ SortedList(new)
    <3>1. h.start < h.end
      BY <1>2, Inserted DEF Inv
    <3> QED BY <2>1, <2>2, <3>1, LinkedKeepsOrder
  <2> HIDE DEF new
  <2>4. \A u \in HookType : all_mh'[u] = IF u = t THEN new ELSE all_mh[u]
    BY <2>1 DEF new, Inv, TypeOK
  <2>5. all_mh' \in [HookType -> Seq(Hook)]
    BY <2>1, <2>3 DEF new, Inv, TypeOK
  <2>6. \A u \in HookType : Ranges(all_mh'[u]) /\ SortedList(all_mh'[u])
    BY <2>3, <2>4 DEF Inv, TypeOK, Sorted, Ranges
  <2> QED BY <1>2, <2>5, <2>6 DEF Inv, TypeOK, Sorted, Ranges
<1> QED BY <1>1, <1>2

LEMMA InvInductive == Inv /\ [Next]_vars => Inv'
<1> SUFFICES ASSUME Inv, [Next]_vars PROVE Inv'
  OBVIOUS
<1>1. CASE sfot_memhook_clear
  BY <1>1 DEF sfot_memhook_clear, NoLists, Inv, TypeOK, Sorted, SortedList
<1>2. ASSUME NEW t \in HookType, NEW h \in Hook, insert(t, h) PROVE Inv'
  BY <1>2, InsertKeepsInv
<1>3. CASE UNCHANGED vars
  BY <1>3 DEF vars, Inv, TypeOK, Sorted
<1> QED BY <1>1, <1>2, <1>3 DEF Next

LEMMA InitInv == Init => Inv
BY DEF Init, NoLists, Inv, TypeOK, Sorted, SortedList

\* The lists keep their types, whatever the order of the calls.
THEOREM TypeCorrect == Spec => []TypeOK
<1>1. Inv => TypeOK
  BY DEF Inv
<1> QED BY InitInv, InvInductive, <1>1, PTL DEF Spec

\* The lists stay sorted, as the comment of memhooks.c says.
THEOREM StaysSorted == Spec => []Sorted
<1>1. Inv => Sorted
  BY DEF Inv
<1> QED BY InitInv, InvInductive, <1>1, PTL DEF Spec

-----------------------------------------------------------------------------
(* What insert() does to the answers of check().                            *)

\* An accepted hook answers on all of its range: what the loop has passed ends
\* before the range starts.
LEMMA InsertedAnswers ==
  ASSUME TypeOK, NEW t \in HookType, NEW h \in Hook, insert(t, h), ret' = "inserted",
         NEW a \in h.start..(h.end - 1)
  PROVE  check(all_mh'[t], a) = h.fun
<1> DEFINE list == all_mh[t]
           new  == all_mh'[t]
<1>1. PICK i \in 1..(Len(list) + 1) :
        StopsAt(list, h, i) /\ new = Linked(list, h, i)
  BY Inserted
<1>2. list \in Seq(Hook) /\ a \in Addr
  <2>1. list \in Seq(Hook)
    BY DEF TypeOK
  <2>2. a \in Addr
    BY LastAddrAssumption DEF Hook, Addr
  <2> QED BY <2>1, <2>2
<1> HIDE DEF list, new
<1>3. /\ new \in Seq(Hook) /\ i \in 1..Len(new) /\ new[i] = h
      /\ \A k \in 1..(i - 1) : new[k] = list[k]
  <2>1. CASE i = 1
    <3>1. new = <<h>>
      BY <1>1, <2>1 DEF Linked
    <3> QED BY <2>1, <3>1
  <2>2. CASE i # 1
    <3>1. new = InsertAt(list, i, h)
      BY <1>1, <2>2 DEF Linked
    <3> DEFINE s == InsertAt(list, i, h)
    <3>2. /\ s \in Seq(Hook)
          /\ Len(s) = Len(list) + 1
          /\ \A j \in 1..(Len(list) + 1) :
               s[j] = IF j < i THEN list[j] ELSE IF j = i THEN h ELSE list[j - 1]
      BY <1>2, InsertAtElements
    <3> HIDE DEF s
    <3>3. \A k \in 1..(i - 1) : k \in 1..(Len(list) + 1) /\ k < i
      BY <1>2
    <3> QED BY <1>2, <3>1, <3>2, <3>3 DEF s
  <2> QED BY <2>1, <2>2
<1>4. \A k \in 1..(i - 1) : ~Covers(new[k], a)
  <2> SUFFICES ASSUME NEW k \in 1..(i - 1) PROVE ~Covers(list[k], a)
    BY <1>3
  <2>1. list[k] \in Hook
    BY <1>2
  <2>2. list[k].end <= h.start
    BY <1>1, <2>1 DEF StopsAt, Passes
  <2> QED BY <2>1, <2>2 DEF Covers, Hook, Addr
<1>5. Covers(new[i], a)
  BY <1>3 DEF Covers, Hook, Addr
<1>6. check(new, a) = new[i].fun
  BY <1>2, <1>3, <1>4, <1>5, CheckFirst
<1> QED BY <1>3, <1>6 DEF new

\* A hook that insert() accepts is in force on its whole range at once.
THEOREM AcceptedHooksAnswer == Spec => AcceptedIsEffective
<1>1. Inv => \A t \in HookType, h \in Hook :
               insert(t, h) /\ ret' = "inserted" =>
                 \A a \in h.start..(h.end - 1) : check(all_mh'[t], a) = h.fun
  BY InsertedAnswers DEF Inv
<1> QED BY InitInv, InvInductive, <1>1, PTL DEF Spec, AcceptedIsEffective

LEMMA InsertChangesNothingElse ==
  ASSUME TypeOK, NEW t \in HookType, NEW h \in Hook, insert(t, h), LinkedBehind(t),
         NEW u \in HookType, NEW a \in Addr, u # t \/ ~Covers(h, a)
  PROVE  check(all_mh'[u], a) = check(all_mh[u], a)
<1>1. CASE ret' # "inserted"
  <2>1. all_mh' = all_mh
    BY <1>1 DEF insert
  <2> QED BY <2>1
<1>2. CASE ret' = "inserted"
  <2>1. PICK i \in 1..(Len(all_mh[t]) + 1) :
          all_mh' = [all_mh EXCEPT ![t] = Linked(all_mh[t], h, i)]
    BY <1>2, Inserted
  <2>2. CASE u # t
    BY <2>1, <2>2 DEF TypeOK
  <2>3. CASE u = t
    <3>1. all_mh'[t] = Linked(all_mh[t], h, i)
      BY <2>1 DEF TypeOK
    <3>2. i # 1
      <4> SUFFICES ASSUME i = 1 PROVE FALSE
        OBVIOUS
      <4>1. all_mh'[t] = <<h>>
        BY <3>1 DEF Linked
      <4>2. Len(<<h>>) > 1
        BY <1>2, <4>1 DEF LinkedBehind
      <4> QED BY <4>2
    <3>3. all_mh'[t] = InsertAt(all_mh[t], i, h)
      BY <3>1, <3>2 DEF Linked
    <3>4. all_mh[t] \in Seq(Hook)
      BY DEF TypeOK
    <3> QED BY <2>3, <3>3, <3>4, CheckInserted
  <2> QED BY <2>2, <2>3
<1> QED BY <1>1, <1>2

\* Behind the head of a list, an insertion leaves every other answer alone.
THEOREM OtherAnswersStay == Spec => NothingElseChanges
<1>1. Inv => \A t \in HookType, h \in Hook :
               insert(t, h) /\ LinkedBehind(t) =>
                 \A u \in HookType, a \in Addr :
                   u # t \/ ~Covers(h, a) => check(all_mh'[u], a) = check(all_mh[u], a)
  BY InsertChangesNothingElse DEF Inv
<1> QED BY InitInv, InvInductive, <1>1, PTL DEF Spec, NothingElseChanges

-----------------------------------------------------------------------------
(* Installed in ascending order, the hooks are the map HookMap specifies.   *)

LEMMA EmptyListsAnswerNothing ==
  ASSUME NEW a \in Addr
  PROVE  check(<< >>, a) = NoHook
<1>1. << >> \in Seq(Hook) /\ \A k \in 1..Len(<< >>) : ~Covers(<< >>[k], a)
  OBVIOUS
<1> QED BY <1>1, CheckUncovered

LEMMA InsertedElement ==
  ASSUME NEW S, NEW s \in Seq(S), NEW e \in S, NEW i \in 1..(Len(s) + 1)
  PROVE  InsertAt(s, i, e)[i] = e
<1>1. \A j \in 1..(Len(s) + 1) :
        InsertAt(s, i, e)[j] = IF j < i THEN s[j] ELSE IF j = i THEN e ELSE s[j - 1]
  BY InsertAtElements
<1> QED BY <1>1

LEMMA InsertAtEnd ==
  ASSUME NEW S, NEW s \in Seq(S), NEW e \in S
  PROVE  /\ InsertAt(s, Len(s) + 1, e) \in Seq(S)
         /\ Len(InsertAt(s, Len(s) + 1, e)) = Len(s) + 1
         /\ InsertAt(s, Len(s) + 1, e)[Len(s) + 1] = e
<1>1. Len(s) + 1 \in 1..(Len(s) + 1)
  OBVIOUS
<1>2. InsertAt(s, Len(s) + 1, e)[Len(s) + 1] = e
  BY <1>1, InsertedElement, Zenon
<1>3. /\ InsertAt(s, Len(s) + 1, e) \in Seq(S)
      /\ Len(InsertAt(s, Len(s) + 1, e)) = Len(s) + 1
  BY <1>1, InsertAtElements, Zenon
<1> QED BY <1>2, <1>3

LEMMA InsertIntoEmpty ==
  ASSUME NEW S, NEW s \in Seq(S), NEW e \in S, Len(s) = 0
  PROVE  InsertAt(s, Len(s) + 1, e) = <<e>>
<1> DEFINE t == InsertAt(s, Len(s) + 1, e)
<1>1. Len(s) + 1 \in 1..(Len(s) + 1) /\ Len(s) + 1 = 1
  OBVIOUS
<1>2. t \in Seq(S) /\ Len(t) = Len(s) + 1 /\ t[Len(s) + 1] = e
  BY InsertAtEnd, Zenon
<1> HIDE DEF t
<1>3. t \in Seq(S) /\ Len(t) = 1 /\ t[1] = e
  BY <1>1, <1>2
<1>4. <<e>> \in Seq(S) /\ Len(<<e>>) = 1 /\ <<e>>[1] = e
  OBVIOUS
<1>5. t = <<e>>
  BY <1>3, <1>4, SeqEqual
<1> QED BY <1>5 DEF t

\* The loop passes every entry, so the new one goes to the end of the list.
LEMMA AscendingInserts ==
  ASSUME TypeOK, NEW t \in HookType, NEW h \in Hook, Ascending(t, h),
         insert(t, h), ret' = "inserted"
  PROVE  all_mh' = [all_mh EXCEPT ![t] = InsertAt(@, Len(@) + 1, h)]
<1> DEFINE list == all_mh[t]
<1>1. PICK i \in 1..(Len(list) + 1) :
        /\ StopsAt(list, h, i)
        /\ all_mh' = [all_mh EXCEPT ![t] = Linked(list, h, i)]
  BY Inserted
<1>2. list \in Seq(Hook) /\ Len(list) \in Nat
  BY DEF TypeOK
<1>3. \A k \in 1..Len(list) : Passes(h, list[k])
  <2> SUFFICES ASSUME NEW k \in 1..Len(list) PROVE Passes(h, list[k])
    OBVIOUS
  <2>1. list[k] \in Hook /\ list[k].end <= h.start /\ list[k].start < list[k].end
    BY <1>2 DEF Ascending, TypeOK
  <2> QED BY <2>1 DEF Passes, Hook, Addr
<1>4. i = Len(list) + 1
  BY <1>1, <1>2, <1>3 DEF StopsAt
<1>5. CASE Len(list) = 0
  <2>1. Linked(list, h, i) = <<h>>
    BY <1>4, <1>5 DEF Linked
  <2>2. InsertAt(list, Len(list) + 1, h) = <<h>>
    BY <1>2, <1>5, InsertIntoEmpty
  <2> QED BY <1>1, <2>1, <2>2
<1>6. CASE Len(list) # 0
  <2>1. Linked(list, h, i) = InsertAt(list, Len(list) + 1, h)
    <3>1. i # 1
      BY <1>2, <1>4, <1>6
    <3> QED BY <1>4, <3>1 DEF Linked
  <2> QED BY <1>1, <2>1
<1> QED BY <1>5, <1>6

\* No address of a range above all of the list is hooked yet.
LEMMA AboveIsFree ==
  ASSUME TypeOK, NEW t \in HookType, NEW h \in Hook, Ascending(t, h),
         NEW a \in h.start..(h.end - 1)
  PROVE  a \in Addr /\ check(all_mh[t], a) = NoHook
<1>1. a \in Addr
  BY LastAddrAssumption DEF Hook, Addr
<1>2. all_mh[t] \in Seq(Hook)
  BY DEF TypeOK
<1>3. ASSUME NEW k \in 1..Len(all_mh[t]) PROVE ~Covers(all_mh[t][k], a)
  <2>1. all_mh[t][k] \in Hook /\ all_mh[t][k].end <= h.start
    BY <1>2 DEF Ascending
  <2> QED BY <2>1 DEF Covers, Hook, Addr
<1> QED BY <1>1, <1>2, <1>3, CheckUncovered

LEMMA AscendingInstalls ==
  ASSUME TypeOK, NEW t \in HookType, NEW h \in Hook, Ascending(t, h),
         insert(t, h), ret' = "inserted"
  PROVE  Map!Install(t, h.start, h.end - 1, h.fun)
<1> DEFINE first == h.start
           last  == h.end - 1
<1>1. /\ first \in Addr /\ last \in Addr /\ first <= last /\ h.fun \in HookFun
      /\ \A a \in Addr : Covers(h, a) <=> a \in first..last
  BY LastAddrAssumption DEF Ascending, Hook, Addr, Covers
<1>2. \A a \in first..last : Hooked[t][a] = NoHook
  BY AboveIsFree DEF Hooked
<1>3. /\ all_mh' = [all_mh EXCEPT ![t] = InsertAt(@, Len(@) + 1, h)]
      /\ all_mh[t] \in Seq(Hook)
      /\ Len(all_mh[t]) + 1 \in 1..(Len(all_mh[t]) + 1)
  BY AscendingInserts DEF TypeOK
<1>4. ASSUME NEW a \in Addr
      PROVE  check(all_mh'[t], a) = IF a \in first..last THEN h.fun ELSE check(all_mh[t], a)
  <2>1. CASE a \in first..last
    BY <2>1, InsertedAnswers
  <2>2. CASE a \notin first..last
    <3>1. all_mh'[t] = InsertAt(all_mh[t], Len(all_mh[t]) + 1, h)
      BY <1>3 DEF TypeOK
    <3> QED BY <1>1, <1>3, <2>2, <3>1, CheckInserted
  <2> QED BY <2>1, <2>2
<1>5. ASSUME NEW u \in HookType, u # t PROVE all_mh'[u] = all_mh[u]
  BY <1>3, <1>5 DEF TypeOK
<1>6. Hooked' = [Hooked EXCEPT ![t] =
                   [a \in Addr |-> IF a \in first..last THEN h.fun ELSE @[a]]]
  BY <1>4, <1>5 DEF Hooked
<1> QED BY <1>1, <1>2, <1>6 DEF Map!Install, Map!Address, Map!Unhooked, Addr, NoHook

LEMMA AscendingStep == Inv /\ [AscendingNext]_vars => [Map!MapNext]_Hooked
<1> SUFFICES ASSUME Inv, [AscendingNext]_vars PROVE Map!MapNext \/ Hooked' = Hooked
  OBVIOUS
<1>1. CASE sfot_memhook_clear
  <2>1. Hooked' = [t \in HookType |-> [a \in Addr |-> NoHook]]
    BY <1>1, EmptyListsAnswerNothing DEF sfot_memhook_clear, NoLists, Hooked
  <2>2. Map!Clear
    BY <2>1 DEF Map!Clear, Map!Address, Map!Unhooked, Addr, NoHook
  <2> QED BY <2>2 DEF Map!MapNext
<1>2. ASSUME NEW t \in HookType, NEW h \in Hook, Ascending(t, h), insert(t, h)
      PROVE  Map!MapNext \/ Hooked' = Hooked
  <2>1. CASE ret' # "inserted"
    BY <1>2, <2>1 DEF insert, Hooked
  <2>2. CASE ret' = "inserted"
    <3>1. Map!Install(t, h.start, h.end - 1, h.fun)
      BY <1>2, <2>2, AscendingInstalls DEF Inv
    <3>2. h.start \in Map!Address /\ h.end - 1 \in Map!Address /\ h.fun \in HookFun
      BY <1>2, LastAddrAssumption DEF Map!Address, Ascending, Hook, Addr
    <3> QED BY <3>1, <3>2 DEF Map!MapNext
  <2> QED BY <2>1, <2>2
<1>3. CASE UNCHANGED vars
  BY <1>3 DEF vars, Hooked
<1> QED BY <1>1, <1>2, <1>3 DEF AscendingNext

LEMMA InitialMap == Init => Map!MapInit
<1> QED BY EmptyListsAnswerNothing
        DEF Init, NoLists, Hooked, Map!MapInit, Map!Address, Map!Unhooked, Addr, NoHook

\* In lists of any order, left behind by whatever calls, an insertion above all of
\* its list (insert() of memhooks.c) and a clear are steps of the map.
THEOREM AscendingCallsActOnMap == Spec => ImplementsMap
<1>1. Inv => (AscendingNext => Map!MapNext \/ UNCHANGED Hooked)
  BY AscendingStep DEF Inv
<1> QED BY <1>1, InitInv, InvInductive, InitialMap, PTL DEF Spec, ImplementsMap

\* The refinement: for a machine that installs its hooks in ascending order, as
\* simplenes, simple6502 and the tests do, the lists implement the map.
THEOREM ListsImplementMap == AscendingSpec => Map!MapSpec
<1>1. [AscendingNext]_vars => [Next]_vars
  BY DEF AscendingNext, Next
<1> QED BY <1>1, InitialMap, InitInv, InvInductive, AscendingStep, PTL
        DEF AscendingSpec, Map!MapSpec

=============================================================================
