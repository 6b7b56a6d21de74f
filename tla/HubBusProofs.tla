---------------------------- MODULE HubBusProofs ----------------------------
(***************************************************************************)
(* Theorems about FrameSlots and HubBus, for any number of subscribers,    *)
(* publishers, panes, rows and messages.                                   *)
(*                                                                         *)
(* First the slot operators: they keep a table's type and its rotation     *)
(* whole, and takeSlotLocked always finds the pending frame hasSlotLocked  *)
(* saw; so every variable of the bus keeps its type and the rotations stay *)
(* whole (Inv).                                                            *)
(*                                                                         *)
(* Then what a peer reads: whoever subscribed hears everything from the    *)
(* cut to the finals; frames keep their place among the messages about     *)
(* their pane; and a peer's picture of a pane is its framer's.  None of    *)
(* these is inductive.  IInv says, of every subscriber, what its writer    *)
(* has in hand and has put on the wire, and why it stops (Streams); and,   *)
(* of every subscriber and pane, who has still to be told that a pane is   *)
(* closed and what is clean of it by then, and which answer in the queue a *)
(* frame of its slot will follow (Frames).                                 *)
(***************************************************************************)
EXTENDS HubBus, FiniteSetTheorems, WellFoundedInduction, TLAPS

------------------------------------------------------------------------------
(* The slot table.                                                         *)

\* A slot table the hub can be holding.
WholeTable(t) == t \in SlotTable /\ InRotation(t)

\* A non-empty set of naturals has a least element: the sets 0..x are finite,
\* and strict inclusion is well founded on them.
LEMMA LeastElement ==
  ASSUME NEW T, T \subseteq Nat, T # {}
  PROVE  \E x \in T : \A y \in T : x <= y
<1> DEFINE Fam == {0..x : x \in T}
<1>1. Fam \subseteq FiniteSubsetsOf(Nat) /\ Fam # {}
  <2>1. \A x \in T : IsFiniteSet(0..x) /\ (0..x) \subseteq Nat
    BY FS_Interval
  <2> QED BY <2>1 DEF FiniteSubsetsOf
<1>2. IsWellFoundedOn(StrictSubsetOrdering(Nat), FiniteSubsetsOf(Nat))
  BY FS_StrictSubsetOrderingWellFounded
<1>3. PICK X \in Fam : \A Y \in Fam : ~ (<<Y, X>> \in StrictSubsetOrdering(Nat))
  <2> HIDE DEF Fam
  <2> QED BY <1>1, <1>2, WFMin
<1>4. PICK x \in T : X = 0..x
  OBVIOUS
<1>5. ASSUME NEW y \in T, y < x PROVE FALSE
  <2>1. (0..y) \in Fam /\ (0..y) \subseteq X /\ (0..y) # X
    BY <1>4, <1>5
  <2>2. <<0..y, X>> \in StrictSubsetOrdering(Nat)
    BY <2>1, <1>4 DEF StrictSubsetOrdering
  <2> QED BY <1>3, <2>1, <2>2
<1> QED BY <1>5

LEMMA EmptySlotType == EmptySlot \in Slot
<1>1. NoRows \in Lines
  <2>1. NoRows \in [{} -> Cells]
    BY DEF NoRows
  <2> QED BY <2>1 DEF Lines
<1> QED BY <1>1 DEF EmptySlot, Slot

LEMMA LinesFunction ==
  ASSUME NEW f
  PROVE  f \in Lines <=> \E R \in SUBSET Rows : f \in [R -> Cells]
BY DEF Lines

\* Overlaying rows on rows gives rows (a merge in Offer).
LEMMA OverrideType ==
  ASSUME NEW f \in Lines, NEW g \in Lines
  PROVE  Override(f, g) \in Lines
<1>1. PICK R \in SUBSET Rows : f \in [R -> Cells]
  BY LinesFunction
<1>2. PICK Q \in SUBSET Rows : g \in [Q -> Cells]
  BY LinesFunction
<1>3. Override(f, g) \in [R \cup Q -> Cells]
  BY <1>1, <1>2 DEF Override
<1>4. R \cup Q \in SUBSET Rows
  OBVIOUS
<1> QED BY <1>3, <1>4, LinesFunction

\* Overlaying rows on a whole screen gives a whole screen.
LEMMA OverrideScreen ==
  ASSUME NEW f \in Lines, NEW C, Cells \subseteq C, NEW g \in [Rows -> C]
  PROVE  Override(f, g) \in [Rows -> C]
<1>1. PICK R \in SUBSET Rows : f \in [R -> Cells]
  BY LinesFunction
<1>2. R \cup Rows = Rows
  OBVIOUS
<1> QED BY <1>1, <1>2 DEF Override

LEMMA TableParts ==
  ASSUME NEW t \in SlotTable
  PROVE  /\ t = [at |-> t.at, order |-> t.order, next |-> t.next]
         /\ DOMAIN t.at \subseteq Panes
         /\ t.at \in [DOMAIN t.at -> Slot]
         /\ t.order \in Seq(Panes) /\ t.next \in Nat
BY DEF SlotTable

LEMMA MakeTable ==
  ASSUME NEW P \in SUBSET Panes, NEW a \in [P -> Slot],
         NEW o \in Seq(Panes), NEW n \in Nat
  PROVE  [at |-> a, order |-> o, next |-> n] \in SlotTable
BY DEF SlotTable

LEMMA NoSlotsWhole == WholeTable(NoSlots)
<1>1. NoSlots \in SlotTable
  <2>1. [p \in {} |-> EmptySlot] \in [{} -> Slot]
    OBVIOUS
  <2>2. {} \in SUBSET Panes /\ << >> \in Seq(Panes) /\ 0 \in Nat
    OBVIOUS
  <2> DEFINE a == [p \in {} |-> EmptySlot]
  <2>3. [at |-> a, order |-> << >>, next |-> 0] \in SlotTable
    <3> HIDE DEF a
    <3> QED BY <2>1, <2>2, MakeTable DEF a
  <2> QED BY <2>3 DEF NoSlots
<1> QED BY <1>1 DEF WholeTable, InRotation, NoSlots

LEMMA AddSlotWhole ==
  ASSUME NEW t, WholeTable(t), NEW p \in Panes
  PROVE  WholeTable(AddSlot(t, p))
<1>1. CASE Has(t, p)
  BY <1>1 DEF AddSlot
<1>2. CASE ~Has(t, p)
  <2> DEFINE a == [q \in DOMAIN t.at \cup {p} |-> IF q = p THEN EmptySlot ELSE t.at[q]]
             o == Append(t.order, p)
             u == [at |-> a, order |-> o, next |-> t.next]
  <2>1. t \in SlotTable /\ InRotation(t)
    BY DEF WholeTable
  <2>2. AddSlot(t, p) = u
    BY <1>2 DEF AddSlot
  <2>3. a \in [DOMAIN t.at \cup {p} -> Slot] /\ DOMAIN t.at \cup {p} \subseteq Panes
    BY <2>1, TableParts, EmptySlotType
  <2>4. o \in Seq(Panes)
    BY <2>1, TableParts
  <2>5. u \in SlotTable
    <3> HIDE DEF a, o
    <3> QED BY <2>1, <2>3, <2>4, TableParts, MakeTable
  <2>6. InRotation(u)
    <3>1. t.order \in Seq(Panes) /\ Len(o) = Len(t.order) + 1 /\ DOMAIN a = DOMAIN t.at \cup {p}
      BY <2>1, TableParts
    <3>2. \A i \in 1..Len(o) : o[i] = IF i = Len(o) THEN p ELSE t.order[i]
      BY <3>1
    <3>3. \A i \in 1..Len(t.order) : t.order[i] \in DOMAIN t.at /\ t.order[i] # p
      BY <1>2, <2>1 DEF InRotation, Has
    <3>4. Len(t.order) \in Nat
      BY <3>1
    <3> HIDE DEF a, o
    <3>5. \A i \in 1..Len(o) : o[i] \in DOMAIN a
      BY <3>1, <3>2, <3>3, <3>4
    <3>6. \A q \in DOMAIN a : \E i \in 1..Len(o) : o[i] = q
      <4>1. o[Len(o)] = p /\ Len(o) \in 1..Len(o)
        BY <3>1, <3>2, <3>4
      <4>2. ASSUME NEW q \in DOMAIN t.at PROVE \E i \in 1..Len(o) : o[i] = q
        <5>1. PICK i \in 1..Len(t.order) : t.order[i] = q
          BY <2>1 DEF InRotation
        <5>2. i \in 1..Len(o) /\ o[i] = q
          BY <3>1, <3>2, <3>4, <5>1
        <5> QED BY <5>2
      <4> QED BY <3>1, <4>1, <4>2
    <3>7. ASSUME NEW i \in 1..Len(o), NEW j \in 1..Len(o), o[i] = o[j] PROVE i = j
      <4>1. \A k, l \in 1..Len(t.order) : t.order[k] = t.order[l] => k = l
        BY <2>1 DEF InRotation
      <4>2. CASE i = Len(o) \/ j = Len(o)
        BY <3>1, <3>2, <3>3, <3>4, <3>7, <4>2
      <4>3. CASE i # Len(o) /\ j # Len(o)
        BY <3>1, <3>2, <3>4, <3>7, <4>1, <4>3
      <4> QED BY <4>2, <4>3
    <3> QED BY <3>5, <3>6, <3>7 DEF InRotation
  <2> QED BY <2>2, <2>5, <2>6 DEF WholeTable
<1> QED BY <1>1, <1>2

LEMMA WithoutType ==
  ASSUME NEW q \in Seq(Panes), NEW i \in 1..Len(q)
  PROVE  /\ Without(q, i) \in Seq(Panes)
         /\ Len(Without(q, i)) = Len(q) - 1
         /\ \A k \in 1..(Len(q) - 1) : Without(q, i)[k] = IF k < i THEN q[k] ELSE q[k + 1]
<1>1. Len(q) - 1 \in Nat /\ Len(q) \in Nat
  OBVIOUS
<1>2. \A k \in 1..(Len(q) - 1) : (IF k < i THEN q[k] ELSE q[k + 1]) \in Panes
  OBVIOUS
<1>3. Without(q, i) \in [1..(Len(q) - 1) -> Panes]
  BY <1>2 DEF Without
<1> QED BY <1>1, <1>3 DEF Without

LEMMA DropSlotWhole ==
  ASSUME NEW t, WholeTable(t), NEW p
  PROVE  WholeTable(DropSlot(t, p))
<1>1. CASE ~Has(t, p)
  BY <1>1 DEF DropSlot
<1>2. CASE Has(t, p)
  <2> DEFINE a == Restrict(t.at, DOMAIN t.at \ {p})
             x == PlaceOf(t.order, p)
             o == Without(t.order, x)
             u == [at |-> a, order |-> o, next |-> t.next]
  <2>1. t \in SlotTable /\ InRotation(t)
    BY DEF WholeTable
  <2>2. DropSlot(t, p) = u
    BY <1>2 DEF DropSlot
  <2>3. x \in 1..Len(t.order) /\ t.order[x] = p
    BY <1>2, <2>1 DEF InRotation, Has, PlaceOf
  <2>4. a \in [DOMAIN t.at \ {p} -> Slot] /\ DOMAIN t.at \ {p} \subseteq Panes
    BY <2>1, TableParts DEF Restrict
  <2>5. /\ o \in Seq(Panes) /\ Len(o) = Len(t.order) - 1
        /\ \A k \in 1..(Len(t.order) - 1) : o[k] = IF k < x THEN t.order[k] ELSE t.order[k + 1]
    <3> HIDE DEF x
    <3> QED BY <2>1, <2>3, TableParts, WithoutType
  <2>6. u \in SlotTable
    <3> HIDE DEF a, o
    <3> QED BY <2>1, <2>4, <2>5, TableParts, MakeTable
  <2>7. InRotation(u)
    <3> HIDE DEF x, o
    <3>1. DOMAIN a = DOMAIN t.at \ {p} /\ Len(t.order) \in Nat
      BY <2>1, TableParts DEF Restrict
    <3>2. \A i \in 1..Len(t.order) : i # x => t.order[i] # p
      BY <2>1, <2>3 DEF InRotation
    <3>3. \A i \in 1..Len(o) : o[i] \in DOMAIN a
      <4> SUFFICES ASSUME NEW i \in 1..Len(o) PROVE o[i] \in DOMAIN a
        OBVIOUS
      <4>1. i \in 1..(Len(t.order) - 1) /\ i \in 1..Len(t.order) /\ i + 1 \in 1..Len(t.order)
        BY <2>5, <3>1
      <4>2. \A k \in 1..Len(t.order) : k # x => t.order[k] \in DOMAIN t.at \ {p}
        BY <2>1, <3>2 DEF InRotation
      <4>3. CASE i < x
        BY <2>3, <2>5, <3>1, <4>1, <4>2, <4>3
      <4>4. CASE ~(i < x)
        BY <2>3, <2>5, <3>1, <4>1, <4>2, <4>4
      <4> QED BY <4>3, <4>4
    <3>4. \A r \in DOMAIN a : \E i \in 1..Len(o) : o[i] = r
      <4> SUFFICES ASSUME NEW r \in DOMAIN a PROVE \E i \in 1..Len(o) : o[i] = r
        OBVIOUS
      <4>1. PICK i \in 1..Len(t.order) : t.order[i] = r
        BY <2>1, <3>1 DEF InRotation
      <4>2. i # x
        BY <2>3, <3>1, <4>1
      <4>3. CASE i < x
        BY <2>3, <2>5, <3>1, <4>1, <4>3
      <4>4. CASE i > x
        <5>1. i - 1 \in 1..Len(o) /\ ~(i - 1 < x) /\ (i - 1) + 1 = i
          BY <2>3, <2>5, <3>1, <4>4
        <5> QED BY <2>5, <4>1, <5>1
      <4> QED BY <2>3, <3>1, <4>2, <4>3, <4>4
    <3>5. \A i, j \in 1..Len(o) : o[i] = o[j] => i = j
      <4> SUFFICES ASSUME NEW i \in 1..Len(o), NEW j \in 1..Len(o), o[i] = o[j]
                   PROVE  i = j
        OBVIOUS
      <4> DEFINE From(k) == IF k < x THEN k ELSE k + 1
      <4>1. /\ From(i) \in 1..Len(t.order) /\ o[i] = t.order[From(i)]
            /\ From(j) \in 1..Len(t.order) /\ o[j] = t.order[From(j)]
        BY <2>3, <2>5, <3>1
      <4>2. From(i) = From(j)
        <5> HIDE DEF From
        <5> QED BY <2>1, <4>1 DEF InRotation
      <4> QED BY <2>3, <2>5, <3>1, <4>2
    <3> QED BY <3>3, <3>4, <3>5 DEF InRotation
  <2> QED BY <2>2, <2>6, <2>7 DEF WholeTable
<1> QED BY <1>1, <1>2

\* Changing the contents of one slot leaves the rotation alone.
LEMMA SetSlotWhole ==
  ASSUME NEW t, WholeTable(t), NEW p, NEW e \in Slot
  PROVE  WholeTable([t EXCEPT !.at[p] = e])
<1> DEFINE a == [t.at EXCEPT ![p] = e]
           u == [at |-> a, order |-> t.order, next |-> t.next]
<1>1. t \in SlotTable /\ InRotation(t)
  BY DEF WholeTable
<1>2. [t EXCEPT !.at[p] = e] = u
  BY <1>1, TableParts
<1>3. a \in [DOMAIN t.at -> Slot] /\ DOMAIN t.at \subseteq Panes /\ DOMAIN a = DOMAIN t.at
  BY <1>1, TableParts
<1>4. u \in SlotTable
  <2> HIDE DEF a
  <2> QED BY <1>1, <1>3, TableParts, MakeTable
<1>5. InRotation(u)
  BY <1>1, <1>3 DEF InRotation
<1> QED BY <1>2, <1>4, <1>5 DEF WholeTable

LEMMA ActivateWhole ==
  ASSUME NEW t, WholeTable(t), NEW p
  PROVE  WholeTable(Activate(t, p))
<1>1. CASE ~Has(t, p)
  BY <1>1 DEF Activate
<1>2. CASE Has(t, p)
  <2> DEFINE e == [t.at[p] EXCEPT !.active = TRUE]
  <2>1. t.at[p] \in Slot
    BY <1>2, TableParts DEF WholeTable, Has
  <2>2. e \in Slot
    BY <2>1 DEF Slot
  <2>3. Activate(t, p) = [t EXCEPT !.at[p] = e]
    BY <1>2 DEF Activate
  <2> HIDE DEF e
  <2> QED BY <2>2, <2>3, SetSlotWhole
<1> QED BY <1>1, <1>2

LEMMA OfferRawWhole ==
  ASSUME NEW t, WholeTable(t), NEW p, Has(t, p)
  PROVE  WholeTable(OfferRaw(t, p))
<1> DEFINE e == [t.at[p] EXCEPT !.raw = TRUE, !.full = TRUE]
<1>1. t.at[p] \in Slot
  BY TableParts DEF WholeTable, Has
<1>2. e \in Slot
  BY <1>1 DEF Slot
<1>3. OfferRaw(t, p) = [t EXCEPT !.at[p] = e]
  BY DEF OfferRaw, Has
<1> HIDE DEF e
<1> QED BY <1>2, <1>3, SetSlotWhole

LEMMA OfferRowsWhole ==
  ASSUME NEW t, WholeTable(t), NEW p, Has(t, p),
         NEW key \in BOOLEAN, NEW lines \in Lines
  PROVE  WholeTable(OfferRows(t, p, key, lines))
<1> DEFINE old == IF key THEN NoRows ELSE t.at[p].rows
           new == Override(lines, old)
           e == [active |-> t.at[p].active, full |-> TRUE, key |-> t.at[p].key \/ key,
                 raw |-> FALSE, rows |-> new]
<1>1. t.at[p] \in Slot
  BY TableParts DEF WholeTable, Has
<1>2. old \in Lines
  BY <1>1, EmptySlotType DEF Slot, EmptySlot
<1>3. new \in Lines
  <2> HIDE DEF old
  <2> QED BY <1>2, OverrideType
<1>4. e \in Slot
  <2> HIDE DEF new
  <2> QED BY <1>1, <1>3 DEF Slot
<1>5. OfferRows(t, p, key, lines) = [t EXCEPT !.at[p] = e]
  BY DEF OfferRows, Has
<1> HIDE DEF e
<1> QED BY <1>4, <1>5, SetSlotWhole

\* takeSlotLocked visits every index of the rotation once in n turns.
LEMMA TurnsCover ==
  ASSUME NEW t \in SlotTable, NEW k \in 1..Len(t.order)
  PROVE  \E i \in 1..Len(t.order) : Turn(t, i) = k - 1
<1> DEFINE n == Len(t.order)
           from == IF t.next >= n THEN n - 1 ELSE t.next
           i == IF k - 1 > from THEN k - 1 - from ELSE k - 1 - from + n
<1>1. n \in Nat /\ n > 0 /\ from \in 0..(n - 1)
  BY TableParts
<1>2. i \in 1..n
  BY <1>1
<1>3. from + i = k - 1 \/ from + i = k - 1 + n
  BY <1>1
<1>4. Turn(t, i) = k - 1
  BY <1>1, <1>3 DEF Turn
<1> QED BY <1>2, <1>4

LEMMA TurnType ==
  ASSUME NEW t \in SlotTable, NEW i \in 1..Len(t.order)
  PROVE  Turn(t, i) \in 0..(Len(t.order) - 1)
<1> DEFINE n == Len(t.order)
           from == IF t.next >= n THEN n - 1 ELSE t.next
<1>1. n \in Nat /\ n > 0 /\ from \in 0..(n - 1)
  BY TableParts
<1> QED BY <1>1 DEF Turn

(* What hasSlotLocked saw, takeSlotLocked finds: when some slot is pending *)
(* the pane served is one of the pending ones, and it is the first pending *)
(* one after the pane served last.                                         *)
THEOREM ServedIsPending ==
  ASSUME NEW t, WholeTable(t), HasPending(t)
  PROVE  /\ ServedIndex(t) \in 0..(Len(t.order) - 1)
         /\ Pending(t, Served(t))
         /\ \E i \in ReadyTurns(t) : /\ ServedIndex(t) = Turn(t, i)
                                     /\ \A j \in ReadyTurns(t) : i <= j
<1>1. t \in SlotTable /\ InRotation(t) /\ Len(t.order) \in Nat
  BY TableParts DEF WholeTable
<1>2. PICK p \in DOMAIN t.at : Pending(t, p)
  BY DEF HasPending
<1>3. PICK k \in 1..Len(t.order) : t.order[k] = p
  BY <1>1 DEF InRotation
<1>4. PICK i \in 1..Len(t.order) : Turn(t, i) = k - 1
  BY <1>1, TurnsCover
<1>5. i \in ReadyTurns(t) /\ ReadyTurns(t) \subseteq Nat
  BY <1>2, <1>3, <1>4 DEF ReadyTurns
<1> DEFINE least == CHOOSE x \in ReadyTurns(t) : \A j \in ReadyTurns(t) : x <= j
<1>6. least \in ReadyTurns(t) /\ \A j \in ReadyTurns(t) : least <= j
  <2>1. \E x \in ReadyTurns(t) : \A j \in ReadyTurns(t) : x <= j
    BY <1>5, LeastElement
  <2> QED BY <2>1
<1>7. ServedIndex(t) = Turn(t, least)
  BY DEF ServedIndex
<1> HIDE DEF least
<1>8. least \in 1..Len(t.order) /\ Pending(t, t.order[Turn(t, least) + 1])
  BY <1>6 DEF ReadyTurns
<1>9. Turn(t, least) \in 0..(Len(t.order) - 1)
  BY <1>1, <1>8, TurnType
<1> QED BY <1>6, <1>7, <1>8, <1>9 DEF Served

LEMMA TakeSlotWhole ==
  ASSUME NEW t, WholeTable(t), HasPending(t)
  PROVE  WholeTable(TakeSlot(t))
<1> DEFINE p == Served(t)
           e == [EmptySlot EXCEPT !.active = t.at[p].active]
           v == [t EXCEPT !.at[p] = e]
<1>1. Has(t, p) /\ t.at[p] \in Slot
  BY ServedIsPending, TableParts DEF WholeTable, Pending, Has
<1>2. e \in Slot
  BY <1>1, EmptySlotType DEF Slot
<1>3. WholeTable(v)
  <2> HIDE DEF e, p
  <2> QED BY <1>2, SetSlotWhole
<1>4. ServedIndex(t) \in Nat
  BY ServedIsPending, TableParts DEF WholeTable
<1>5. TakeSlot(t) = [at |-> v.at, order |-> v.order, next |-> ServedIndex(t)]
  <2> HIDE DEF e
  <2>1. t = [at |-> t.at, order |-> t.order, next |-> t.next]
    BY TableParts DEF WholeTable
  <2>2. TakeSlot(t) = [t EXCEPT !.at[p] = e, !.next = ServedIndex(t)]
    BY DEF TakeSlot, e
  <2> HIDE DEF p
  <2> QED BY <2>1, <2>2
<1>6. /\ v.at \in [DOMAIN v.at -> Slot] /\ DOMAIN v.at \in SUBSET Panes /\ v.order \in Seq(Panes)
  <2> HIDE DEF v
  <2> QED BY <1>3, TableParts DEF WholeTable
<1> HIDE DEF v
<1>7. TakeSlot(t) \in SlotTable
  BY <1>4, <1>5, <1>6, MakeTable
<1>8. InRotation(TakeSlot(t))
  BY <1>3, <1>5 DEF WholeTable, InRotation
<1> QED BY <1>7, <1>8 DEF WholeTable

LEMMA FrameOfType ==
  ASSUME NEW t, WholeTable(t), NEW p, Has(t, p)
  PROVE  FrameOf(t, p) \in [kind : {"frame", "changed"}, pane : Panes,
                            key : BOOLEAN, rows : Lines]
<1>1. t.at[p] \in Slot /\ p \in Panes
  BY TableParts DEF WholeTable, Has
<1>2. NoRows \in Lines
  BY EmptySlotType DEF EmptySlot, Slot
<1> QED BY <1>1, <1>2 DEF FrameOf, Slot

------------------------------------------------------------------------------
(* The bus.                                                                *)

\* A Sub record, its slots in a whole rotation.
GoodRec(r) == r \in SubRec /\ InRotation(r.slots)
GoodSubs(f) == f \in [Subs -> SubRec] /\ \A s \in Subs : InRotation(f[s].slots)

Inv == TypeOK /\ RotationWhole

LEMMA GoodUpdate ==
  ASSUME NEW f, GoodSubs(f), NEW s, NEW r, GoodRec(r)
  PROVE  GoodSubs([f EXCEPT ![s] = r])
BY DEF GoodSubs, GoodRec

LEMMA GoodMember ==
  ASSUME NEW f, GoodSubs(f), NEW s \in Subs
  PROVE  GoodRec(f[s]) /\ WholeTable(f[s].slots)
BY DEF GoodSubs, GoodRec, WholeTable, SubRec

LEMMA GoodSlots ==
  ASSUME NEW r, GoodRec(r), NEW t, WholeTable(t)
  PROVE  GoodRec([r EXCEPT !.slots = t])
BY DEF GoodRec, WholeTable, SubRec

LEMMA GoodQueued ==
  ASSUME NEW r, GoodRec(r), NEW m \in Msg
  PROVE  GoodRec(Queued(r, m))
<1>1. r.fifo \in Seq(Msg) /\ Append(r.fifo, m) \in Seq(Msg)
  BY DEF GoodRec, SubRec
<1>2. r.bytes + Size(m) \in Int
  BY DEF GoodRec, SubRec, Size
<1> QED BY <1>1, <1>2 DEF GoodRec, SubRec, Queued

LEMMA GoodFinalized ==
  ASSUME NEW r, GoodRec(r)
  PROVE  GoodRec(Finalized(r))
<1>1. NoSlots \in SlotTable /\ InRotation(NoSlots)
  BY NoSlotsWhole DEF WholeTable
<1>2. AllFinals \in Seq(1..NFinals) /\ << >> \in Seq(Msg)
  BY BusBounds DEF AllFinals
<1>3. 0 \in Int
  OBVIOUS
<1> QED BY <1>1, <1>2, <1>3 DEF GoodRec, SubRec, Finalized

\* The messages the bus writes are messages.
LEMMA Messages ==
  /\ NoMsg \in Msg /\ Aggregate \in Msg
  /\ \A i \in Nat : Event(i) \in Msg /\ Reply(i) \in Msg /\ Final(i) \in Msg
  /\ \A p \in Panes : /\ ClosedEv(p) \in Msg /\ Watching(p) \in Msg
                      /\ Refused(p) \in Msg /\ Left(p) \in Msg
BY DEF NoMsg, Aggregate, Event, Reply, Final, ClosedEv, Watching, Refused, Left,
       Plain, PlainMsg, Msg

LEMMA InitInv == Init => Inv
<1> SUFFICES ASSUME Init PROVE Inv
  OBVIOUS
<1>1. GoodRec(NewSub)
  <2>1. NoSlots \in SlotTable /\ InRotation(NoSlots)
    BY NoSlotsWhole DEF WholeTable
  <2> QED BY <2>1 DEF GoodRec, SubRec, NewSub
<1>2. SubType /\ RotationWhole
  BY <1>1 DEF Init, SubType, RotationWhole, GoodRec
<1>3. HubType
  BY Messages DEF Init, HubType, NoPub, PubRec
<1>4. WriterType
  BY Messages DEF Init, WriterType
<1>5. ReaderType
  BY DEF Init, ReaderType
<1>6. HistoryType
  BY DEF Init, HistoryType, ClientRec, GhostRec, Screen
<1> QED BY <1>2, <1>3, <1>4, <1>5, <1>6 DEF Inv, TypeOK

LEMMA InvSubs == Inv => GoodSubs(sub)
BY DEF Inv, TypeOK, SubType, RotationWhole, GoodSubs

\* kill's first step: the record it was given, dead.
LEMMA KillMarkInv ==
  ASSUME Inv, NEW s \in Subs, NEW recs, GoodSubs(recs), KillMark(s, recs)
  PROVE  GoodSubs(sub)' /\ reap' \in SUBSET Subs
<1>1. CASE sub[s].dead
  BY <1>1 DEF KillMark, Inv, TypeOK, ReaderType, GoodSubs
<1>2. CASE ~sub[s].dead
  <2> DEFINE r == [recs[s] EXCEPT !.dead = TRUE]
  <2>1. GoodRec(r)
    BY GoodMember DEF GoodRec, SubRec
  <2>2. sub' = [recs EXCEPT ![s] = r]
    BY <1>2 DEF KillMark
  <2>3. GoodSubs(sub')
    <3> HIDE DEF r
    <3> QED BY <2>1, <2>2, GoodUpdate
  <2> QED BY <1>2, <2>3 DEF KillMark, Inv, TypeOK, ReaderType, GoodSubs
<1> QED BY <1>1, <1>2

\* One subscriber's record replaced: in the Subs, in the ghosts, in Publish.
LEMMA SubStep ==
  ASSUME Inv, NEW s, NEW r, GoodRec(r), sub' = [sub EXCEPT ![s] = r]
  PROVE  GoodSubs(sub)'
<1>1. GoodSubs([sub EXCEPT ![s] = r])
  BY InvSubs, GoodUpdate
<1> QED BY <1>1 DEF GoodSubs

LEMMA SubSame == ASSUME Inv, sub' = sub PROVE GoodSubs(sub)'
BY InvSubs DEF GoodSubs

LEMMA MySub ==
  ASSUME Inv, NEW s \in Subs
  PROVE  GoodRec(sub[s]) /\ WholeTable(sub[s].slots)
BY InvSubs, GoodMember

LEMMA GhostUpdate ==
  ASSUME NEW g \in [Subs -> GhostRec], NEW s, NEW r \in GhostRec
  PROVE  [g EXCEPT ![s] = r] \in [Subs -> GhostRec]
OBVIOUS

LEMMA GhostCounts ==
  ASSUME NEW g \in [Subs -> GhostRec], NEW s \in Subs, NEW n \in Nat
  PROVE  /\ [g EXCEPT ![s].since = n] \in [Subs -> GhostRec]
         /\ [g EXCEPT ![s].requests = @ + n] \in [Subs -> GhostRec]
<1>1. g[s] \in GhostRec /\ g[s].requests + n \in Nat
  BY DEF GhostRec
<1>2. [g[s] EXCEPT !.since = n] \in GhostRec
  BY <1>1 DEF GhostRec
<1>3. [g[s] EXCEPT !.requests = @ + n] \in GhostRec
  BY <1>1 DEF GhostRec
<1>4. [g EXCEPT ![s].since = n] = [g EXCEPT ![s] = [g[s] EXCEPT !.since = n]]
  OBVIOUS
<1>5. [g EXCEPT ![s].requests = @ + n] = [g EXCEPT ![s] = [g[s] EXCEPT !.requests = @ + n]]
  OBVIOUS
<1> QED BY <1>2, <1>3, <1>4, <1>5, GhostUpdate

LEMMA CutShortType ==
  ASSUME NEW s \in Subs, NEW g \in [Subs -> GhostRec]
  PROVE  CutShort(s, g) \in [Subs -> GhostRec]
BY DEF CutShort, GhostRec

LEMMA AcceptedType ==
  ASSUME NEW s \in Subs, NEW g \in [Subs -> GhostRec], NEW m \in Msg
  PROVE  Accepted(s, g, m) \in [Subs -> GhostRec]
<1>1. g[s] \in GhostRec /\ g[s].accepted \cup {m} \in SUBSET Msg
  BY DEF GhostRec
<1>2. [g[s] EXCEPT !.accepted = @ \cup {m}] \in GhostRec
  BY <1>1 DEF GhostRec
<1>3. [g EXCEPT ![s].accepted = @ \cup {m}]
        = [g EXCEPT ![s] = [g[s] EXCEPT !.accepted = @ \cup {m}]]
  OBVIOUS
<1> QED BY <1>2, <1>3, GhostUpdate DEF Accepted

LEMMA DropSoonType ==
  ASSUME Inv, NEW s \in Subs, DropSoon(s)
  PROVE  dropDue' \in [Subs -> {"no", "due", "done"}]
BY DEF DropSoon, Inv, TypeOK, ReaderType

LEMMA SendToInv ==
  ASSUME Inv, NEW s \in Subs, NEW r, GoodRec(r), NEW m \in Msg, NEW n \in {0, 1},
         SendTo(s, r, m, n)
  PROVE  /\ GoodSubs(sub)' /\ reap' \in SUBSET Subs
         /\ dropDue' \in [Subs -> {"no", "due", "done"}]
         /\ ghost' \in [Subs -> GhostRec]
<1> DEFINE g == [ghost EXCEPT ![s].requests = @ + n]
<1>1. g \in [Subs -> GhostRec]
  BY GhostCounts DEF Inv, TypeOK, HistoryType
<1>2. GoodSubs([sub EXCEPT ![s] = r]) /\ GoodSubs([sub EXCEPT ![s] = Queued(r, m)])
  BY InvSubs, GoodUpdate, GoodQueued
<1> HIDE DEF g
<1>3. CASE Overflows(r, m)
  <2>1. KillMark(s, [sub EXCEPT ![s] = r]) /\ DropSoon(s) /\ ghost' = CutShort(s, g)
    BY <1>3 DEF SendTo, g
  <2> QED BY <1>1, <1>2, <2>1, KillMarkInv, DropSoonType, CutShortType
<1>4. CASE ~Overflows(r, m)
  <2>1. /\ sub' = [sub EXCEPT ![s] = Queued(r, m)]
        /\ ghost' = Accepted(s, g, m) /\ UNCHANGED <<reap, dropDue>>
    BY <1>4 DEF SendTo, g
  <2>2. GoodSubs(sub')
    BY <1>2, <2>1
  <2>3. GoodSubs(sub)'
    BY <2>2 DEF GoodSubs
  <2> QED BY <1>1, <2>1, <2>3, AcceptedType DEF Inv, TypeOK, ReaderType
<1> QED BY <1>3, <1>4

LEMMA PubStep ==
  ASSUME Inv, NEW a, NEW r \in PubRec, pub' = [pub EXCEPT ![a] = r]
  PROVE  pub' \in [Actors -> PubRec]
BY DEF Inv, TypeOK, HubType

LEMMA CloseKills ==
  ASSUME Inv, NEW s \in Subs, Close(s), ~(sub[s].closed \/ sub[s].dead), ~sub[s].started
  PROVE  GoodSubs(sub)' /\ reap' \in SUBSET Subs
<1> DEFINE r == [sub[s] EXCEPT !.closed = TRUE]
<1>1. GoodRec(r)
  BY MySub DEF GoodRec, SubRec
<1>2. KillMark(s, [sub EXCEPT ![s] = r])
  BY DEF Close
<1> HIDE DEF r
<1>3. GoodSubs([sub EXCEPT ![s] = r])
  BY <1>1, InvSubs, GoodUpdate
<1> QED BY <1>2, <1>3, KillMarkInv

\* Reading a message keeps a peer's record a peer's record.
LEMMA ReceivedType ==
  ASSUME NEW c \in ClientRec, NEW m \in Msg
  PROVE  Received(c, m) \in ClientRec
<1>1. CASE m.kind \in {"frame", "changed"}
  <2>1. m \in FrameMsg
    BY <1>1 DEF Msg, PlainMsg, FrameMsg
  <2>2. m.pane \in Panes /\ m.rows \in Lines /\ c.view \in Screen
    BY <2>1 DEF FrameMsg, ClientRec
  <2>3. c.view[m.pane] \in [Rows -> Cells \cup {NoCell}]
    BY <2>2 DEF Screen
  <2>4. Shown(c.view[m.pane], m) \in [Rows -> Cells \cup {NoCell}]
    <3>1. PICK R \in SUBSET Rows : m.rows \in [R -> Cells]
      BY <2>2, LinesFunction
    <3>2. Override(m.rows, c.view[m.pane]) \in [Rows -> Cells \cup {NoCell}]
      BY <2>2, <2>3, OverrideScreen
    <3>3. [r \in Rows |-> IF r \in DOMAIN m.rows THEN m.rows[r] ELSE NoCell]
             \in [Rows -> Cells \cup {NoCell}]
      BY <3>1
    <3> QED BY <2>3, <3>2, <3>3 DEF Shown
  <2> DEFINE scr == [c.view EXCEPT ![m.pane] = Shown(@, m)]
  <2>5. scr \in Screen
    BY <2>2, <2>4 DEF Screen
  <2>6. Received(c, m) = [c EXCEPT !.view = scr]
    BY <1>1 DEF Received
  <2> HIDE DEF scr
  <2> QED BY <2>5, <2>6 DEF ClientRec
<1>2. CASE m.kind \notin {"frame", "changed"}
  <2>1. Append(c.wire, m) \in Seq(Msg) /\ c.told \in SUBSET (Panes \cup {NoPane})
    BY DEF ClientRec
  <2>2. m.pane \in Panes \cup {NoPane}
    BY <1>2 DEF Msg, FrameMsg, PlainMsg
  <2>3. Told(c.told, m) \in SUBSET (Panes \cup {NoPane})
    BY <2>1, <2>2 DEF Told
  <2>4. Received(c, m) = [c EXCEPT !.wire = Append(c.wire, m), !.told = Told(c.told, m)]
    BY <1>2 DEF Received
  <2> QED BY <2>1, <2>3, <2>4 DEF ClientRec
<1> QED BY <1>1, <1>2

LEMMA FirstAndRest ==
  ASSUME NEW S, NEW q \in Seq(S), q # << >>
  PROVE  Tail(q) \in Seq(S) /\ q[1] \in S
OBVIOUS

LEMMA SessionInv ==
  ASSUME Inv, NEW s \in Subs, Session(s)
  PROVE  Inv'
<1>1. HubType'
  BY DEF Inv, TypeOK, HubType, Session
<1>2. GoodSubs(sub)'
  <2> DEFINE r == [sub[s] EXCEPT !.finalized = TRUE, !.finals = AllFinals]
  <2>1. AllFinals \in Seq(1..NFinals)
    BY BusBounds DEF AllFinals
  <2>8. GoodRec(r)
    BY MySub, <2>1 DEF GoodRec, SubRec
  <2>9. sub' = [sub EXCEPT ![s] = r] \/ sub' = sub
    BY DEF Session
  <2> HIDE DEF r
  <2> QED BY <2>8, <2>9, SubStep, SubSame
<1>3. WriterType'
  BY DEF Inv, TypeOK, WriterType, Session
<1>4. ReaderType'
  BY DEF Inv, TypeOK, ReaderType, Session
<1>5. HistoryType'
  BY GhostCounts DEF Inv, TypeOK, HistoryType, ReaderType, Session
<1> QED BY <1>1, <1>2, <1>3, <1>4, <1>5 DEF Inv, TypeOK, SubType, RotationWhole, GoodSubs

LEMMA StartInv ==
  ASSUME Inv, NEW s \in Subs, Start(s)
  PROVE  Inv'
<1>1. HubType'
  BY DEF Inv, TypeOK, HubType, Start
<1>2. GoodSubs(sub)'
  <2> DEFINE r == [sub[s] EXCEPT !.started = TRUE, !.head = TRUE]
  <2>8. GoodRec(r)
    BY MySub DEF GoodRec, SubRec
  <2>9. sub' = [sub EXCEPT ![s] = r] \/ sub' = sub
    BY DEF Start
  <2> HIDE DEF r
  <2> QED BY <2>8, <2>9, SubStep, SubSame
<1>3. WriterType'
  BY DEF Inv, TypeOK, WriterType, Start
<1>4. ReaderType'
  BY DEF Inv, TypeOK, ReaderType, Start
<1>5. HistoryType'
  BY DEF Inv, TypeOK, HistoryType, Start
<1> QED BY <1>1, <1>2, <1>3, <1>4, <1>5 DEF Inv, TypeOK, SubType, RotationWhole, GoodSubs

\* A reply is a message, whatever has been asked before it.
LEMMA ReplyIsMessage ==
  ASSUME Inv, NEW s \in Subs
  PROVE  GoodRec(sub[s]) /\ Reply(ghost[s].requests + 1) \in Msg
<1>1. ghost \in [Subs -> GhostRec]
  BY DEF Inv, TypeOK, HistoryType
<1>2. ghost[s] \in GhostRec
  BY <1>1
<1>3. ghost[s].requests \in Nat
  BY <1>2 DEF GhostRec
<1>4. ghost[s].requests + 1 \in Nat
  BY <1>3
<1>5. \A i \in Nat : Reply(i) \in Msg
  BY Messages
<1> QED BY <1>4, <1>5, MySub

LEMMA SendInv ==
  ASSUME Inv, NEW s \in Subs, Send(s)
  PROVE  Inv'
<1>1. HubType'
  BY DEF Inv, TypeOK, HubType, Send
<1>2. GoodSubs(sub)'
  <2>1. GoodRec(sub[s]) /\ Reply(ghost[s].requests + 1) \in Msg
    BY ReplyIsMessage
  <2>2. SendTo(s, sub[s], Reply(ghost[s].requests + 1), 1)
    BY DEF Send
  <2> QED BY <2>1, <2>2, SendToInv
<1>3. WriterType'
  BY DEF Inv, TypeOK, WriterType, Send
<1>4. ReaderType'
  <2>1. GoodRec(sub[s]) /\ Reply(ghost[s].requests + 1) \in Msg
    BY ReplyIsMessage
  <2>2. SendTo(s, sub[s], Reply(ghost[s].requests + 1), 1)
    BY DEF Send
  <2> QED BY <2>1, <2>2, SendToInv DEF Inv, TypeOK, ReaderType, Send
<1>5. HistoryType'
  <2>1. GoodRec(sub[s]) /\ Reply(ghost[s].requests + 1) \in Msg
    BY ReplyIsMessage
  <2>2. SendTo(s, sub[s], Reply(ghost[s].requests + 1), 1)
    BY DEF Send
  <2> QED BY <2>1, <2>2, SendToInv DEF Inv, TypeOK, HistoryType, Send
<1> QED BY <1>1, <1>2, <1>3, <1>4, <1>5 DEF Inv, TypeOK, SubType, RotationWhole, GoodSubs

LEMMA CloseInv ==
  ASSUME Inv, NEW s \in Subs, Close(s)
  PROVE  Inv'
<1>1. HubType'
  BY DEF Inv, TypeOK, HubType, Close
<1>2. GoodSubs(sub)'
  <2>1. CASE sub[s].closed \/ sub[s].dead
    BY <2>1, SubSame DEF Close
  <2>2. CASE ~(sub[s].closed \/ sub[s].dead) /\ sub[s].started
    <3> DEFINE r == [sub[s] EXCEPT !.closed = TRUE, !.wake = TRUE]
    <3>1. GoodRec(r)
      BY MySub DEF GoodRec, SubRec
    <3>2. sub' = [sub EXCEPT ![s] = r]
      BY <2>2 DEF Close
    <3> HIDE DEF r
    <3> QED BY <3>1, <3>2, SubStep
  <2>3. CASE ~(sub[s].closed \/ sub[s].dead) /\ ~sub[s].started
    BY <2>3, CloseKills
  <2> QED BY <2>1, <2>2, <2>3
<1>3. WriterType'
  BY DEF Inv, TypeOK, WriterType, Close
<1>4. ReaderType'
  <2>1. reap' \in SUBSET Subs
    <3>1. CASE ~(sub[s].closed \/ sub[s].dead) /\ ~sub[s].started
      BY <3>1, CloseKills
    <3>2. CASE (sub[s].closed \/ sub[s].dead) \/ sub[s].started
      BY <3>2 DEF Inv, TypeOK, ReaderType, Close
    <3> QED BY <3>1, <3>2
  <2> QED BY <2>1, DropSoonType DEF Inv, TypeOK, ReaderType, Close
<1>5. HistoryType'
  BY CutShortType DEF Inv, TypeOK, HistoryType, Close
<1> QED BY <1>1, <1>2, <1>3, <1>4, <1>5 DEF Inv, TypeOK, SubType, RotationWhole, GoodSubs

LEMMA WatchAddSlotInv ==
  ASSUME Inv, NEW s \in Subs, NEW p \in Panes, WatchAddSlot(s, p)
  PROVE  Inv'
<1>1. HubType'
  BY DEF Inv, TypeOK, HubType, WatchAddSlot, readerVars, At, GoTo
<1>2. GoodSubs(sub)'
  <2>1. CASE Open(sub[s], p)
    <3> DEFINE r == [sub[s] EXCEPT !.slots = AddSlot(@, p)]
    <3>1. GoodRec(r)
      BY MySub, AddSlotWhole, GoodSlots
    <3>2. sub' = [sub EXCEPT ![s] = r]
      BY <2>1 DEF WatchAddSlot
    <3> HIDE DEF r
    <3> QED BY <3>1, <3>2, SubStep
  <2>2. CASE ~(Open(sub[s], p))
    <3>1. GoodRec(sub[s]) /\ Refused(p) \in Msg
      BY MySub, Messages
    <3>2. SendTo(s, sub[s], Refused(p), 1)
      BY <2>2 DEF WatchAddSlot, readerVars, At, GoTo
    <3> QED BY <2>2, <3>1, <3>2, SendToInv
  <2> QED BY <2>1, <2>2
<1>3. WriterType'
  BY DEF Inv, TypeOK, WriterType, WatchAddSlot, readerVars, At, GoTo
<1>4. ReaderType'
  <2>1. CASE Open(sub[s], p)
    <3>1. adp' = [adp EXCEPT ![s] = [pc |-> "resolve", pane |-> p]]
      BY <2>1 DEF WatchAddSlot, GoTo
    <3>2. watcher' = watcher /\ pane' = pane /\ published' = published
          /\ reap' = reap /\ dropDue' = dropDue
      BY <2>1 DEF WatchAddSlot, readerVars
    <3> QED BY <3>1, <3>2 DEF Inv, TypeOK, ReaderType
  <2>2. CASE ~(Open(sub[s], p))
    <3>1. GoodRec(sub[s]) /\ Refused(p) \in Msg
      BY MySub, Messages
    <3>2. SendTo(s, sub[s], Refused(p), 1)
      BY <2>2 DEF WatchAddSlot, readerVars, At, GoTo
    <3>3. reap' \in SUBSET Subs /\ dropDue' \in [Subs -> {"no", "due", "done"}]
      BY <3>1, <3>2, SendToInv
    <3> QED BY <2>2, <3>3 DEF Inv, TypeOK, ReaderType, WatchAddSlot, readerVars, At, GoTo
  <2> QED BY <2>1, <2>2
<1>5. HistoryType'
  <2>1. CASE Open(sub[s], p)
    <3>1. ghost \in [Subs -> GhostRec]
      BY DEF Inv, TypeOK, HistoryType
    <3>2. ghost' = [ghost EXCEPT ![s].requests = @ + 1] /\ client' = client
      BY <2>1 DEF WatchAddSlot, readerVars
    <3> QED BY <3>1, <3>2, GhostCounts DEF Inv, TypeOK, HistoryType
  <2>2. CASE ~(Open(sub[s], p))
    <3>1. GoodRec(sub[s]) /\ Refused(p) \in Msg
      BY MySub, Messages
    <3>2. SendTo(s, sub[s], Refused(p), 1)
      BY <2>2 DEF WatchAddSlot, readerVars, At, GoTo
    <3> QED BY <2>2, <3>1, <3>2, SendToInv DEF Inv, TypeOK, HistoryType, WatchAddSlot, readerVars, At, GoTo
  <2> QED BY <2>1, <2>2
<1> QED BY <1>1, <1>2, <1>3, <1>4, <1>5 DEF Inv, TypeOK, SubType, RotationWhole, GoodSubs

LEMMA WatchResolveInv ==
  ASSUME Inv, NEW s \in Subs, NEW p \in Panes, WatchResolve(s, p)
  PROVE  Inv'
<1>1. HubType'
  BY DEF Inv, TypeOK, HubType, WatchResolve, readerVars, At, GoTo
<1>2. GoodSubs(sub)'
  <2>1. CASE pane[p].pc = "live"
    BY <2>1, SubSame DEF WatchResolve
  <2>2. CASE ~(pane[p].pc = "live")
    <3>1. GoodRec([sub[s] EXCEPT !.slots = DropSlot(@, p)]) /\ Refused(p) \in Msg
      BY MySub, DropSlotWhole, GoodSlots, Messages
    <3>2. SendTo(s, [sub[s] EXCEPT !.slots = DropSlot(@, p)], Refused(p), 0)
      BY <2>2 DEF WatchResolve, readerVars, At, GoTo
    <3> QED BY <2>2, <3>1, <3>2, SendToInv
  <2> QED BY <2>1, <2>2
<1>3. WriterType'
  BY DEF Inv, TypeOK, WriterType, WatchResolve, readerVars, At, GoTo
<1>4. ReaderType'
  <2>1. CASE pane[p].pc = "live"
    <3>1. /\ adp' = [adp EXCEPT ![s] = [pc |-> "add", pane |-> p]]
          /\ UNCHANGED <<reap, dropDue, watcher, pane, published>>
      BY <2>1 DEF WatchResolve, readerVars, GoTo
    <3> QED BY <3>1 DEF Inv, TypeOK, ReaderType
  <2>2. CASE ~(pane[p].pc = "live")
    <3>1. GoodRec([sub[s] EXCEPT !.slots = DropSlot(@, p)]) /\ Refused(p) \in Msg
      BY MySub, DropSlotWhole, GoodSlots, Messages
    <3>2. SendTo(s, [sub[s] EXCEPT !.slots = DropSlot(@, p)], Refused(p), 0)
      BY <2>2 DEF WatchResolve, readerVars, At, GoTo
    <3>3. reap' \in SUBSET Subs /\ dropDue' \in [Subs -> {"no", "due", "done"}]
      BY <3>1, <3>2, SendToInv
    <3>4. /\ adp' = [adp EXCEPT ![s] = [pc |-> "serving", pane |-> NoPane]]
          /\ UNCHANGED <<watcher, pane, published>>
      BY <2>2 DEF WatchResolve, readerVars, GoTo
    <3> QED BY <3>3, <3>4 DEF Inv, TypeOK, ReaderType
  <2> QED BY <2>1, <2>2
<1>5. HistoryType'
  <2>1. CASE pane[p].pc = "live"
    BY <2>1 DEF Inv, TypeOK, HistoryType, WatchResolve, readerVars, At, GoTo
  <2>2. CASE ~(pane[p].pc = "live")
    <3>1. GoodRec([sub[s] EXCEPT !.slots = DropSlot(@, p)]) /\ Refused(p) \in Msg
      BY MySub, DropSlotWhole, GoodSlots, Messages
    <3>2. SendTo(s, [sub[s] EXCEPT !.slots = DropSlot(@, p)], Refused(p), 0)
      BY <2>2 DEF WatchResolve, readerVars, At, GoTo
    <3> QED BY <2>2, <3>1, <3>2, SendToInv DEF Inv, TypeOK, HistoryType, WatchResolve, readerVars, At, GoTo
  <2> QED BY <2>1, <2>2
<1> QED BY <1>1, <1>2, <1>3, <1>4, <1>5 DEF Inv, TypeOK, SubType, RotationWhole, GoodSubs

LEMMA WatchAddInv ==
  ASSUME Inv, NEW s \in Subs, NEW p \in Panes, WatchAdd(s, p)
  PROVE  Inv'
<1>1. HubType'
  BY DEF Inv, TypeOK, HubType, WatchAdd, readerVars, At, GoTo
<1>2. GoodSubs(sub)'
  BY DEF Inv, TypeOK, GoodSubs, SubType, RotationWhole, WatchAdd, readerVars, At, GoTo
<1>3. WriterType'
  BY DEF Inv, TypeOK, WriterType, WatchAdd, readerVars, At, GoTo
<1>4. ReaderType'
  BY DEF Inv, TypeOK, ReaderType, WatchAdd, readerVars, At, GoTo
<1>5. HistoryType'
  BY DEF Inv, TypeOK, HistoryType, WatchAdd, readerVars, At, GoTo
<1> QED BY <1>1, <1>2, <1>3, <1>4, <1>5 DEF Inv, TypeOK, SubType, RotationWhole, GoodSubs

LEMMA WatchAnswerInv ==
  ASSUME Inv, NEW s \in Subs, NEW p \in Panes, WatchAnswer(s, p)
  PROVE  Inv'
<1>1. HubType'
  BY DEF Inv, TypeOK, HubType, WatchAnswer, readerVars, At, GoTo
<1>2. GoodSubs(sub)'
  <2>1. CASE s \in Silent
    <3> DEFINE t == Activate(sub[s].slots, p)
               r == [sub[s] EXCEPT !.slots = t, !.wake = TRUE]
    <3>1. WholeTable(t)
      BY MySub, ActivateWhole
    <3>2. GoodRec(r)
      <4> HIDE DEF t
      <4> QED BY <3>1, MySub DEF GoodRec, SubRec, WholeTable
    <3>3. sub' = [sub EXCEPT ![s] = r]
      BY <2>1, MySub DEF WatchAnswer, GoodRec, SubRec
    <3> HIDE DEF r
    <3> QED BY <3>2, <3>3, SubStep
  <2>2. CASE ~(s \in Silent)
    <3>1. GoodRec([sub[s] EXCEPT !.slots = Activate(@, p)]) /\ Watching(p) \in Msg
      BY MySub, ActivateWhole, GoodSlots, Messages
    <3>2. SendTo(s, [sub[s] EXCEPT !.slots = Activate(@, p)], Watching(p), 0)
      BY <2>2 DEF WatchAnswer, readerVars, At, GoTo
    <3> QED BY <2>2, <3>1, <3>2, SendToInv
  <2> QED BY <2>1, <2>2
<1>3. WriterType'
  BY DEF Inv, TypeOK, WriterType, WatchAnswer, readerVars, At, GoTo
<1>4. ReaderType'
  <2>1. CASE s \in Silent
    BY <2>1 DEF Inv, TypeOK, ReaderType, WatchAnswer, readerVars, At, GoTo
  <2>2. CASE ~(s \in Silent)
    <3>1. GoodRec([sub[s] EXCEPT !.slots = Activate(@, p)]) /\ Watching(p) \in Msg
      BY MySub, ActivateWhole, GoodSlots, Messages
    <3>2. SendTo(s, [sub[s] EXCEPT !.slots = Activate(@, p)], Watching(p), 0)
      BY <2>2 DEF WatchAnswer, readerVars, At, GoTo
    <3> QED BY <2>2, <3>1, <3>2, SendToInv DEF Inv, TypeOK, ReaderType, WatchAnswer, readerVars, At, GoTo
  <2> QED BY <2>1, <2>2
<1>5. HistoryType'
  <2>1. CASE s \in Silent
    BY <2>1 DEF Inv, TypeOK, HistoryType, WatchAnswer, readerVars, At, GoTo
  <2>2. CASE ~(s \in Silent)
    <3>1. GoodRec([sub[s] EXCEPT !.slots = Activate(@, p)]) /\ Watching(p) \in Msg
      BY MySub, ActivateWhole, GoodSlots, Messages
    <3>2. SendTo(s, [sub[s] EXCEPT !.slots = Activate(@, p)], Watching(p), 0)
      BY <2>2 DEF WatchAnswer, readerVars, At, GoTo
    <3> QED BY <2>2, <3>1, <3>2, SendToInv DEF Inv, TypeOK, HistoryType, WatchAnswer, readerVars, At, GoTo
  <2> QED BY <2>1, <2>2
<1> QED BY <1>1, <1>2, <1>3, <1>4, <1>5 DEF Inv, TypeOK, SubType, RotationWhole, GoodSubs

LEMMA UnwatchLeaveInv ==
  ASSUME Inv, NEW s \in Subs, NEW p \in Panes, UnwatchLeave(s, p)
  PROVE  Inv'
<1>1. HubType'
  BY DEF Inv, TypeOK, HubType, UnwatchLeave, readerVars, At, GoTo
<1>2. GoodSubs(sub)'
  BY DEF Inv, TypeOK, GoodSubs, SubType, RotationWhole, UnwatchLeave, readerVars, At, GoTo
<1>3. WriterType'
  BY DEF Inv, TypeOK, WriterType, UnwatchLeave, readerVars, At, GoTo
<1>4. ReaderType'
  BY DEF Inv, TypeOK, ReaderType, UnwatchLeave, readerVars, At, GoTo
<1>5. HistoryType'
  BY GhostCounts DEF Inv, TypeOK, HistoryType, UnwatchLeave, readerVars, At, GoTo
<1> QED BY <1>1, <1>2, <1>3, <1>4, <1>5 DEF Inv, TypeOK, SubType, RotationWhole, GoodSubs

LEMMA UnwatchAnswerInv ==
  ASSUME Inv, NEW s \in Subs, NEW p \in Panes, UnwatchAnswer(s, p)
  PROVE  Inv'
<1>1. HubType'
  BY DEF Inv, TypeOK, HubType, UnwatchAnswer, readerVars, At, GoTo
<1>2. GoodSubs(sub)'
  <2>1. GoodRec([sub[s] EXCEPT !.slots = DropSlot(@, p)]) /\ Left(p) \in Msg
    BY MySub, DropSlotWhole, GoodSlots, Messages
  <2>2. SendTo(s, [sub[s] EXCEPT !.slots = DropSlot(@, p)], Left(p), 0)
    BY DEF UnwatchAnswer, readerVars, At, GoTo
  <2> QED BY <2>1, <2>2, SendToInv
<1>3. WriterType'
  BY DEF Inv, TypeOK, WriterType, UnwatchAnswer, readerVars, At, GoTo
<1>4. ReaderType'
  <2>1. GoodRec([sub[s] EXCEPT !.slots = DropSlot(@, p)]) /\ Left(p) \in Msg
    BY MySub, DropSlotWhole, GoodSlots, Messages
  <2>2. SendTo(s, [sub[s] EXCEPT !.slots = DropSlot(@, p)], Left(p), 0)
    BY DEF UnwatchAnswer, readerVars, At, GoTo
  <2> QED BY <2>1, <2>2, SendToInv DEF Inv, TypeOK, ReaderType, UnwatchAnswer, readerVars, At, GoTo
<1>5. HistoryType'
  <2>1. GoodRec([sub[s] EXCEPT !.slots = DropSlot(@, p)]) /\ Left(p) \in Msg
    BY MySub, DropSlotWhole, GoodSlots, Messages
  <2>2. SendTo(s, [sub[s] EXCEPT !.slots = DropSlot(@, p)], Left(p), 0)
    BY DEF UnwatchAnswer, readerVars, At, GoTo
  <2> QED BY <2>1, <2>2, SendToInv DEF Inv, TypeOK, HistoryType, UnwatchAnswer, readerVars, At, GoTo
<1> QED BY <1>1, <1>2, <1>3, <1>4, <1>5 DEF Inv, TypeOK, SubType, RotationWhole, GoodSubs

LEMMA ResyncInv ==
  ASSUME Inv, NEW s \in Subs, NEW p \in Panes, Resync(s, p)
  PROVE  Inv'
<1>1. HubType'
  BY DEF Inv, TypeOK, HubType, Resync, readerVars, At, GoTo
<1>2. GoodSubs(sub)'
  <2>1. GoodRec(sub[s]) /\ Reply(ghost[s].requests + 1) \in Msg
    BY ReplyIsMessage
  <2>2. SendTo(s, sub[s], Reply(ghost[s].requests + 1), 1)
    BY DEF Resync, readerVars, At, GoTo
  <2> QED BY <2>1, <2>2, SendToInv
<1>3. WriterType'
  BY DEF Inv, TypeOK, WriterType, Resync, readerVars, At, GoTo
<1>4. ReaderType'
  <2>1. GoodRec(sub[s]) /\ Reply(ghost[s].requests + 1) \in Msg
    BY ReplyIsMessage
  <2>2. SendTo(s, sub[s], Reply(ghost[s].requests + 1), 1)
    BY DEF Resync, readerVars, At, GoTo
  <2> QED BY <2>1, <2>2, SendToInv DEF Inv, TypeOK, ReaderType, Resync, readerVars, At, GoTo
<1>5. HistoryType'
  <2>1. GoodRec(sub[s]) /\ Reply(ghost[s].requests + 1) \in Msg
    BY ReplyIsMessage
  <2>2. SendTo(s, sub[s], Reply(ghost[s].requests + 1), 1)
    BY DEF Resync, readerVars, At, GoTo
  <2> QED BY <2>1, <2>2, SendToInv DEF Inv, TypeOK, HistoryType, Resync, readerVars, At, GoTo
<1> QED BY <1>1, <1>2, <1>3, <1>4, <1>5 DEF Inv, TypeOK, SubType, RotationWhole, GoodSubs

LEMMA OfferChangedInv ==
  ASSUME Inv, NEW s \in Subs, NEW p \in Panes, OfferChanged(s, p)
  PROVE  Inv'
<1>1. HubType'
  BY DEF Inv, TypeOK, HubType, OfferChanged, readerVars, At, GoTo
<1>2. GoodSubs(sub)'
  <2>1. CASE ~(Open(sub[s], p) /\ Has(sub[s].slots, p))
    BY <2>1, SubSame DEF OfferChanged
  <2>2. CASE Has(sub[s].slots, p) /\ Open(sub[s], p)
    <3> DEFINE t == OfferRaw(sub[s].slots, p)
               r == [sub[s] EXCEPT !.slots = t, !.wake = TRUE]
    <3>1. WholeTable(t)
      BY <2>2, MySub, OfferRawWhole
    <3>2. GoodRec(r)
      <4> HIDE DEF t
      <4> QED BY <3>1, MySub DEF GoodRec, SubRec, WholeTable
    <3>3. sub' = [sub EXCEPT ![s] = r]
      BY <2>2 DEF OfferChanged
    <3> HIDE DEF r
    <3> QED BY <3>2, <3>3, SubStep
  <2> QED BY <2>1, <2>2
<1>3. WriterType'
  BY DEF Inv, TypeOK, WriterType, OfferChanged, readerVars, At, GoTo
<1>4. ReaderType'
  BY DEF Inv, TypeOK, ReaderType, OfferChanged, readerVars, At, GoTo
<1>5. HistoryType'
  BY DEF Inv, TypeOK, HistoryType, OfferChanged, readerVars, At, GoTo
<1> QED BY <1>1, <1>2, <1>3, <1>4, <1>5 DEF Inv, TypeOK, SubType, RotationWhole, GoodSubs

LEMMA OfferInv ==
  ASSUME Inv, NEW s \in Subs, NEW p \in Panes, NEW lines \in Lines, Offer(s, p, lines)
  PROVE  Inv'
<1>1. HubType'
  BY DEF Inv, TypeOK, HubType, Offer, readerVars, At, GoTo
<1>2. GoodSubs(sub)'
  <2>1. CASE ~(Open(sub[s], p) /\ Has(sub[s].slots, p))
    BY <2>1, SubSame DEF Offer
  <2>2. CASE Has(sub[s].slots, p) /\ Open(sub[s], p)
    <3> DEFINE t == OfferRows(sub[s].slots, p, watcher[s][p] = "key", lines)
               r == [sub[s] EXCEPT !.slots = t, !.wake = TRUE]
    <3>1. WholeTable(t)
      BY <2>2, MySub, OfferRowsWhole
    <3>2. GoodRec(r)
      <4> HIDE DEF t
      <4> QED BY <3>1, MySub DEF GoodRec, SubRec, WholeTable
    <3>3. sub' = [sub EXCEPT ![s] = r]
      BY <2>2 DEF Offer
    <3> HIDE DEF r
    <3> QED BY <3>2, <3>3, SubStep
  <2> QED BY <2>1, <2>2
<1>3. WriterType'
  BY DEF Inv, TypeOK, WriterType, Offer, readerVars, At, GoTo
<1>4. ReaderType'
  BY DEF Inv, TypeOK, ReaderType, Offer, readerVars, At, GoTo
<1>5. HistoryType'
  <2> DEFINE scr == [ghost[s].offered EXCEPT ![p] = Override(lines, @)]
             r == [ghost[s] EXCEPT !.offered = scr]
  <2>1. ghost \in [Subs -> GhostRec] /\ ghost[s] \in GhostRec /\ ghost[s].offered \in Screen
    BY DEF Inv, TypeOK, HistoryType, GhostRec
  <2>2. Override(lines, ghost[s].offered[p]) \in [Rows -> Cells \cup {NoCell}]
    BY <2>1, OverrideScreen DEF Screen
  <2>3. scr \in Screen
    BY <2>1, <2>2 DEF Screen
  <2>4. r \in GhostRec
    <3> HIDE DEF scr
    <3> QED BY <2>1, <2>3 DEF GhostRec
  <2>5. ghost' = [ghost EXCEPT ![s] = r]
    BY DEF Offer
  <2> HIDE DEF r
  <2> QED BY <2>1, <2>4, <2>5, GhostUpdate DEF Inv, TypeOK, HistoryType, Offer, readerVars
<1> QED BY <1>1, <1>2, <1>3, <1>4, <1>5 DEF Inv, TypeOK, SubType, RotationWhole, GoodSubs

LEMMA TakeHeadInv ==
  ASSUME Inv, NEW s \in Subs, TakeHead(s)
  PROVE  Inv'
<1>1. HubType'
  BY DEF Inv, TypeOK, HubType, TakeHead, Hand, takeVars, Taking, Live
<1>2. GoodSubs(sub)'
  <2> DEFINE r == [sub[s] EXCEPT !.head = FALSE]
  <2>8. GoodRec(r)
    BY MySub DEF GoodRec, SubRec
  <2>9. sub' = [sub EXCEPT ![s] = r]
    BY DEF TakeHead, Hand
  <2> HIDE DEF r
  <2> QED BY <2>8, <2>9, SubStep
<1>3. WriterType'
  <2>1. Aggregate \in Msg
    BY Messages
  <2> QED BY <2>1 DEF Inv, TypeOK, WriterType, TakeHead, Hand, takeVars
<1>4. ReaderType'
  BY DEF Inv, TypeOK, ReaderType, TakeHead, Hand, takeVars, Taking, Live
<1>5. HistoryType'
  BY DEF Inv, TypeOK, HistoryType, TakeHead, Hand, takeVars, Taking, Live
<1> QED BY <1>1, <1>2, <1>3, <1>4, <1>5 DEF Inv, TypeOK, SubType, RotationWhole, GoodSubs

LEMMA TakeFinalInv ==
  ASSUME Inv, NEW s \in Subs, TakeFinal(s)
  PROVE  Inv'
<1>1. HubType'
  BY DEF Inv, TypeOK, HubType, TakeFinal, Hand, takeVars, Taking, Live
<1>2. GoodSubs(sub)'
  <2> DEFINE r == [sub[s] EXCEPT !.finals = Tail(@)]
  <2>1. Tail(sub[s].finals) \in Seq(1..NFinals)
    <3>1. sub[s].finals \in Seq(1..NFinals) /\ sub[s].finals # << >>
      BY MySub DEF TakeFinal, GoodRec, SubRec
    <3> QED BY <3>1, FirstAndRest
  <2>8. GoodRec(r)
    BY MySub, <2>1 DEF GoodRec, SubRec
  <2>9. sub' = [sub EXCEPT ![s] = r]
    BY DEF TakeFinal, Hand
  <2> HIDE DEF r
  <2> QED BY <2>8, <2>9, SubStep
<1>3. WriterType'
  <2>1. Final(sub[s].finals[1]) \in Msg
    <3>1. sub[s].finals \in Seq(1..NFinals) /\ sub[s].finals # << >>
      BY MySub DEF TakeFinal, GoodRec, SubRec
    <3>2. sub[s].finals[1] \in 1..NFinals
      BY <3>1, FirstAndRest
    <3>3. sub[s].finals[1] \in Nat
      BY <3>2, BusBounds
    <3> QED BY <3>3, Messages
  <2> QED BY <2>1 DEF Inv, TypeOK, WriterType, TakeFinal, Hand, takeVars
<1>4. ReaderType'
  BY DEF Inv, TypeOK, ReaderType, TakeFinal, Hand, takeVars, Taking, Live
<1>5. HistoryType'
  BY DEF Inv, TypeOK, HistoryType, TakeFinal, Hand, takeVars, Taking, Live
<1> QED BY <1>1, <1>2, <1>3, <1>4, <1>5 DEF Inv, TypeOK, SubType, RotationWhole, GoodSubs

LEMMA TakeFifoInv ==
  ASSUME Inv, NEW s \in Subs, TakeFifo(s)
  PROVE  Inv'
<1>1. HubType'
  BY DEF Inv, TypeOK, HubType, TakeFifo, Hand, takeVars, Taking, Live
<1>2. GoodSubs(sub)'
  <2> DEFINE r == [sub[s] EXCEPT !.fifo = Tail(@), !.bytes = @ - Size(sub[s].fifo[1])]
  <2>1. Tail(sub[s].fifo) \in Seq(Msg)
    BY MySub DEF TakeFifo, GoodRec, SubRec
  <2>2. sub[s].bytes - Size(sub[s].fifo[1]) \in Int
    BY MySub DEF Size, GoodRec, SubRec
  <2>8. GoodRec(r)
    BY MySub, <2>1, <2>2 DEF GoodRec, SubRec
  <2>9. sub' = [sub EXCEPT ![s] = r]
    BY DEF TakeFifo, Hand
  <2> HIDE DEF r
  <2> QED BY <2>8, <2>9, SubStep
<1>3. WriterType'
  <2>1. sub[s].fifo[1] \in Msg
    BY MySub DEF TakeFifo, GoodRec, SubRec
  <2> QED BY <2>1 DEF Inv, TypeOK, WriterType, TakeFifo, Hand, takeVars
<1>4. ReaderType'
  BY DEF Inv, TypeOK, ReaderType, TakeFifo, Hand, takeVars, Taking, Live
<1>5. HistoryType'
  BY DEF Inv, TypeOK, HistoryType, TakeFifo, Hand, takeVars, Taking, Live
<1> QED BY <1>1, <1>2, <1>3, <1>4, <1>5 DEF Inv, TypeOK, SubType, RotationWhole, GoodSubs

LEMMA TakeFrameInv ==
  ASSUME Inv, NEW s \in Subs, TakeFrame(s)
  PROVE  Inv'
<1>1. HubType'
  BY DEF Inv, TypeOK, HubType, TakeFrame, Hand, takeVars, Taking, Live
<1>2. GoodSubs(sub)'
  <2> DEFINE t == TakeSlot(sub[s].slots)
             r == [sub[s] EXCEPT !.slots = t]
  <2>1. WholeTable(t)
    BY MySub, TakeSlotWhole DEF TakeFrame
  <2>2. GoodRec(r)
    <3> HIDE DEF t
    <3> QED BY <2>1, MySub, GoodSlots
  <2>3. sub' = [sub EXCEPT ![s] = r]
    BY DEF TakeFrame, Hand
  <2> HIDE DEF r
  <2> QED BY <2>2, <2>3, SubStep
<1>3. WriterType'
  <2>1. FrameOf(sub[s].slots, Served(sub[s].slots)) \in Msg
    BY MySub, ServedIsPending, FrameOfType DEF TakeFrame, Pending, Msg, FrameMsg
  <2> QED BY <2>1 DEF Inv, TypeOK, WriterType, TakeFrame, Hand, takeVars
<1>4. ReaderType'
  BY DEF Inv, TypeOK, ReaderType, TakeFrame, Hand, takeVars, Taking, Live
<1>5. HistoryType'
  BY DEF Inv, TypeOK, HistoryType, TakeFrame, Hand, takeVars, Taking, Live
<1> QED BY <1>1, <1>2, <1>3, <1>4, <1>5 DEF Inv, TypeOK, SubType, RotationWhole, GoodSubs

LEMMA ParkInv ==
  ASSUME Inv, NEW s \in Subs, Park(s)
  PROVE  Inv'
<1>1. HubType'
  BY DEF Inv, TypeOK, HubType, Park, takeVars
<1>2. GoodSubs(sub)'
  BY DEF Inv, TypeOK, GoodSubs, SubType, RotationWhole, Park, takeVars
<1>3. WriterType'
  BY DEF Inv, TypeOK, WriterType, Park, takeVars
<1>4. ReaderType'
  BY DEF Inv, TypeOK, ReaderType, Park, takeVars
<1>5. HistoryType'
  BY DEF Inv, TypeOK, HistoryType, Park, takeVars
<1> QED BY <1>1, <1>2, <1>3, <1>4, <1>5 DEF Inv, TypeOK, SubType, RotationWhole, GoodSubs

LEMMA WakeInv ==
  ASSUME Inv, NEW s \in Subs, Wake(s)
  PROVE  Inv'
<1>1. HubType'
  BY DEF Inv, TypeOK, HubType, Wake, takeVars
<1>2. GoodSubs(sub)'
  <2> DEFINE r == [sub[s] EXCEPT !.wake = FALSE]
  <2>8. GoodRec(r)
    BY MySub DEF GoodRec, SubRec
  <2>9. sub' = [sub EXCEPT ![s] = r]
    BY DEF Wake
  <2> HIDE DEF r
  <2> QED BY <2>8, <2>9, SubStep
<1>3. WriterType'
  BY DEF Inv, TypeOK, WriterType, Wake, takeVars
<1>4. ReaderType'
  BY DEF Inv, TypeOK, ReaderType, Wake, takeVars
<1>5. HistoryType'
  BY DEF Inv, TypeOK, HistoryType, Wake, takeVars
<1> QED BY <1>1, <1>2, <1>3, <1>4, <1>5 DEF Inv, TypeOK, SubType, RotationWhole, GoodSubs

LEMMA StopInv ==
  ASSUME Inv, NEW s \in Subs, Stop(s)
  PROVE  Inv'
<1>1. HubType'
  BY DEF Inv, TypeOK, HubType, Stop
<1>2. GoodSubs(sub)'
  BY DEF Inv, TypeOK, GoodSubs, SubType, RotationWhole, Stop
<1>3. WriterType'
  BY DEF Inv, TypeOK, WriterType, Stop
<1>4. ReaderType'
  BY DEF Inv, TypeOK, ReaderType, Stop
<1>5. HistoryType'
  BY DEF Inv, TypeOK, HistoryType, Stop
<1> QED BY <1>1, <1>2, <1>3, <1>4, <1>5 DEF Inv, TypeOK, SubType, RotationWhole, GoodSubs

LEMMA ExitInv ==
  ASSUME Inv, NEW s \in Subs, Exit(s)
  PROVE  Inv'
<1>1. HubType'
  BY DEF Inv, TypeOK, HubType, Exit
<1>2. GoodSubs(sub)'
  BY DEF Inv, TypeOK, GoodSubs, SubType, RotationWhole, Exit
<1>3. WriterType'
  BY DEF Inv, TypeOK, WriterType, Exit
<1>4. ReaderType'
  BY DEF Inv, TypeOK, ReaderType, Exit
<1>5. HistoryType'
  BY DEF Inv, TypeOK, HistoryType, Exit
<1> QED BY <1>1, <1>2, <1>3, <1>4, <1>5 DEF Inv, TypeOK, SubType, RotationWhole, GoodSubs

LEMMA WriteOkInv ==
  ASSUME Inv, NEW s \in Subs, WriteOk(s)
  PROVE  Inv'
<1>1. HubType'
  BY DEF Inv, TypeOK, HubType, WriteOk, writeVars
<1>2. GoodSubs(sub)'
  BY DEF Inv, TypeOK, GoodSubs, SubType, RotationWhole, WriteOk, writeVars
<1>3. WriterType'
  BY Messages DEF Inv, TypeOK, WriterType, WriteOk, writeVars
<1>4. ReaderType'
  BY DEF Inv, TypeOK, ReaderType, WriteOk, writeVars
<1>5. HistoryType'
  <2>1. client[s] \in ClientRec /\ cur[s] \in Msg
    BY DEF Inv, TypeOK, HistoryType, WriterType
  <2>2. Received(client[s], cur[s]) \in ClientRec
    BY <2>1, ReceivedType
  <2>3. client' = [client EXCEPT ![s] = Received(client[s], cur[s])] /\ ghost' = ghost
    BY DEF WriteOk
  <2> QED BY <2>2, <2>3 DEF Inv, TypeOK, HistoryType
<1> QED BY <1>1, <1>2, <1>3, <1>4, <1>5 DEF Inv, TypeOK, SubType, RotationWhole, GoodSubs

LEMMA WriteFailInv ==
  ASSUME Inv, NEW s \in Subs, NEW torn \in BOOLEAN, WriteFail(s, torn)
  PROVE  Inv'
<1>1. HubType'
  BY DEF Inv, TypeOK, HubType, WriteFail, writeVars
<1>2. GoodSubs(sub)'
  <2> DEFINE r == [sub[s] EXCEPT !.failed = TRUE, !.torn = @ \/ torn]
  <2>8. GoodRec(r)
    BY MySub DEF GoodRec, SubRec
  <2>9. sub' = [sub EXCEPT ![s] = r]
    BY DEF WriteFail
  <2> HIDE DEF r
  <2> QED BY <2>8, <2>9, SubStep
<1>3. WriterType'
  BY Messages DEF Inv, TypeOK, WriterType, WriteFail, writeVars
<1>4. ReaderType'
  BY DEF Inv, TypeOK, ReaderType, WriteFail, writeVars
<1>5. HistoryType'
  <2> DEFINE c == [client[s] EXCEPT !.torn = @ \/ torn]
  <2>1. c \in ClientRec
    BY DEF Inv, TypeOK, HistoryType, ClientRec
  <2>2. client' = [client EXCEPT ![s] = c] /\ ghost' = ghost
    BY DEF WriteFail
  <2> HIDE DEF c
  <2> QED BY <2>1, <2>2 DEF Inv, TypeOK, HistoryType
<1> QED BY <1>1, <1>2, <1>3, <1>4, <1>5 DEF Inv, TypeOK, SubType, RotationWhole, GoodSubs

LEMMA ReapInv ==
  ASSUME Inv, NEW s \in Subs, Reap(s)
  PROVE  Inv'
<1>1. HubType'
  BY DEF Inv, TypeOK, HubType, Reap
<1>2. GoodSubs(sub)'
  <2> DEFINE r == [sub[s] EXCEPT !.wake = TRUE]
  <2>8. GoodRec(r)
    BY MySub DEF GoodRec, SubRec
  <2>9. sub' = [sub EXCEPT ![s] = r] \/ sub' = sub
    BY DEF Reap
  <2> HIDE DEF r
  <2> QED BY <2>8, <2>9, SubStep, SubSame
<1>3. WriterType'
  BY DEF Inv, TypeOK, WriterType, Reap
<1>4. ReaderType'
  BY DEF Inv, TypeOK, ReaderType, Reap
<1>5. HistoryType'
  BY DEF Inv, TypeOK, HistoryType, Reap
<1> QED BY <1>1, <1>2, <1>3, <1>4, <1>5 DEF Inv, TypeOK, SubType, RotationWhole, GoodSubs

LEMMA DropWatchesInv ==
  ASSUME Inv, NEW s \in Subs, DropWatches(s)
  PROVE  Inv'
<1>1. HubType'
  BY DEF Inv, TypeOK, HubType, DropWatches
<1>2. GoodSubs(sub)'
  BY DEF Inv, TypeOK, GoodSubs, SubType, RotationWhole, DropWatches
<1>3. WriterType'
  BY DEF Inv, TypeOK, WriterType, DropWatches
<1>4. ReaderType'
  BY DEF Inv, TypeOK, ReaderType, DropWatches
<1>5. HistoryType'
  BY DEF Inv, TypeOK, HistoryType, DropWatches
<1> QED BY <1>1, <1>2, <1>3, <1>4, <1>5 DEF Inv, TypeOK, SubType, RotationWhole, GoodSubs

LEMMA PublishEventInv ==
  ASSUME Inv, NEW a \in Actors, PublishEvent(a)
  PROVE  Inv'
<1>1. HubType'
  <2>1. [pc |-> "loop", msg |-> Event(published + 1), todo |-> subs, over |-> {}] \in PubRec
    BY Messages DEF Inv, TypeOK, HubType, ReaderType, PubRec
  <2> QED BY <2>1, PubStep DEF Inv, TypeOK, HubType, PublishEvent, PublishBegin
<1>2. GoodSubs(sub)'
  BY DEF Inv, TypeOK, GoodSubs, SubType, RotationWhole, PublishEvent, PublishBegin
<1>3. WriterType'
  BY DEF Inv, TypeOK, WriterType, PublishEvent, PublishBegin
<1>4. ReaderType'
  BY DEF Inv, TypeOK, ReaderType, PublishEvent, PublishBegin
<1>5. HistoryType'
  BY DEF Inv, TypeOK, HistoryType, PublishEvent, PublishBegin
<1> QED BY <1>1, <1>2, <1>3, <1>4, <1>5 DEF Inv, TypeOK, SubType, RotationWhole, GoodSubs

LEMMA PublishUnlockInv ==
  ASSUME Inv, NEW a \in Actors, PublishUnlock(a)
  PROVE  Inv'
<1>1. HubType'
  <2> DEFINE r == [pub[a] EXCEPT !.pc = IF pub[a].over = {} THEN "idle" ELSE "kill"]
  <2>1. r \in PubRec
    BY DEF Inv, TypeOK, HubType, PubRec
  <2>2. pub' = [pub EXCEPT ![a] = r]
    BY DEF PublishUnlock
  <2> HIDE DEF r
  <2> QED BY <2>1, <2>2, PubStep DEF Inv, TypeOK, HubType, PublishUnlock
<1>2. GoodSubs(sub)'
  BY DEF Inv, TypeOK, GoodSubs, SubType, RotationWhole, PublishUnlock
<1>3. WriterType'
  BY DEF Inv, TypeOK, WriterType, PublishUnlock
<1>4. ReaderType'
  BY DEF Inv, TypeOK, ReaderType, PublishUnlock
<1>5. HistoryType'
  BY DEF Inv, TypeOK, HistoryType, PublishUnlock
<1> QED BY <1>1, <1>2, <1>3, <1>4, <1>5 DEF Inv, TypeOK, SubType, RotationWhole, GoodSubs

LEMMA PublishToInv ==
  ASSUME Inv, NEW a \in Actors, NEW s \in Subs, PublishTo(a, s)
  PROVE  Inv'
<1>1. HubType'
  <2> DEFINE r == [pub[a] EXCEPT !.todo = @ \ {s},
                           !.over = IF Overflows(sub[s], pub[a].msg) THEN @ \cup {s} ELSE @]
  <2>1. r \in PubRec
    BY DEF Inv, TypeOK, HubType, PubRec
  <2>2. pub' = [pub EXCEPT ![a] = r]
    BY DEF PublishTo
  <2> HIDE DEF r
  <2> QED BY <2>1, <2>2, PubStep DEF Inv, TypeOK, HubType, PublishTo
<1>2. GoodSubs(sub)'
  <2>1. pub[a].msg \in Msg
    BY DEF Inv, TypeOK, HubType, PubRec
  <2>2. GoodRec(Queued(sub[s], pub[a].msg))
    BY <2>1, MySub, GoodQueued
  <2>3. sub' = [sub EXCEPT ![s] = Queued(sub[s], pub[a].msg)]
    BY DEF PublishTo
  <2> QED BY <2>2, <2>3, SubStep
<1>3. WriterType'
  BY DEF Inv, TypeOK, WriterType, PublishTo
<1>4. ReaderType'
  BY DEF Inv, TypeOK, ReaderType, PublishTo
<1>5. HistoryType'
  <2>1. pub[a].msg \in Msg
    BY DEF Inv, TypeOK, HubType, PubRec
  <2> QED BY <2>1, AcceptedType DEF Inv, TypeOK, HistoryType, PublishTo
<1> QED BY <1>1, <1>2, <1>3, <1>4, <1>5 DEF Inv, TypeOK, SubType, RotationWhole, GoodSubs

LEMMA PublishKillInv ==
  ASSUME Inv, NEW a \in Actors, NEW s \in Subs, PublishKill(a, s)
  PROVE  Inv'
<1>1. HubType'
  <2> DEFINE r == [pub[a] EXCEPT !.over = @ \ {s},
                           !.pc = IF pub[a].over = {s} THEN "idle" ELSE "kill"]
  <2>1. r \in PubRec
    BY DEF Inv, TypeOK, HubType, PubRec
  <2>2. pub' = [pub EXCEPT ![a] = r]
    BY DEF PublishKill
  <2> HIDE DEF r
  <2> QED BY <2>1, <2>2, PubStep DEF Inv, TypeOK, HubType, PublishKill
<1>2. GoodSubs(sub)'
  <2>1. KillMark(s, sub)
    BY DEF PublishKill
  <2> QED BY <2>1, InvSubs, KillMarkInv
<1>3. WriterType'
  BY DEF Inv, TypeOK, WriterType, PublishKill
<1>4. ReaderType'
  <2>1. KillMark(s, sub) /\ DropSoon(s)
    BY DEF PublishKill
  <2> QED BY <2>1, InvSubs, KillMarkInv, DropSoonType DEF Inv, TypeOK, ReaderType, PublishKill
<1>5. HistoryType'
  BY CutShortType DEF Inv, TypeOK, HistoryType, PublishKill
<1> QED BY <1>1, <1>2, <1>3, <1>4, <1>5 DEF Inv, TypeOK, SubType, RotationWhole, GoodSubs

LEMMA ClosePaneInv ==
  ASSUME Inv, NEW p \in Panes, ClosePane(p)
  PROVE  Inv'
<1>1. HubType'
  BY DEF Inv, TypeOK, HubType, ClosePane, closeVars, PaneTo
<1>2. GoodSubs(sub)'
  BY DEF Inv, TypeOK, GoodSubs, SubType, RotationWhole, ClosePane, closeVars, PaneTo
<1>3. WriterType'
  BY DEF Inv, TypeOK, WriterType, ClosePane, closeVars, PaneTo
<1>4. ReaderType'
  BY DEF Inv, TypeOK, ReaderType, ClosePane, closeVars, PaneTo
<1>5. HistoryType'
  BY DEF Inv, TypeOK, HistoryType, ClosePane, closeVars, PaneTo
<1> QED BY <1>1, <1>2, <1>3, <1>4, <1>5 DEF Inv, TypeOK, SubType, RotationWhole, GoodSubs

LEMMA PaneClosedInv ==
  ASSUME Inv, NEW p \in Panes, PaneClosed(p)
  PROVE  Inv'
<1>1. HubType'
  BY DEF Inv, TypeOK, HubType, PaneClosed, closeVars, PaneTo
<1>2. GoodSubs(sub)'
  BY DEF Inv, TypeOK, GoodSubs, SubType, RotationWhole, PaneClosed, closeVars, PaneTo
<1>3. WriterType'
  BY DEF Inv, TypeOK, WriterType, PaneClosed, closeVars, PaneTo
<1>4. ReaderType'
  BY DEF Inv, TypeOK, HubType, ReaderType, PaneClosed, closeVars, PaneTo, ToRefuse
<1>5. HistoryType'
  BY DEF Inv, TypeOK, HistoryType, PaneClosed, closeVars, PaneTo
<1> QED BY <1>1, <1>2, <1>3, <1>4, <1>5 DEF Inv, TypeOK, SubType, RotationWhole, GoodSubs

LEMMA FramerStopInv ==
  ASSUME Inv, NEW p \in Panes, FramerStop(p)
  PROVE  Inv'
<1>1. HubType'
  BY DEF Inv, TypeOK, HubType, FramerStop, closeVars, PaneTo
<1>2. GoodSubs(sub)'
  BY DEF Inv, TypeOK, GoodSubs, SubType, RotationWhole, FramerStop, closeVars, PaneTo
<1>3. WriterType'
  BY DEF Inv, TypeOK, WriterType, FramerStop, closeVars, PaneTo
<1>4. ReaderType'
  BY DEF Inv, TypeOK, ReaderType, FramerStop, closeVars, PaneTo
<1>5. HistoryType'
  BY DEF Inv, TypeOK, HistoryType, FramerStop, closeVars, PaneTo
<1> QED BY <1>1, <1>2, <1>3, <1>4, <1>5 DEF Inv, TypeOK, SubType, RotationWhole, GoodSubs

LEMMA AnnounceClosedInv ==
  ASSUME Inv, NEW p \in Panes, AnnounceClosed(p)
  PROVE  Inv'
<1>1. HubType'
  <2>1. [pc |-> "loop", msg |-> ClosedEv(p), todo |-> subs, over |-> {}] \in PubRec
    BY Messages DEF Inv, TypeOK, HubType, PubRec
  <2> QED BY <2>1, PubStep DEF Inv, TypeOK, HubType, AnnounceClosed, PublishBegin
<1>2. GoodSubs(sub)'
  BY DEF Inv, TypeOK, GoodSubs, SubType, RotationWhole, AnnounceClosed, PaneTo, PublishBegin
<1>3. WriterType'
  BY DEF Inv, TypeOK, WriterType, AnnounceClosed, PaneTo, PublishBegin
<1>4. ReaderType'
  BY DEF Inv, TypeOK, ReaderType, AnnounceClosed, PaneTo, PublishBegin
<1>5. HistoryType'
  BY DEF Inv, TypeOK, HistoryType, AnnounceClosed, PaneTo, PublishBegin
<1> QED BY <1>1, <1>2, <1>3, <1>4, <1>5 DEF Inv, TypeOK, SubType, RotationWhole, GoodSubs

LEMMA PaneClosedToInv ==
  ASSUME Inv, NEW p \in Panes, NEW s \in Subs, PaneClosedTo(p, s)
  PROVE  Inv'
<1>1. HubType'
  BY DEF Inv, TypeOK, HubType, PaneClosedTo, closeVars, PaneTo
<1>2. GoodSubs(sub)'
  <2> DEFINE t == DropSlot(sub[s].slots, p)
             r == [sub[s] EXCEPT !.closedPanes = @ \cup {p}, !.slots = t]
  <2>1. WholeTable(t)
    BY MySub, DropSlotWhole
  <2>2. GoodRec(r)
    <3> HIDE DEF t
    <3> QED BY <2>1, MySub DEF GoodRec, SubRec, WholeTable
  <2>3. sub' = [sub EXCEPT ![s] = r]
    BY DEF PaneClosedTo, ForgetPane
  <2> HIDE DEF r
  <2> QED BY <2>2, <2>3, SubStep
<1>3. WriterType'
  BY DEF Inv, TypeOK, WriterType, PaneClosedTo, closeVars, PaneTo
<1>4. ReaderType'
  BY DEF Inv, TypeOK, ReaderType, PaneClosedTo, closeVars, PaneTo
<1>5. HistoryType'
  BY DEF Inv, TypeOK, HistoryType, PaneClosedTo, closeVars, PaneTo
<1> QED BY <1>1, <1>2, <1>3, <1>4, <1>5 DEF Inv, TypeOK, SubType, RotationWhole, GoodSubs

LEMMA FinalizeBeginInv ==
  ASSUME Inv, FinalizeBegin
  PROVE  Inv'
<1>1. HubType'
  BY DEF Inv, TypeOK, HubType, FinalizeBegin, finVars
<1>2. GoodSubs(sub)'
  BY DEF Inv, TypeOK, GoodSubs, SubType, RotationWhole, FinalizeBegin, finVars
<1>3. WriterType'
  BY DEF Inv, TypeOK, WriterType, FinalizeBegin, finVars
<1>4. ReaderType'
  BY DEF Inv, TypeOK, ReaderType, FinalizeBegin, finVars
<1>5. HistoryType'
  BY DEF Inv, TypeOK, HistoryType, FinalizeBegin, finVars
<1> QED BY <1>1, <1>2, <1>3, <1>4, <1>5 DEF Inv, TypeOK, SubType, RotationWhole, GoodSubs

LEMMA FinalizeAwaitInv ==
  ASSUME Inv, FinalizeAwait
  PROVE  Inv'
<1>1. HubType'
  BY DEF Inv, TypeOK, HubType, FinalizeAwait, finVars
<1>2. GoodSubs(sub)'
  BY DEF Inv, TypeOK, GoodSubs, SubType, RotationWhole, FinalizeAwait, finVars
<1>3. WriterType'
  BY DEF Inv, TypeOK, WriterType, FinalizeAwait, finVars
<1>4. ReaderType'
  BY DEF Inv, TypeOK, ReaderType, FinalizeAwait, finVars
<1>5. HistoryType'
  BY DEF Inv, TypeOK, HistoryType, FinalizeAwait, finVars
<1> QED BY <1>1, <1>2, <1>3, <1>4, <1>5 DEF Inv, TypeOK, SubType, RotationWhole, GoodSubs

LEMMA FinalizeCutInv ==
  ASSUME Inv, FinalizeCut
  PROVE  Inv'
<1>1. HubType'
  BY DEF Inv, TypeOK, HubType, FinalizeCut, finVars
<1>2. GoodSubs(sub)'
  BY DEF Inv, TypeOK, GoodSubs, SubType, RotationWhole, FinalizeCut, finVars
<1>3. WriterType'
  BY DEF Inv, TypeOK, WriterType, FinalizeCut, finVars
<1>4. ReaderType'
  BY DEF Inv, TypeOK, ReaderType, FinalizeCut, finVars
<1>5. HistoryType'
  BY DEF Inv, TypeOK, HistoryType, FinalizeCut, finVars
<1> QED BY <1>1, <1>2, <1>3, <1>4, <1>5 DEF Inv, TypeOK, SubType, RotationWhole, GoodSubs

LEMMA FinalizeReturnInv ==
  ASSUME Inv, FinalizeReturn
  PROVE  Inv'
<1>1. HubType'
  BY DEF Inv, TypeOK, HubType, FinalizeReturn, finVars
<1>2. GoodSubs(sub)'
  BY DEF Inv, TypeOK, GoodSubs, SubType, RotationWhole, FinalizeReturn, finVars
<1>3. WriterType'
  BY DEF Inv, TypeOK, WriterType, FinalizeReturn, finVars
<1>4. ReaderType'
  BY DEF Inv, TypeOK, ReaderType, FinalizeReturn, finVars
<1>5. HistoryType'
  BY DEF Inv, TypeOK, HistoryType, FinalizeReturn, finVars
<1> QED BY <1>1, <1>2, <1>3, <1>4, <1>5 DEF Inv, TypeOK, SubType, RotationWhole, GoodSubs

LEMMA FinalizeSubInv ==
  ASSUME Inv, NEW s \in Subs, FinalizeSub(s)
  PROVE  Inv'
<1>1. HubType'
  BY DEF Inv, TypeOK, HubType, FinalizeSub, finVars
<1>2. GoodSubs(sub)'
  BY MySub, GoodFinalized, SubStep DEF FinalizeSub
<1>3. WriterType'
  BY DEF Inv, TypeOK, WriterType, FinalizeSub, finVars
<1>4. ReaderType'
  BY DEF Inv, TypeOK, ReaderType, FinalizeSub, finVars
<1>5. HistoryType'
  BY DEF Inv, TypeOK, HistoryType, FinalizeSub, finVars
<1> QED BY <1>1, <1>2, <1>3, <1>4, <1>5 DEF Inv, TypeOK, SubType, RotationWhole, GoodSubs

LEMMA FinalizeKillInv ==
  ASSUME Inv, NEW s \in Subs, FinalizeKill(s)
  PROVE  Inv'
<1>1. HubType'
  BY DEF Inv, TypeOK, HubType, FinalizeKill, finVars
<1>2. GoodSubs(sub)'
  <2>1. KillMark(s, sub)
    BY DEF FinalizeKill
  <2> QED BY <2>1, InvSubs, KillMarkInv
<1>3. WriterType'
  BY DEF Inv, TypeOK, WriterType, FinalizeKill, finVars
<1>4. ReaderType'
  <2>1. KillMark(s, sub) /\ DropSoon(s)
    BY DEF FinalizeKill
  <2> QED BY <2>1, InvSubs, KillMarkInv, DropSoonType DEF Inv, TypeOK, ReaderType, FinalizeKill, finVars
<1>5. HistoryType'
  BY CutShortType DEF Inv, TypeOK, HistoryType, FinalizeKill, finVars
<1> QED BY <1>1, <1>2, <1>3, <1>4, <1>5 DEF Inv, TypeOK, SubType, RotationWhole, GoodSubs

LEMMA NextInv == Inv /\ [Next]_vars => Inv'
<1> SUFFICES ASSUME Inv, [Next]_vars PROVE Inv'
  OBVIOUS
<1>1. ASSUME NEW s \in Subs, Session(s) PROVE Inv'
  BY <1>1, SessionInv
<1>2. ASSUME NEW s \in Subs, Start(s) PROVE Inv'
  BY <1>2, StartInv
<1>3. ASSUME NEW s \in Subs, Send(s) PROVE Inv'
  BY <1>3, SendInv
<1>4. ASSUME NEW s \in Subs, Close(s) PROVE Inv'
  BY <1>4, CloseInv
<1>5. ASSUME NEW s \in Subs, NEW p \in Panes, WatchAddSlot(s, p) PROVE Inv'
  BY <1>5, WatchAddSlotInv
<1>6. ASSUME NEW s \in Subs, NEW p \in Panes, WatchResolve(s, p) PROVE Inv'
  BY <1>6, WatchResolveInv
<1>7. ASSUME NEW s \in Subs, NEW p \in Panes, WatchAdd(s, p) PROVE Inv'
  BY <1>7, WatchAddInv
<1>8. ASSUME NEW s \in Subs, NEW p \in Panes, WatchAnswer(s, p) PROVE Inv'
  BY <1>8, WatchAnswerInv
<1>9. ASSUME NEW s \in Subs, NEW p \in Panes, UnwatchLeave(s, p) PROVE Inv'
  BY <1>9, UnwatchLeaveInv
<1>10. ASSUME NEW s \in Subs, NEW p \in Panes, UnwatchAnswer(s, p) PROVE Inv'
  BY <1>10, UnwatchAnswerInv
<1>11. ASSUME NEW s \in Subs, NEW p \in Panes, Resync(s, p) PROVE Inv'
  BY <1>11, ResyncInv
<1>12. ASSUME NEW s \in Subs, NEW p \in Panes, OfferChanged(s, p) PROVE Inv'
  BY <1>12, OfferChangedInv
<1>13. ASSUME NEW s \in Subs, NEW p \in Panes, NEW lines \in Lines, Offer(s, p, lines) PROVE Inv'
  BY <1>13, OfferInv
<1>14. ASSUME NEW s \in Subs, TakeHead(s) PROVE Inv'
  BY <1>14, TakeHeadInv
<1>15. ASSUME NEW s \in Subs, TakeFinal(s) PROVE Inv'
  BY <1>15, TakeFinalInv
<1>16. ASSUME NEW s \in Subs, TakeFifo(s) PROVE Inv'
  BY <1>16, TakeFifoInv
<1>17. ASSUME NEW s \in Subs, TakeFrame(s) PROVE Inv'
  BY <1>17, TakeFrameInv
<1>18. ASSUME NEW s \in Subs, Park(s) PROVE Inv'
  BY <1>18, ParkInv
<1>19. ASSUME NEW s \in Subs, Wake(s) PROVE Inv'
  BY <1>19, WakeInv
<1>20. ASSUME NEW s \in Subs, Stop(s) PROVE Inv'
  BY <1>20, StopInv
<1>21. ASSUME NEW s \in Subs, Exit(s) PROVE Inv'
  BY <1>21, ExitInv
<1>22. ASSUME NEW s \in Subs, WriteOk(s) PROVE Inv'
  BY <1>22, WriteOkInv
<1>23. ASSUME NEW s \in Subs, NEW torn \in BOOLEAN, WriteFail(s, torn) PROVE Inv'
  BY <1>23, WriteFailInv
<1>24. ASSUME NEW s \in Subs, Reap(s) PROVE Inv'
  BY <1>24, ReapInv
<1>25. ASSUME NEW s \in Subs, DropWatches(s) PROVE Inv'
  BY <1>25, DropWatchesInv
<1>26. ASSUME NEW a \in Actors, PublishEvent(a) PROVE Inv'
  BY <1>26, PublishEventInv
<1>27. ASSUME NEW a \in Actors, PublishUnlock(a) PROVE Inv'
  BY <1>27, PublishUnlockInv
<1>28. ASSUME NEW a \in Actors, NEW s \in Subs, PublishTo(a, s) PROVE Inv'
  BY <1>28, PublishToInv
<1>29. ASSUME NEW a \in Actors, NEW s \in Subs, PublishKill(a, s) PROVE Inv'
  BY <1>29, PublishKillInv
<1>30. ASSUME NEW p \in Panes, ClosePane(p) PROVE Inv'
  BY <1>30, ClosePaneInv
<1>31. ASSUME NEW p \in Panes, PaneClosed(p) PROVE Inv'
  BY <1>31, PaneClosedInv
<1>32. ASSUME NEW p \in Panes, FramerStop(p) PROVE Inv'
  BY <1>32, FramerStopInv
<1>33. ASSUME NEW p \in Panes, AnnounceClosed(p) PROVE Inv'
  BY <1>33, AnnounceClosedInv
<1>34. ASSUME NEW p \in Panes, NEW s \in Subs, PaneClosedTo(p, s) PROVE Inv'
  BY <1>34, PaneClosedToInv
<1>35. CASE FinalizeBegin
  BY <1>35, FinalizeBeginInv
<1>36. CASE FinalizeAwait
  BY <1>36, FinalizeAwaitInv
<1>37. CASE FinalizeCut
  BY <1>37, FinalizeCutInv
<1>38. CASE FinalizeReturn
  BY <1>38, FinalizeReturnInv
<1>39. ASSUME NEW s \in Subs, FinalizeSub(s) PROVE Inv'
  BY <1>39, FinalizeSubInv
<1>40. ASSUME NEW s \in Subs, FinalizeKill(s) PROVE Inv'
  BY <1>40, FinalizeKillInv
<1>41. CASE UNCHANGED vars
  BY <1>41 DEF vars, Inv, TypeOK, HubType, SubType, WriterType, ReaderType, HistoryType,
               RotationWhole
<1> QED
  BY <1>1, <1>2, <1>3, <1>4, <1>5, <1>6, <1>7, <1>8, <1>9, <1>10, <1>11, <1>12, <1>13, <1>14,
     <1>15, <1>16, <1>17, <1>18, <1>19, <1>20, <1>21, <1>22, <1>23, <1>24, <1>25, <1>26, <1>27, <1>28,
     <1>29, <1>30, <1>31, <1>32, <1>33, <1>34, <1>35, <1>36, <1>37, <1>38, <1>39, <1>40, <1>41
  DEF Next, Watch, Writer, Write, Killing, Publishing, Closing, Finalizing

\* Every variable of the bus keeps its type, for every set of subscribers,
\* publishers, panes and rows and every limit (the fields of Hub and Sub).
THEOREM TypeCorrect == Spec => []TypeOK
<1>1. Inv => TypeOK
  BY DEF Inv
<1> QED BY <1>1, InitInv, NextInv, PTL DEF Spec

\* The rotation of every subscriber's slots is whole in every reachable state:
\* addSlot, dropSlotLocked, takeSlotLocked and finalize keep it between them,
\* so no pending frame is out of takeSlotLocked's reach.
THEOREM RotationsStayWhole == Spec => []RotationWhole
<1>1. Inv => RotationWhole
  BY DEF Inv
<1> QED BY <1>1, InitInv, NextInv, PTL DEF Spec

QueueKinds == {"event", "pane_closed", "reply", "watching", "refused", "left"}

-----------------------------------------------------------------------------
(* What the writer has put on the wire.                                    *)

\* The finals not handed to the writer are the last ones, in order.
FinalsLeft(r) ==
    /\ Len(r.finals) <= NFinals
    /\ \A i \in 1..Len(r.finals) : r.finals[i] = NFinals - Len(r.finals) + i

\* How many finals are on the wire, once s is finalized.
OnWire(s) == NFinals - Len(sub[s].finals) - (IF cur[s].kind = "final" THEN 1 ELSE 0)

\* The stream w begins with the aggregate and ends with the first k finals.
Closes(w, k) ==
    /\ Len(w) > k /\ w[1] = Aggregate
    /\ \A i \in 1..k : w[Len(w) - k + i] = Final(i)

\* Where the writer stands, and the message in its hands.
Hands(s) ==
    /\ sub[s].started <=> wpc[s] # "none"
    /\ adp[s].pc = "none" => wpc[s] = "none"
    /\ IF wpc[s] = "write" THEN cur[s].kind # "none" ELSE cur[s] = NoMsg
    /\ \A i \in 1..Len(sub[s].fifo) : sub[s].fifo[i].kind \in QueueKinds

\* What is on the wire, and what of the stream is still to come.
Wire(s) ==
    /\ FinalsLeft(sub[s])
    /\ sub[s].head \/ ~sub[s].started => client[s].wire = << >> /\ cur[s] = NoMsg
    /\ sub[s].finalized /\ (sub[s].head \/ ~sub[s].started) => Len(sub[s].finals) = NFinals
    /\ cur[s].kind = "final" =>
          /\ sub[s].finalized /\ Len(sub[s].finals) < NFinals
          /\ cur[s] = Final(NFinals - Len(sub[s].finals))
    /\ sub[s].finalized /\ Len(sub[s].finals) < NFinals => cur[s].kind \in {"none", "final"}
    /\ sub[s].started /\ ~sub[s].head /\ ~sub[s].failed =>
          \/ /\ cur[s] = Aggregate /\ client[s].wire = << >>
             /\ sub[s].finalized => Len(sub[s].finals) = NFinals
          \/ /\ cur[s].kind # "head"
             /\ Closes(client[s].wire, IF sub[s].finalized THEN OnWire(s) ELSE 0)

\* Why a writer has stopped, and what a kill leaves.
Stops(s) ==
    /\ sub[s].torn => sub[s].failed
    /\ sub[s].dead => ghost[s].cutShort \/ done[s]
    /\ s \in reap => sub[s].dead
    /\ done[s] => wpc[s] = "ended" \/ ghost[s].cutShort
    /\ wpc[s] \in {"stopped", "ended"} =>
          \/ sub[s].closed \/ sub[s].failed \/ ghost[s].cutShort
          \/ sub[s].finalized /\ sub[s].finals = << >> /\ ~sub[s].head

\* Finalize's hold on whoever is on the bus.
Held ==
    hubFinalized => \A s \in subs :
        s \in fin.snap /\ (s \in fin.todo \/ sub[s].finalized \/ sub[s].dead)

\* A Publish in its loop carries an event, or its own pane's close; one that has come
\* to its kills has nobody left to reach.
InPublish ==
    \A a \in Actors :
        /\ pub[a].pc = "loop" => \/ a \in Publishers /\ pub[a].msg.kind = "event"
                                 \/ a \in Panes /\ pub[a].msg = ClosedEv(a)
        /\ pub[a].pc = "kill" => pub[a].todo = {}

OnStream(s) == Hands(s) /\ Wire(s) /\ Stops(s)

Streams == CutHasNoGap /\ Held /\ InPublish /\ \A s \in Subs : OnStream(s)

-----------------------------------------------------------------------------
(* What becomes of a pane that closes.                                     *)

\* s's reader has looked p up and has not answered the watch yet.
Making(s, p) == adp[s].pc \in {"add", "answer"} /\ adp[s].pane = p

\* No picture of p can reach s any more.
Clean(s, p) ==
    \/ p \in sub[s].closedPanes
    \/ /\ watcher[s][p] = "none" /\ ~Making(s, p)
       /\ Has(sub[s].slots, p) => ~sub[s].slots.at[p].full

Read(s, p) == \E i \in 1..Len(client[s].wire) : client[s].wire[i] = ClosedEv(p)

\* s has been told that p is closed, or is about to be.
Hears(s, p) ==
    \/ Read(s, p)
    \/ cur[s] = ClosedEv(p)
    \/ \E i \in 1..Len(sub[s].fifo) : sub[s].fifo[i] = ClosedEv(p)
    \/ pub[p].pc = "loop" /\ s \in pub[p].todo

\* ClosePane is done with s.
Past(s, p) == \/ pane[p].pc \in {"stopped", "gone"}
              \/ pane[p].pc = "telling" /\ s \notin pane[p].todo

Closed(s, p) ==
    /\ p \in sub[s].closedPanes => ~Has(sub[s].slots, p)
    /\ adp[s].pc = "none" => ~Has(sub[s].slots, p) /\ watcher[s][p] = "none"
    /\ s \in subs /\ Past(s, p) => Clean(s, p)
    /\ Hears(s, p) => pane[p].pc = "gone" /\ Clean(s, p)
    /\ Read(s, p) => ~(Picture(cur[s]) /\ cur[s].pane = p)

-----------------------------------------------------------------------------
(* What the peer is told before a frame.                                   *)

Untells(m, p) == m.kind \in {"left", "refused"} /\ m.pane = p

\* Once the writer has come to the end of the queue, the peer knows that it watches p.
WillBeTold(s, p) ==
    \/ \E i \in 1..Len(sub[s].fifo) :
          /\ sub[s].fifo[i] = Watching(p)
          /\ \A j \in (i + 1)..Len(sub[s].fifo) : ~Untells(sub[s].fifo[j], p)
    \/ /\ \A j \in 1..Len(sub[s].fifo) : ~Untells(sub[s].fifo[j], p)
       /\ ~Untells(cur[s], p)
       /\ cur[s] = Watching(p) \/ p \in client[s].told

Lives(r) == ~r.finalized /\ ~r.dead /\ ~r.failed

ToldFirst(s, p) ==
    /\ adp[s].pc # "gone" => ~sub[s].closed
    /\ s \notin Silent =>
        /\ Picture(cur[s]) /\ cur[s].pane = p => p \in client[s].told
        /\ Has(sub[s].slots, p) /\ sub[s].slots.at[p].active /\ Lives(sub[s]) => WillBeTold(s, p)

Frames == \A s \in Subs, p \in Panes : Closed(s, p) /\ ToldFirst(s, p)

IInv == Inv /\ Streams /\ Frames

-----------------------------------------------------------------------------
(* A step that leaves t's stream where it is: nothing but its queue and    *)
(* its slots changes, and it may be closed or killed.                      *)
Core(r, q) ==
    /\ q.started = r.started /\ q.head = r.head /\ q.finals = r.finals
    /\ q.finalized = r.finalized /\ q.failed = r.failed /\ q.torn = r.torn
    /\ r.closed => q.closed
    /\ r.dead => q.dead

Kinds(r) == \A i \in 1..Len(r.fifo) : r.fifo[i].kind \in QueueKinds

Steady(t) ==
    /\ Core(sub[t], sub'[t]) /\ Kinds(sub'[t])
    /\ wpc'[t] = wpc[t] \/ {wpc[t], wpc'[t]} \subseteq {"take", "wait"}
    /\ cur'[t] = cur[t] /\ client'[t].wire = client[t].wire /\ done'[t] = done[t]
    /\ adp'[t].pc = "none" => adp[t].pc = "none"
    /\ ghost'[t].since = ghost[t].since /\ ghost[t].accepted \subseteq ghost'[t].accepted
    /\ ghost[t].cutShort => ghost'[t].cutShort
    /\ sub'[t].dead /\ ~sub[t].dead => ghost'[t].cutShort \/ done[t]
    /\ t \in reap' => sub'[t].dead

LEMMA SteadyStream ==
  ASSUME Inv, NEW t \in Subs, OnStream(t), Steady(t)
  PROVE  OnStream(t)'
<1>1. Hands(t)'
  BY DEF OnStream, Hands, Steady, Core, Kinds
<1>2. OnWire(t)' = OnWire(t)
  BY DEF OnWire, Steady, Core
<1>3. Wire(t)'
  BY <1>2 DEF OnStream, Wire, Steady, Core, FinalsLeft
<1>4. Stops(t)'
  BY DEF OnStream, Stops, Steady, Core
<1> QED BY <1>1, <1>3, <1>4 DEF OnStream

\* The cut keeps: nobody is added to the bus, no event is published, and whoever
\* publishes one is where it was.
LEMMA SteadyCut ==
  ASSUME CutHasNoGap, subs \subseteq Subs, subs' \subseteq subs, published' = published,
         \A a \in Publishers : pub'[a] = pub[a],
         \A t \in Subs : Steady(t)
  PROVE  CutHasNoGap'
<1> SUFFICES ASSUME NEW t \in subs', NEW i \in (ghost'[t].since + 1)..published', Accepts(sub'[t]),
                    Event(i) \notin ghost'[t].accepted
             PROVE  \E a \in Publishers : /\ pub'[a].msg = Event(i) /\ pub'[a].pc # "idle"
                                          /\ t \in pub'[a].todo \cup pub'[a].over
  BY DEF CutHasNoGap
<1>1. t \in subs /\ t \in Subs
  OBVIOUS
<1>2. Accepts(sub[t]) /\ Event(i) \notin ghost[t].accepted /\ i \in (ghost[t].since + 1)..published
  BY <1>1 DEF Steady, Core, Accepts
<1> QED BY <1>1, <1>2 DEF CutHasNoGap

LEMMA SteadyHeld ==
  ASSUME Held, subs \subseteq Subs, subs' \subseteq subs, hubFinalized' = hubFinalized,
         fin'.snap = fin.snap,
         \A t \in fin.todo : t \in Subs => t \in fin'.todo \/ sub'[t].finalized \/ sub'[t].dead,
         \A t \in Subs : /\ sub[t].finalized => sub'[t].finalized
                         /\ sub[t].dead => sub'[t].dead
  PROVE  Held'
<1> SUFFICES ASSUME hubFinalized', NEW t \in subs'
             PROVE  t \in fin'.snap /\ (t \in fin'.todo \/ sub'[t].finalized \/ sub'[t].dead)
  BY DEF Held
<1>1. t \in subs /\ t \in Subs /\ hubFinalized
  OBVIOUS
<1> QED BY <1>1 DEF Held

LEMMA SteadyStreams ==
  ASSUME Inv, Streams, subs' \subseteq subs, published' = published, pub' = pub,
         hubFinalized' = hubFinalized, fin' = fin,
         \A t \in Subs : Steady(t)
  PROVE  Streams'
<1>1. subs \subseteq Subs
  BY DEF Inv, TypeOK, HubType
<1>2. CutHasNoGap'
  BY <1>1, SteadyCut DEF Streams
<1>3. Held'
  BY <1>1, SteadyHeld DEF Streams, Steady, Core
<1>4. \A t \in Subs : OnStream(t)'
  BY SteadyStream DEF Streams
<1>5. InPublish'
  BY DEF Streams, InPublish
<1> QED BY <1>2, <1>3, <1>4, <1>5 DEF Streams

\* Nothing of t changes.
Same(t) ==
    /\ sub'[t] = sub[t] /\ wpc'[t] = wpc[t] /\ cur'[t] = cur[t] /\ done'[t] = done[t]
    /\ client'[t].wire = client[t].wire
    /\ adp'[t].pc = "none" => adp[t].pc = "none"
    /\ ghost'[t].since = ghost[t].since /\ ghost'[t].accepted = ghost[t].accepted
    /\ ghost'[t].cutShort = ghost[t].cutShort
    /\ t \in reap' => t \in reap

LEMMA SameSteady ==
  ASSUME NEW t \in Subs, OnStream(t), Same(t)
  PROVE  Steady(t)
BY DEF Same, Steady, Core, Kinds, OnStream, Hands, Stops

-----------------------------------------------------------------------------
(* What a message to s leaves behind, when the step has made x of its      *)
(* slots: everybody else is as before.                                     *)
Others(s) == \A t \in Subs \ {s} : /\ sub'[t] = sub[t] /\ ghost'[t] = ghost[t]
                                   /\ t \in reap' => t \in reap

Keeps(r, q) == Core(r, q) /\ q.closed = r.closed /\ q.closedPanes = r.closedPanes

Gets(s, m) ==
    IF Accepts(sub[s]) /\ Fits(sub[s], m) THEN Append(sub[s].fifo, m) ELSE sub[s].fifo

Delivered(s, x, m) ==
    /\ Others(s)
    /\ Keeps(sub[s], sub'[s]) /\ sub'[s].slots = x
    /\ sub'[s].fifo = Gets(s, m)
    /\ sub'[s].dead = (sub[s].dead \/ Overflows(sub[s], m))
    /\ Overflows(sub[s], m) => ghost'[s].cutShort \/ done[s]
    /\ ghost[s].cutShort => ghost'[s].cutShort
    /\ ghost'[s].since = ghost[s].since /\ ghost[s].accepted \subseteq ghost'[s].accepted
    /\ s \in reap' => s \in reap \/ sub'[s].dead

LEMMA SentDelivered ==
  ASSUME Inv, NEW s \in Subs, NEW x, WholeTable(x), NEW m \in Msg, NEW n \in {0, 1},
         SendTo(s, [sub[s] EXCEPT !.slots = x], m, n)
  PROVE  Delivered(s, x, m)
<1> DEFINE r == [sub[s] EXCEPT !.slots = x]
           g == [ghost EXCEPT ![s].requests = @ + n]
<1>1. sub[s] \in SubRec /\ sub \in [Subs -> SubRec] /\ ghost \in [Subs -> GhostRec]
  BY DEF Inv, TypeOK, SubType, HistoryType
<1>2. /\ r \in SubRec /\ r.slots = x /\ Keeps(sub[s], r)
      /\ r.fifo = sub[s].fifo /\ r.bytes = sub[s].bytes /\ r.dead = sub[s].dead
  BY <1>1 DEF SubRec, WholeTable, Keeps, Core
<1>3. /\ \A t \in Subs \ {s} : g[t] = ghost[t]
      /\ g[s].since = ghost[s].since /\ g[s].accepted = ghost[s].accepted
      /\ g[s].cutShort = ghost[s].cutShort /\ g \in [Subs -> GhostRec]
  <2>1. ghost[s] \in GhostRec
    BY <1>1
  <2>2. g = [ghost EXCEPT ![s] = [ghost[s] EXCEPT !.requests = @ + n]]
    BY <1>1
  <2>3. g \in [Subs -> GhostRec]
    BY <1>1, GhostCounts
  <2> HIDE DEF g
  <2> QED BY <1>1, <2>1, <2>2, <2>3 DEF GhostRec
<1>4. Overflows(r, m) <=> Overflows(sub[s], m)
  BY <1>2 DEF Overflows, Accepts, Fits, Keeps, Core
<1>5. CASE Overflows(r, m)
  <2>1. KillMark(s, [sub EXCEPT ![s] = r]) /\ ghost' = CutShort(s, g)
    BY <1>5 DEF SendTo
  <2>2. ~sub[s].dead /\ Gets(s, m) = sub[s].fifo
    BY <1>4, <1>5 DEF Overflows, Accepts, Gets
  <2> HIDE DEF g, r
  <2>3. sub' = [sub EXCEPT ![s] = [r EXCEPT !.dead = TRUE]] /\ reap' = reap \cup {s}
    BY <1>1, <2>1, <2>2 DEF KillMark
  <2>4. \A t \in Subs \ {s} : ghost'[t] = ghost[t]
    BY <1>3, <2>1 DEF CutShort
  <2>5. /\ ghost'[s].since = ghost[s].since /\ ghost'[s].accepted = ghost[s].accepted
        /\ ghost'[s].cutShort \/ done[s]
    BY <1>3, <2>1, <2>2 DEF CutShort, GhostRec
  <2>6. /\ Keeps(sub[s], sub'[s]) /\ sub'[s].slots = x /\ sub'[s].fifo = sub[s].fifo
        /\ sub'[s].dead
    BY <1>1, <1>2, <2>2, <2>3 DEF Keeps, Core, SubRec
  <2>7. Others(s)
    BY <1>1, <2>3, <2>4 DEF Others
  <2>8. ghost[s].cutShort => ghost'[s].cutShort
    BY <1>3, <2>1 DEF CutShort, GhostRec
  <2> QED BY <1>4, <1>5, <2>2, <2>5, <2>6, <2>7, <2>8 DEF Delivered
<1>6. CASE ~Overflows(r, m)
  <2>1. /\ sub' = [sub EXCEPT ![s] = Queued(r, m)]
        /\ ghost' = Accepted(s, g, m) /\ reap' = reap
    BY <1>6 DEF SendTo
  <2> HIDE DEF g, r
  <2>2. /\ Keeps(r, Queued(r, m)) /\ Queued(r, m).slots = x /\ Queued(r, m).dead = r.dead
        /\ Queued(r, m).fifo = Gets(s, m)
    BY <1>2 DEF Queued, Keeps, Core, SubRec, Gets, Accepts, Fits
  <2>3. Keeps(sub[s], Queued(r, m))
    BY <1>2, <2>2 DEF Keeps, Core
  <2>4. sub'[s] = Queued(r, m) /\ \A t \in Subs \ {s} : sub'[t] = sub[t]
    BY <1>1, <2>1
  <2>5. /\ \A t \in Subs \ {s} : ghost'[t] = ghost[t]
        /\ ghost'[s].since = ghost[s].since /\ ghost[s].accepted \subseteq ghost'[s].accepted
        /\ ghost'[s].cutShort = ghost[s].cutShort
    <3>1. g[s] \in GhostRec
      BY <1>3
    <3>2. \/ ghost' = g
          \/ ghost' = [g EXCEPT ![s] = [g[s] EXCEPT !.accepted = @ \cup {m}]]
      BY <2>1, <1>3 DEF Accepted
    <3> QED BY <1>3, <3>1, <3>2 DEF GhostRec
  <2>6. Others(s)
    BY <2>1, <2>4, <2>5 DEF Others
  <2>7. /\ sub'[s].slots = x /\ sub'[s].fifo = Gets(s, m)
        /\ sub'[s].dead = (sub[s].dead \/ Overflows(sub[s], m))
    <3>1. sub[s].dead \in BOOLEAN
      BY <1>1 DEF SubRec
    <3> QED BY <1>2, <1>4, <1>6, <2>2, <2>4, <3>1
  <2> QED BY <1>4, <1>6, <2>1, <2>3, <2>4, <2>5, <2>6, <2>7 DEF Delivered
<1> QED BY <1>5, <1>6

\* The slots it was given may be those it had.
LEMMA SameSlots ==
  ASSUME NEW r \in SubRec
  PROVE  [r EXCEPT !.slots = r.slots] = r
BY DEF SubRec

-----------------------------------------------------------------------------
(* The three ways in which most steps touch a stream.                      *)

\* The places of the writers and of the peers.
placeVars == <<wpc, cur, done, client>>

Readers == \A t \in Subs : adp'[t].pc = "none" => adp[t].pc = "none"

LEMMA AppendTo ==
  ASSUME NEW q \in Seq(Msg), NEW m \in Msg
  PROVE  /\ Append(q, m) \in Seq(Msg) /\ Len(Append(q, m)) = Len(q) + 1 /\ Len(q) \in Nat
         /\ Append(q, m)[Len(q) + 1] = m
         /\ \A i \in 1..Len(q) : Append(q, m)[i] = q[i]
OBVIOUS

\* A message is queued, or its reader is killed.
LEMMA DeliveredSteady ==
  ASSUME Inv, \A t \in Subs : OnStream(t), NEW s \in Subs, NEW x, NEW m \in Msg, m.kind \in QueueKinds,
         Delivered(s, x, m), UNCHANGED placeVars, Readers
  PROVE  \A t \in Subs : Steady(t)
<1>1. \A t \in Subs \ {s} : Same(t)
  BY DEF Delivered, Others, placeVars, Readers, Same
<1>2. Kinds(sub'[s])
  <2>1. Kinds(sub[s]) /\ sub[s].fifo \in Seq(Msg)
    BY MySub DEF OnStream, Hands, Kinds, GoodRec, SubRec
  <2>2. Kinds(sub'[s]) <=> \A i \in 1..Len(Gets(s, m)) : Gets(s, m)[i].kind \in QueueKinds
    BY DEF Delivered, Kinds
  <2>3. \A i \in 1..Len(Gets(s, m)) : Gets(s, m)[i].kind \in QueueKinds
    <3>1. CASE Gets(s, m) = sub[s].fifo
      BY <2>1, <3>1 DEF Kinds
    <3>2. CASE Gets(s, m) = Append(sub[s].fifo, m)
      BY <2>1, <3>2, AppendTo DEF Kinds
    <3> QED BY <3>1, <3>2 DEF Gets
  <2> QED BY <2>2, <2>3
<1>3. Steady(s)
  BY <1>2 DEF Delivered, Keeps, Core, placeVars, Readers, Steady, OnStream, Stops
<1> QED BY <1>1, <1>3, SameSteady

\* The record changes elsewhere than in the stream.
LEMMA AsideSteady ==
  ASSUME Inv, \A t \in Subs : OnStream(t), NEW s \in Subs, NEW q, sub' = [sub EXCEPT ![s] = q],
         Core(sub[s], q), q.fifo = sub[s].fifo, q.dead = sub[s].dead,
         UNCHANGED <<placeVars, reap>>, Readers,
         \A t \in Subs : /\ ghost'[t].since = ghost[t].since
                         /\ ghost'[t].accepted = ghost[t].accepted
                         /\ ghost'[t].cutShort = ghost[t].cutShort
  PROVE  \A t \in Subs : Steady(t)
<1>1. sub'[s] = q /\ \A t \in Subs \ {s} : sub'[t] = sub[t]
  BY DEF Inv, TypeOK, SubType
<1>2. \A t \in Subs \ {s} : Same(t)
  BY <1>1 DEF placeVars, Readers, Same
<1>3. Steady(s)
  BY <1>1 DEF placeVars, Readers, Steady, OnStream, Hands, Kinds, Stops
<1> QED BY <1>2, <1>3, SameSteady

\* s is killed, having been closed perhaps.
LEMMA KilledSteady ==
  ASSUME Inv, \A t \in Subs : OnStream(t), NEW s \in Subs, NEW recs, KillMark(s, recs),
         recs \in [Subs -> SubRec], \A t \in Subs \ {s} : recs[t] = sub[t],
         Core(sub[s], recs[s]), recs[s].fifo = sub[s].fifo, recs[s].dead = sub[s].dead,
         ghost' = CutShort(s, ghost), UNCHANGED placeVars, Readers
  PROVE  (\A t \in Subs : Steady(t)) /\ sub'[s].dead
<1>1. /\ \A t \in Subs \ {s} : sub'[t] = sub[t] /\ (t \in reap' => t \in reap)
      /\ Core(sub[s], sub'[s]) /\ sub'[s].fifo = sub[s].fifo /\ sub'[s].dead
  <2>1. recs[s] \in SubRec /\ [recs[s] EXCEPT !.dead = TRUE].dead
        /\ Core(recs[s], [recs[s] EXCEPT !.dead = TRUE])
        /\ [recs[s] EXCEPT !.dead = TRUE].fifo = recs[s].fifo
    BY DEF Core, SubRec
  <2>2. CASE sub[s].dead
    BY <2>2 DEF KillMark
  <2>3. CASE ~sub[s].dead
    <3> DEFINE q == [recs[s] EXCEPT !.dead = TRUE]
    <3>1. sub' = [recs EXCEPT ![s] = q] /\ reap' = reap \cup {s}
      BY <2>3 DEF KillMark
    <3> HIDE DEF q
    <3>2. sub'[s] = q /\ \A t \in Subs \ {s} : sub'[t] = sub[t]
      BY <3>1
    <3>3. Core(sub[s], q) /\ q.fifo = sub[s].fifo /\ q.dead
      BY <2>1 DEF q, Core
    <3> QED BY <3>1, <3>2, <3>3
  <2> QED BY <2>2, <2>3
<1>2. /\ \A t \in Subs \ {s} : ghost'[t] = ghost[t]
      /\ ghost'[s].since = ghost[s].since /\ ghost'[s].accepted = ghost[s].accepted
      /\ ghost[s].cutShort => ghost'[s].cutShort
      /\ ~sub[s].dead => ghost'[s].cutShort \/ done[s]
  BY DEF CutShort, Inv, TypeOK, HistoryType, GhostRec
<1>3. \A t \in Subs \ {s} : Same(t)
  BY <1>1, <1>2 DEF placeVars, Readers, Same
<1>4. Steady(s)
  BY <1>1, <1>2 DEF placeVars, Readers, Steady, OnStream, Hands, Kinds, Stops
<1> QED BY <1>1, <1>3, <1>4, SameSteady

\* Nothing of any stream changes.
LEMMA StillSteady ==
  ASSUME \A t \in Subs : OnStream(t), UNCHANGED <<sub, placeVars, reap>>, Readers,
         \A t \in Subs : /\ ghost'[t].since = ghost[t].since
                         /\ ghost'[t].accepted = ghost[t].accepted
                         /\ ghost'[t].cutShort = ghost[t].cutShort
  PROVE  \A t \in Subs : Steady(t)
BY SameSteady DEF placeVars, Readers, Same

\* The counters of the history are not its streams'.
LEMMA CountersAside ==
  ASSUME Inv, NEW s \in Subs, NEW n, NEW v,
         \/ ghost' = ghost
         \/ ghost' = [ghost EXCEPT ![s].requests = n]
         \/ ghost' = [ghost EXCEPT ![s].offered = v]
  PROVE  \A t \in Subs : /\ ghost'[t].since = ghost[t].since
                         /\ ghost'[t].accepted = ghost[t].accepted
                         /\ ghost'[t].cutShort = ghost[t].cutShort
<1>1. ghost \in [Subs -> GhostRec] /\ \A t \in Subs : ghost[t] \in GhostRec
  BY DEF Inv, TypeOK, HistoryType
<1>2. \/ ghost' = ghost
      \/ ghost' = [ghost EXCEPT ![s] = [ghost[s] EXCEPT !.requests = n]]
      \/ ghost' = [ghost EXCEPT ![s] = [ghost[s] EXCEPT !.offered = v]]
  BY <1>1
<1> QED BY <1>1, <1>2 DEF GhostRec

-----------------------------------------------------------------------------
(* Streams, action by action: readers and framers.                         *)

\* What a step of a reader leaves alone of the bus.
busVars == <<subs, hubFinalized, pub, fin, published, placeVars>>

LEMMA SentStreams ==
  ASSUME Inv, Streams, NEW s \in Subs, NEW x, NEW m \in Msg, m.kind \in QueueKinds,
         Delivered(s, x, m), UNCHANGED busVars, Readers
  PROVE  Streams'
<1>1. UNCHANGED placeVars
  BY DEF busVars
<1>2. \A t \in Subs : Steady(t)
  BY <1>1, DeliveredSteady DEF Streams
<1> QED BY <1>2, SteadyStreams DEF busVars

LEMMA AsideStreams ==
  ASSUME Inv, Streams, NEW s \in Subs, NEW q, sub' = [sub EXCEPT ![s] = q],
         Core(sub[s], q), q.fifo = sub[s].fifo, q.dead = sub[s].dead,
         UNCHANGED <<busVars, reap>>, Readers,
         \A t \in Subs : /\ ghost'[t].since = ghost[t].since
                         /\ ghost'[t].accepted = ghost[t].accepted
                         /\ ghost'[t].cutShort = ghost[t].cutShort
  PROVE  Streams'
<1>1. UNCHANGED <<placeVars, reap>>
  BY DEF busVars
<1>2. \A t \in Subs : Steady(t)
  BY <1>1, AsideSteady DEF Streams
<1> QED BY <1>2, SteadyStreams DEF busVars

LEMMA StillStreams ==
  ASSUME Inv, Streams, UNCHANGED <<sub, busVars, reap>>, Readers,
         \A t \in Subs : /\ ghost'[t].since = ghost[t].since
                         /\ ghost'[t].accepted = ghost[t].accepted
                         /\ ghost'[t].cutShort = ghost[t].cutShort
  PROVE  Streams'
<1>1. UNCHANGED <<sub, placeVars, reap>>
  BY DEF busVars
<1>2. \A t \in Subs : Steady(t)
  BY <1>1, StillSteady DEF Streams
<1> QED BY <1>2, SteadyStreams DEF busVars

\* The messages readers send are for the queue.
LEMMA QueueMessages ==
  /\ \A p \in Panes : \A m \in {Watching(p), Refused(p), Left(p), ClosedEv(p)} :
        m \in Msg /\ m.kind \in QueueKinds
  /\ \A i \in Nat : Reply(i).kind \in QueueKinds /\ Event(i).kind \in QueueKinds
BY Messages DEF Watching, Refused, Left, ClosedEv, Reply, Event, Plain, QueueKinds

\* A message sent on the record as it is.
LEMMA SentPlain ==
  ASSUME Inv, NEW s \in Subs, NEW m \in Msg, NEW n \in {0, 1}, SendTo(s, sub[s], m, n)
  PROVE  Delivered(s, sub[s].slots, m)
<1>1. sub[s] \in SubRec /\ WholeTable(sub[s].slots)
  BY MySub DEF GoodRec
<1>2. [sub[s] EXCEPT !.slots = sub[s].slots] = sub[s]
  BY <1>1, SameSlots
<1> QED BY <1>1, <1>2, SentDelivered

LEMMA GoToStays ==
  ASSUME Inv, NEW s \in Subs, NEW pc, NEW p, pc # "none", GoTo(s, pc, p)
  PROVE  Readers
BY DEF GoTo, Inv, TypeOK, ReaderType, Readers

LEMMA SendStreams ==
  ASSUME Inv, Streams, NEW s \in Subs, Send(s)
  PROVE  Streams'
<1>1. Reply(ghost[s].requests + 1) \in Msg /\ Reply(ghost[s].requests + 1).kind \in QueueKinds
  BY ReplyIsMessage DEF Reply, Plain, QueueKinds
<1>2. Delivered(s, sub[s].slots, Reply(ghost[s].requests + 1))
  BY <1>1, SentPlain DEF Send
<1>3. UNCHANGED busVars /\ Readers
  BY DEF Send, busVars, placeVars, Readers
<1> QED BY <1>1, <1>2, <1>3, SentStreams

LEMMA CloseStreams ==
  ASSUME Inv, Streams, NEW s \in Subs, Close(s)
  PROVE  Streams'
<1>1. UNCHANGED busVars
  BY DEF Close, busVars, placeVars
<1>2. Readers
  BY DEF Close, Readers, Inv, TypeOK, ReaderType
<1>3. CASE sub[s].closed \/ sub[s].dead
  BY <1>1, <1>2, <1>3, StillStreams DEF Close
<1>4. CASE ~(sub[s].closed \/ sub[s].dead) /\ sub[s].started
  <2> DEFINE q == [sub[s] EXCEPT !.closed = TRUE, !.wake = TRUE]
  <2>1. sub' = [sub EXCEPT ![s] = q] /\ UNCHANGED <<reap, ghost>>
    BY <1>4 DEF Close
  <2>2. Core(sub[s], q) /\ q.fifo = sub[s].fifo /\ q.dead = sub[s].dead
    BY MySub DEF GoodRec, SubRec, Core
  <2> HIDE DEF q
  <2> QED BY <1>1, <1>2, <2>1, <2>2, AsideStreams
<1>5. CASE ~(sub[s].closed \/ sub[s].dead) /\ ~sub[s].started
  <2> DEFINE q == [sub[s] EXCEPT !.closed = TRUE]
             recs == [sub EXCEPT ![s] = q]
  <2>1. KillMark(s, recs) /\ ghost' = CutShort(s, ghost)
    BY <1>5 DEF Close
  <2>2. q \in SubRec /\ Core(sub[s], q) /\ q.fifo = sub[s].fifo /\ q.dead = sub[s].dead
    BY MySub DEF GoodRec, SubRec, Core
  <2>3. recs \in [Subs -> SubRec] /\ recs[s] = q /\ \A t \in Subs \ {s} : recs[t] = sub[t]
    <3> HIDE DEF q
    <3> QED BY <2>2 DEF Inv, TypeOK, SubType
  <2>4. UNCHANGED placeVars
    BY <1>1 DEF busVars
  <2> HIDE DEF recs, q
  <2>5. \A t \in Subs : Steady(t)
    BY <1>2, <2>1, <2>2, <2>3, <2>4, KilledSteady DEF Streams
  <2> QED BY <1>1, <2>5, SteadyStreams DEF busVars
<1> QED BY <1>3, <1>4, <1>5

LEMMA WatchAddSlotStreams ==
  ASSUME Inv, Streams, NEW s \in Subs, NEW p \in Panes, WatchAddSlot(s, p)
  PROVE  Streams'
<1>1. UNCHANGED busVars
  BY DEF WatchAddSlot, readerVars, busVars, placeVars
<1>2. CASE Open(sub[s], p)
  <2> DEFINE q == [sub[s] EXCEPT !.slots = AddSlot(@, p)]
  <2>1. /\ sub' = [sub EXCEPT ![s] = q] /\ reap' = reap
        /\ ghost' = [ghost EXCEPT ![s].requests = @ + 1]
    BY <1>2 DEF WatchAddSlot
  <2>2. Core(sub[s], q) /\ q.fifo = sub[s].fifo /\ q.dead = sub[s].dead
    BY MySub DEF GoodRec, SubRec, Core
  <2>3. Readers
    BY <1>2, GoToStays DEF WatchAddSlot
  <2> HIDE DEF q
  <2> QED BY <1>1, <2>1, <2>2, <2>3, CountersAside, AsideStreams
<1>3. CASE ~Open(sub[s], p)
  <2>1. Delivered(s, sub[s].slots, Refused(p))
    BY <1>3, Messages, SentPlain DEF WatchAddSlot
  <2>2. Readers
    BY <1>3 DEF WatchAddSlot, Readers
  <2> QED BY <1>1, <2>1, <2>2, QueueMessages, SentStreams
<1> QED BY <1>2, <1>3

LEMMA WatchResolveStreams ==
  ASSUME Inv, Streams, NEW s \in Subs, NEW p \in Panes, WatchResolve(s, p)
  PROVE  Streams'
<1>1. UNCHANGED busVars
  BY DEF WatchResolve, readerVars, busVars, placeVars
<1>2. Readers
  BY GoToStays DEF WatchResolve
<1>3. CASE pane[p].pc = "live"
  BY <1>1, <1>2, <1>3, StillStreams DEF WatchResolve
<1>4. CASE pane[p].pc # "live"
  <2>1. WholeTable(DropSlot(sub[s].slots, p))
    BY MySub, DropSlotWhole
  <2>2. Delivered(s, DropSlot(sub[s].slots, p), Refused(p))
    BY <1>4, <2>1, Messages, SentDelivered DEF WatchResolve
  <2> QED BY <1>1, <1>2, <2>2, QueueMessages, SentStreams
<1> QED BY <1>3, <1>4

LEMMA WatchAddStreams ==
  ASSUME Inv, Streams, NEW s \in Subs, NEW p \in Panes, WatchAdd(s, p)
  PROVE  Streams'
<1>1. UNCHANGED <<sub, busVars, reap, ghost>>
  BY DEF WatchAdd, readerVars, busVars, placeVars
<1>2. Readers
  BY GoToStays DEF WatchAdd
<1> QED BY <1>1, <1>2, StillStreams

LEMMA WatchAnswerStreams ==
  ASSUME Inv, Streams, NEW s \in Subs, NEW p \in Panes, WatchAnswer(s, p)
  PROVE  Streams'
<1>1. UNCHANGED busVars
  BY DEF WatchAnswer, readerVars, busVars, placeVars
<1>2. Readers
  BY GoToStays DEF WatchAnswer
<1>3. CASE s \in Silent
  <2> DEFINE q == [[sub[s] EXCEPT !.slots = Activate(@, p)] EXCEPT !.wake = TRUE]
  <2>1. sub' = [sub EXCEPT ![s] = q] /\ UNCHANGED <<reap, ghost>>
    BY <1>3 DEF WatchAnswer
  <2>2. Core(sub[s], q) /\ q.fifo = sub[s].fifo /\ q.dead = sub[s].dead
    BY MySub DEF GoodRec, SubRec, Core
  <2> HIDE DEF q
  <2> QED BY <1>1, <1>2, <2>1, <2>2, AsideStreams
<1>4. CASE s \notin Silent
  <2>1. WholeTable(Activate(sub[s].slots, p))
    BY MySub, ActivateWhole
  <2>2. Delivered(s, Activate(sub[s].slots, p), Watching(p))
    BY <1>4, <2>1, Messages, SentDelivered DEF WatchAnswer
  <2> QED BY <1>1, <1>2, <2>2, QueueMessages, SentStreams
<1> QED BY <1>3, <1>4

LEMMA UnwatchLeaveStreams ==
  ASSUME Inv, Streams, NEW s \in Subs, NEW p \in Panes, UnwatchLeave(s, p)
  PROVE  Streams'
<1>1. UNCHANGED <<sub, busVars, reap>> /\ ghost' = [ghost EXCEPT ![s].requests = @ + 1]
  BY DEF UnwatchLeave, readerVars, busVars, placeVars
<1>2. Readers
  BY GoToStays DEF UnwatchLeave
<1> QED BY <1>1, <1>2, CountersAside, StillStreams

LEMMA UnwatchAnswerStreams ==
  ASSUME Inv, Streams, NEW s \in Subs, NEW p \in Panes, UnwatchAnswer(s, p)
  PROVE  Streams'
<1>1. UNCHANGED busVars
  BY DEF UnwatchAnswer, readerVars, busVars, placeVars
<1>2. Readers
  BY GoToStays DEF UnwatchAnswer
<1>3. WholeTable(DropSlot(sub[s].slots, p))
  BY MySub, DropSlotWhole
<1>4. Delivered(s, DropSlot(sub[s].slots, p), Left(p))
  BY <1>3, Messages, SentDelivered DEF UnwatchAnswer
<1> QED BY <1>1, <1>2, <1>4, QueueMessages, SentStreams

LEMMA ResyncStreams ==
  ASSUME Inv, Streams, NEW s \in Subs, NEW p \in Panes, Resync(s, p)
  PROVE  Streams'
<1>1. Reply(ghost[s].requests + 1) \in Msg /\ Reply(ghost[s].requests + 1).kind \in QueueKinds
  BY ReplyIsMessage DEF Reply, Plain, QueueKinds
<1>2. Delivered(s, sub[s].slots, Reply(ghost[s].requests + 1))
  BY <1>1, SentPlain DEF Resync
<1>3. UNCHANGED busVars /\ Readers
  BY DEF Resync, readerVars, busVars, placeVars, Readers
<1> QED BY <1>1, <1>2, <1>3, SentStreams

LEMMA OfferStreams ==
  ASSUME Inv, Streams, NEW s \in Subs, NEW p \in Panes, NEW lines \in Lines, Offer(s, p, lines)
  PROVE  Streams'
<1>1. UNCHANGED <<busVars, reap>> /\ Readers
  BY DEF Offer, readerVars, busVars, placeVars, Readers
<1>2. ghost' = [ghost EXCEPT ![s].offered = [ghost[s].offered EXCEPT ![p] = Override(lines, @)]]
  BY DEF Offer, Inv, TypeOK, HistoryType
<1>3. CASE Open(sub[s], p) /\ Has(sub[s].slots, p)
  <2> DEFINE x == OfferRows(sub[s].slots, p, watcher[s][p] = "key", lines)
             q == [sub[s] EXCEPT !.slots = x, !.wake = TRUE]
  <2>1. sub' = [sub EXCEPT ![s] = q]
    BY <1>3 DEF Offer
  <2>2. Core(sub[s], q) /\ q.fifo = sub[s].fifo /\ q.dead = sub[s].dead
    <3> HIDE DEF x
    <3> QED BY MySub DEF GoodRec, SubRec, Core
  <2> HIDE DEF q
  <2> QED BY <1>1, <1>2, <2>1, <2>2, CountersAside, AsideStreams
<1>4. CASE ~(Open(sub[s], p) /\ Has(sub[s].slots, p))
  <2>1. sub' = sub
    BY <1>4 DEF Offer
  <2> QED BY <1>1, <1>2, <2>1, CountersAside, StillStreams
<1> QED BY <1>3, <1>4

LEMMA OfferChangedStreams ==
  ASSUME Inv, Streams, NEW s \in Subs, NEW p \in Panes, OfferChanged(s, p)
  PROVE  Streams'
<1>1. UNCHANGED <<busVars, reap, ghost>> /\ Readers
  BY DEF OfferChanged, readerVars, busVars, placeVars, Readers
<1>2. CASE Open(sub[s], p) /\ Has(sub[s].slots, p)
  <2> DEFINE x == OfferRaw(sub[s].slots, p)
             q == [sub[s] EXCEPT !.slots = x, !.wake = TRUE]
  <2>1. sub' = [sub EXCEPT ![s] = q]
    BY <1>2 DEF OfferChanged
  <2>2. Core(sub[s], q) /\ q.fifo = sub[s].fifo /\ q.dead = sub[s].dead
    <3> HIDE DEF x
    <3> QED BY MySub DEF GoodRec, SubRec, Core
  <2> HIDE DEF q
  <2> QED BY <1>1, <2>1, <2>2, AsideStreams
<1>3. CASE ~(Open(sub[s], p) /\ Has(sub[s].slots, p))
  <2>1. sub' = sub
    BY <1>3 DEF OfferChanged
  <2> QED BY <1>1, <2>1, StillStreams
<1> QED BY <1>2, <1>3

-----------------------------------------------------------------------------
(* Streams: those who publish, close a pane or end the session.            *)

LEMMA PublishEventStreams ==
  ASSUME Inv, Streams, NEW a \in Actors, PublishEvent(a)
  PROVE  Streams'
<1>1. /\ UNCHANGED <<subs, hubFinalized, fin, sub, placeVars, reap, ghost>> /\ Readers
      /\ published' = published + 1 /\ published \in Nat
  BY DEF PublishEvent, PublishBegin, placeVars, Readers, Inv, TypeOK, ReaderType
<1>2. \A t \in Subs : Steady(t)
  BY <1>1, StillSteady DEF Streams
<1>3. a \in Publishers /\ pub[a].pc = "idle" /\ pub \in [Actors -> PubRec] /\ subs \subseteq Subs
  BY DEF PublishEvent, PublishBegin, Inv, TypeOK, HubType
<1>4. pub'[a] = [pc |-> "loop", msg |-> Event(published + 1), todo |-> subs, over |-> {}]
  BY <1>3 DEF PublishEvent, PublishBegin
<1>5. \A b \in Actors \ {a} : pub'[b] = pub[b]
  BY <1>3 DEF PublishEvent, PublishBegin
<1>6. CutHasNoGap'
  <2> SUFFICES ASSUME NEW t \in subs, NEW i \in (ghost[t].since + 1)..(published + 1), Accepts(sub[t]),
                      Event(i) \notin ghost[t].accepted
               PROVE  \E b \in Publishers : /\ pub'[b].msg = Event(i) /\ pub'[b].pc # "idle"
                                            /\ t \in pub'[b].todo \cup pub'[b].over
    BY <1>1 DEF CutHasNoGap
  <2>1. CASE i = published + 1
    BY <1>3, <1>4, <2>1
  <2>2. CASE i # published + 1
    <3>1. ghost[t] \in GhostRec
      BY <1>3 DEF Inv, TypeOK, HistoryType
    <3>2. i \in (ghost[t].since + 1)..published
      BY <1>1, <2>2, <3>1 DEF GhostRec
    <3>3. PICK b \in Publishers : /\ pub[b].msg = Event(i) /\ pub[b].pc # "idle"
                                  /\ t \in pub[b].todo \cup pub[b].over
      BY <3>2 DEF Streams, CutHasNoGap
    <3> QED BY <1>3, <1>5, <3>3 DEF Actors
  <2> QED BY <2>1, <2>2
<1>7. Held'
  BY <1>1 DEF Streams, Held
<1>8. InPublish'
  <2>1. pub'[a].pc = "loop" /\ pub'[a].msg.kind = "event"
    BY <1>4 DEF Event, Plain
  <2> QED BY <1>3, <1>5, <2>1 DEF Streams, InPublish
<1>9. \A t \in Subs : OnStream(t)'
  BY <1>2, SteadyStream DEF Streams
<1> QED BY <1>6, <1>7, <1>8, <1>9 DEF Streams

\* What a Publish leaves of the cut, whichever step it makes: who was still to be
\* reached or killed is, or needs no more.
LEMMA CutPassed ==
  ASSUME Inv, Streams, NEW a \in Actors, UNCHANGED <<subs, published>>,
         \A b \in Actors \ {a} : pub'[b] = pub[b],
         \A t \in Subs : Steady(t),
         \A t \in Subs : t \in pub[a].todo \cup pub[a].over /\ pub[a].pc # "idle" =>
             \/ ~Accepts(sub'[t])
             \/ pub[a].msg \in ghost'[t].accepted
             \/ /\ pub'[a].msg = pub[a].msg /\ pub'[a].pc # "idle"
                /\ t \in pub'[a].todo \cup pub'[a].over
  PROVE  CutHasNoGap'
<1> SUFFICES ASSUME NEW t \in subs, NEW i \in (ghost'[t].since + 1)..published, Accepts(sub'[t]),
                    Event(i) \notin ghost'[t].accepted
             PROVE  \E b \in Publishers : /\ pub'[b].msg = Event(i) /\ pub'[b].pc # "idle"
                                          /\ t \in pub'[b].todo \cup pub'[b].over
  BY DEF CutHasNoGap
<1>1. t \in Subs
  BY DEF Inv, TypeOK, HubType
<1>2. Accepts(sub[t]) /\ Event(i) \notin ghost[t].accepted /\ i \in (ghost[t].since + 1)..published
  BY <1>1 DEF Steady, Core, Accepts
<1>3. PICK b \in Publishers : /\ pub[b].msg = Event(i) /\ pub[b].pc # "idle"
                              /\ t \in pub[b].todo \cup pub[b].over
  BY <1>2 DEF Streams, CutHasNoGap
<1>4. CASE b = a
  BY <1>1, <1>3, <1>4
<1>5. CASE b # a
  BY <1>3, <1>5 DEF Actors
<1> QED BY <1>4, <1>5

LEMMA PublishUnlockStreams ==
  ASSUME Inv, Streams, NEW a \in Actors, PublishUnlock(a)
  PROVE  Streams'
<1>1. UNCHANGED <<subs, hubFinalized, fin, sub, placeVars, reap, ghost, published>> /\ Readers
  BY DEF PublishUnlock, placeVars, Readers
<1>2. \A t \in Subs : Steady(t)
  BY <1>1, StillSteady DEF Streams
<1>3. /\ pub'[a] = [pub[a] EXCEPT !.pc = IF pub[a].over = {} THEN "idle" ELSE "kill"]
      /\ \A b \in Actors \ {a} : pub'[b] = pub[b]
      /\ pub[a].todo = {} /\ pub[a] \in PubRec
  BY DEF PublishUnlock, Inv, TypeOK, HubType
<1>4. CutHasNoGap'
  <2>1. \A t \in Subs : t \in pub[a].todo \cup pub[a].over =>
          /\ pub'[a].msg = pub[a].msg /\ pub'[a].pc # "idle" /\ t \in pub'[a].todo \cup pub'[a].over
    BY <1>3 DEF PubRec
  <2> QED BY <1>1, <1>2, <1>3, <2>1, CutPassed
<1>5. Held'
  BY <1>1 DEF Streams, Held
<1>6. InPublish'
  BY <1>3 DEF Streams, InPublish, PubRec
<1>7. \A t \in Subs : OnStream(t)'
  BY <1>2, SteadyStream DEF Streams
<1> QED BY <1>4, <1>5, <1>6, <1>7 DEF Streams

\* Publish queues for s, or puts it among those it will kill.
LEMMA PublishToEffect ==
  ASSUME Inv, NEW a \in Actors, NEW s \in Subs, PublishTo(a, s)
  PROVE  /\ Others(s) /\ Keeps(sub[s], sub'[s]) /\ sub'[s].slots = sub[s].slots
         /\ sub'[s].fifo = Gets(s, pub[a].msg) /\ sub'[s].dead = sub[s].dead
         /\ ghost'[s].cutShort = ghost[s].cutShort /\ ghost'[s].since = ghost[s].since
         /\ ghost[s].accepted \subseteq ghost'[s].accepted
         /\ Accepts(sub[s]) /\ Fits(sub[s], pub[a].msg) => pub[a].msg \in ghost'[s].accepted
         /\ pub'[a].msg = pub[a].msg /\ pub'[a].pc = "loop" /\ pub[a].pc = "loop"
         /\ pub'[a].todo = pub[a].todo \ {s} /\ pub[a].over \subseteq pub'[a].over
         /\ Overflows(sub[s], pub[a].msg) => s \in pub'[a].over
         /\ \A b \in Actors \ {a} : pub'[b] = pub[b]
<1>1. sub[s] \in SubRec /\ sub \in [Subs -> SubRec] /\ ghost \in [Subs -> GhostRec]
      /\ ghost[s] \in GhostRec /\ pub \in [Actors -> PubRec] /\ pub[a] \in PubRec
  BY DEF Inv, TypeOK, SubType, HistoryType, HubType
<1> DEFINE m == pub[a].msg
           q == Queued(sub[s], m)
<1>2. /\ Keeps(sub[s], q) /\ q.slots = sub[s].slots /\ q.dead = sub[s].dead /\ q.fifo = Gets(s, m)
  <2> HIDE DEF m
  <2> QED BY <1>1 DEF Queued, Keeps, Core, SubRec, Gets
<1>3. sub' = [sub EXCEPT ![s] = q] /\ ghost' = Accepted(s, ghost, m) /\ reap' = reap
  BY DEF PublishTo
<1>4. /\ \A t \in Subs \ {s} : ghost'[t] = ghost[t]
      /\ ghost'[s].cutShort = ghost[s].cutShort /\ ghost'[s].since = ghost[s].since
      /\ ghost[s].accepted \subseteq ghost'[s].accepted
      /\ Accepts(sub[s]) /\ Fits(sub[s], m) => m \in ghost'[s].accepted
  <2> HIDE DEF m, q
  <2>1. CASE ~(Accepts(sub[s]) /\ Fits(sub[s], m))
    BY <1>3, <2>1 DEF Accepted
  <2>2. CASE Accepts(sub[s]) /\ Fits(sub[s], m)
    <3>1. ghost' = [ghost EXCEPT ![s] = [ghost[s] EXCEPT !.accepted = @ \cup {m}]]
      BY <1>1, <1>3, <2>2 DEF Accepted
    <3> QED BY <1>1, <3>1 DEF GhostRec
  <2> QED BY <2>1, <2>2
<1>5. /\ pub'[a].msg = pub[a].msg /\ pub'[a].pc = "loop" /\ pub[a].pc = "loop"
      /\ pub'[a].todo = pub[a].todo \ {s} /\ pub[a].over \subseteq pub'[a].over
      /\ Overflows(sub[s], m) => s \in pub'[a].over
      /\ \A b \in Actors \ {a} : pub'[b] = pub[b]
  <2> DEFINE o == IF Overflows(sub[s], m) THEN pub[a].over \cup {s} ELSE pub[a].over
  <2>1. pub' = [pub EXCEPT ![a] = [pub[a] EXCEPT !.todo = @ \ {s}, !.over = o]] /\ pub[a].pc = "loop"
    BY <1>1 DEF PublishTo, Reaches
  <2>2. pub[a].over \subseteq o /\ (Overflows(sub[s], m) => s \in o)
    OBVIOUS
  <2> HIDE DEF o
  <2> QED BY <1>1, <2>1, <2>2 DEF PubRec
<1>6. sub'[s] = q /\ \A t \in Subs \ {s} : sub'[t] = sub[t]
  <2> HIDE DEF q
  <2> QED BY <1>1, <1>3
<1>7. Others(s)
  BY <1>3, <1>4, <1>6 DEF Others
<1> QED BY <1>2, <1>4, <1>5, <1>6, <1>7

\* What Publish carries is for the queue.
LEMMA CarriesQueued ==
  ASSUME Inv, Streams, NEW a \in Actors, pub[a].pc = "loop"
  PROVE  pub[a].msg \in Msg /\ pub[a].msg.kind \in QueueKinds
<1>1. pub[a].msg \in Msg
  BY DEF Inv, TypeOK, HubType, PubRec
<1>2. CASE pub[a].msg.kind = "event"
  BY <1>1, <1>2 DEF QueueKinds
<1>3. CASE a \in Panes /\ pub[a].msg = ClosedEv(a)
  BY <1>1, <1>3, QueueMessages
<1> QED BY <1>2, <1>3 DEF Streams, InPublish

LEMMA PublishToStreams ==
  ASSUME Inv, Streams, NEW a \in Actors, NEW s \in Subs, PublishTo(a, s)
  PROVE  Streams'
<1> DEFINE m == pub[a].msg
<1>1. UNCHANGED <<subs, hubFinalized, fin, placeVars, reap, published>> /\ Readers
  BY DEF PublishTo, placeVars, Readers
<1>2. m \in Msg /\ m.kind \in QueueKinds
  BY CarriesQueued DEF PublishTo, Reaches
<1> HIDE DEF m
<1>3. Kinds(sub'[s])
  <2>1. Kinds(sub[s]) /\ sub[s].fifo \in Seq(Msg)
    BY MySub DEF Streams, OnStream, Hands, Kinds, GoodRec, SubRec
  <2>2. sub'[s].fifo = Gets(s, m)
    BY PublishToEffect DEF m
  <2>3. CASE Gets(s, m) = sub[s].fifo
    BY <2>1, <2>2, <2>3 DEF Kinds
  <2>4. CASE Gets(s, m) = Append(sub[s].fifo, m)
    BY <1>2, <2>1, <2>2, <2>4, AppendTo DEF Kinds
  <2> QED BY <2>3, <2>4 DEF Gets
<1>4. \A t \in Subs : Steady(t)
  <2>1. \A t \in Subs \ {s} : Same(t)
    BY <1>1, PublishToEffect DEF Others, placeVars, Readers, Same
  <2>2. Steady(s)
    BY <1>1, <1>3, PublishToEffect DEF Keeps, Core, placeVars, Readers, Steady, Streams, OnStream, Stops
  <2> QED BY <2>1, <2>2, SameSteady DEF Streams
<1>5. CutHasNoGap'
  <2>1. \A t \in Subs : t \in pub[a].todo \cup pub[a].over =>
             \/ ~Accepts(sub'[t])
             \/ pub[a].msg \in ghost'[t].accepted
             \/ /\ pub'[a].msg = pub[a].msg /\ pub'[a].pc # "idle"
                /\ t \in pub'[a].todo \cup pub'[a].over
    <3> SUFFICES ASSUME NEW t \in Subs, t \in pub[a].todo \cup pub[a].over, Accepts(sub'[t]),
                        pub[a].msg \notin ghost'[t].accepted
                 PROVE  /\ pub'[a].msg = pub[a].msg /\ pub'[a].pc # "idle"
                        /\ t \in pub'[a].todo \cup pub'[a].over
      OBVIOUS
    <3>1. CASE t # s
      BY <3>1, PublishToEffect
    <3>2. CASE t = s
      <4>1. Accepts(sub[s])
        BY <3>2, PublishToEffect DEF Keeps, Core, Accepts
      <4>2. Overflows(sub[s], pub[a].msg)
        BY <3>2, <4>1, PublishToEffect DEF Overflows
      <4> QED BY <3>2, <4>2, PublishToEffect
    <3> QED BY <3>1, <3>2
  <2> QED BY <1>1, <1>4, <2>1, PublishToEffect, CutPassed
<1>6. Held'
  <2>1. \A t \in Subs : (sub[t].finalized => sub'[t].finalized) /\ (sub[t].dead => sub'[t].dead)
    BY <1>4 DEF Steady, Core
  <2> QED BY <1>1, <2>1, SteadyHeld DEF Streams, Inv, TypeOK, HubType
<1>7. InPublish'
  BY PublishToEffect DEF Streams, InPublish
<1>8. \A t \in Subs : OnStream(t)'
  BY <1>4, SteadyStream DEF Streams
<1> QED BY <1>5, <1>6, <1>7, <1>8 DEF Streams

LEMMA KillSteady ==
  ASSUME Inv, Streams, NEW s \in Subs, KillMark(s, sub), ghost' = CutShort(s, ghost),
         UNCHANGED placeVars, Readers
  PROVE  (\A t \in Subs : Steady(t)) /\ sub'[s].dead
<1>1. sub \in [Subs -> SubRec] /\ Core(sub[s], sub[s])
  BY DEF Inv, TypeOK, SubType, Core
<1> QED BY <1>1, KilledSteady DEF Streams

LEMMA PublishKillStreams ==
  ASSUME Inv, Streams, NEW a \in Actors, NEW s \in Subs, PublishKill(a, s)
  PROVE  Streams'
<1>1. UNCHANGED <<subs, hubFinalized, fin, placeVars, published>> /\ Readers
  BY DEF PublishKill, placeVars, Readers
<1>2. (\A t \in Subs : Steady(t)) /\ sub'[s].dead
  BY <1>1, KillSteady DEF PublishKill
<1>3. /\ pub'[a] = [pub[a] EXCEPT !.over = @ \ {s},
                                  !.pc = IF pub[a].over = {s} THEN "idle" ELSE "kill"]
      /\ \A b \in Actors \ {a} : pub'[b] = pub[b]
      /\ pub[a].pc = "kill" /\ pub[a] \in PubRec
  BY DEF PublishKill, Inv, TypeOK, HubType
<1>4. pub[a].todo = {}
  BY <1>3 DEF Streams, InPublish
<1>5. CutHasNoGap'
  <2>1. \A t \in Subs : t \in pub[a].todo \cup pub[a].over =>
             \/ ~Accepts(sub'[t])
             \/ /\ pub'[a].msg = pub[a].msg /\ pub'[a].pc # "idle"
                /\ t \in pub'[a].todo \cup pub'[a].over
    BY <1>2, <1>3, <1>4 DEF PubRec, Accepts
  <2> QED BY <1>1, <1>2, <1>3, <2>1, CutPassed
<1>6. Held'
  <2>1. \A t \in Subs : (sub[t].finalized => sub'[t].finalized) /\ (sub[t].dead => sub'[t].dead)
    BY <1>2 DEF Steady, Core
  <2> QED BY <1>1, <2>1, SteadyHeld DEF Streams, Inv, TypeOK, HubType
<1>7. InPublish'
  BY <1>3, <1>4 DEF Streams, InPublish, PubRec
<1>8. \A t \in Subs : OnStream(t)'
  BY <1>2, SteadyStream DEF Streams
<1> QED BY <1>5, <1>6, <1>7, <1>8 DEF Streams

\* The steps of ClosePane and of dropWatches that touch no Sub.
LEMMA ElsewhereStreams ==
  ASSUME Inv, Streams,
         UNCHANGED <<subs, hubFinalized, pub, fin, sub, placeVars, adp, reap, published, ghost>>
  PROVE  Streams'
BY StillStreams DEF busVars, Readers

LEMMA PaneClosedToStreams ==
  ASSUME Inv, Streams, NEW p \in Panes, NEW s \in Subs, PaneClosedTo(p, s)
  PROVE  Streams'
<1> DEFINE q == ForgetPane(sub[s], p)
<1>1. UNCHANGED <<busVars, reap, ghost>> /\ Readers /\ sub' = [sub EXCEPT ![s] = q]
  BY DEF PaneClosedTo, closeVars, busVars, placeVars, Readers
<1>2. Core(sub[s], q) /\ q.fifo = sub[s].fifo /\ q.dead = sub[s].dead
  BY MySub DEF GoodRec, SubRec, Core, ForgetPane
<1> HIDE DEF q
<1> QED BY <1>1, <1>2, AsideStreams

LEMMA AnnounceClosedStreams ==
  ASSUME Inv, Streams, NEW p \in Panes, AnnounceClosed(p)
  PROVE  Streams'
<1>1. UNCHANGED <<subs, hubFinalized, fin, sub, placeVars, reap, ghost, published>> /\ Readers
  BY DEF AnnounceClosed, PublishBegin, placeVars, Readers
<1>2. \A t \in Subs : Steady(t)
  BY <1>1, StillSteady DEF Streams
<1>3. pub \in [Actors -> PubRec] /\ p \in Actors /\ p \notin Publishers /\ subs \subseteq Subs
  BY BusBounds DEF Inv, TypeOK, HubType, Actors
<1>4. /\ pub'[p] = [pc |-> "loop", msg |-> ClosedEv(p), todo |-> subs, over |-> {}]
      /\ \A b \in Actors \ {p} : pub'[b] = pub[b]
  BY <1>3 DEF AnnounceClosed, PublishBegin
<1>5. CutHasNoGap'
  BY <1>1, <1>2, <1>3, <1>4, SteadyCut DEF Streams, Actors
<1>6. Held'
  BY <1>1 DEF Streams, Held
<1>7. InPublish'
  BY <1>4 DEF Streams, InPublish
<1>8. \A t \in Subs : OnStream(t)'
  BY <1>2, SteadyStream DEF Streams
<1> QED BY <1>5, <1>6, <1>7, <1>8 DEF Streams

\* Finalize, between the streams: the record that is not there yet is not finalized.
LEMMA FinalizeStepStreams ==
  ASSUME Inv, Streams, UNCHANGED <<subs, pub, published>>, \A t \in Subs : Steady(t), Held'
  PROVE  Streams'
<1>1. CutHasNoGap'
  BY SteadyCut DEF Streams, Inv, TypeOK, HubType
<1>2. \A t \in Subs : OnStream(t)'
  BY SteadyStream DEF Streams
<1>3. InPublish'
  BY DEF Streams, InPublish
<1> QED BY <1>1, <1>2, <1>3 DEF Streams

LEMMA FinalizeBeginStreams ==
  ASSUME Inv, Streams, FinalizeBegin
  PROVE  Streams'
<1>1. UNCHANGED <<subs, sub, placeVars, reap, ghost, pub, published>> /\ Readers
  BY DEF FinalizeBegin, finVars, placeVars, Readers
<1>2. \A t \in Subs : Steady(t)
  BY <1>1, StillSteady DEF Streams
<1>3. Held'
  BY <1>1 DEF Held, FinalizeBegin
<1> QED BY <1>1, <1>2, <1>3, FinalizeStepStreams

LEMMA FinalizeOnStreams ==
  ASSUME Inv, Streams, FinalizeAwait \/ FinalizeCut \/ FinalizeReturn
  PROVE  Streams'
<1>1. /\ UNCHANGED <<subs, hubFinalized, sub, placeVars, reap, ghost, pub, published>> /\ Readers
      /\ fin'.snap = fin.snap
  BY DEF FinalizeAwait, FinalizeCut, FinalizeReturn, finVars, placeVars, Readers, Inv, TypeOK, HubType
<1>2. \A t \in Subs : Steady(t)
  BY <1>1, StillSteady DEF Streams
<1>3. fin'.todo = fin.todo \/ fin.todo = {} \/ fin'.todo = fin.snap
  BY DEF FinalizeAwait, FinalizeCut, FinalizeReturn, Inv, TypeOK, HubType
<1>4. Held'
  BY <1>1, <1>3 DEF Held, Streams
<1> QED BY <1>1, <1>2, <1>4, FinalizeStepStreams

LEMMA FinalizeKillStreams ==
  ASSUME Inv, Streams, NEW s \in Subs, FinalizeKill(s)
  PROVE  Streams'
<1>1. UNCHANGED <<subs, hubFinalized, placeVars, pub, published>> /\ Readers
  BY DEF FinalizeKill, finVars, placeVars, Readers
<1>2. (\A t \in Subs : Steady(t)) /\ sub'[s].dead
  BY <1>1, KillSteady DEF FinalizeKill
<1>3. fin'.snap = fin.snap /\ fin'.todo = fin.todo \ {s}
  BY DEF FinalizeKill, Inv, TypeOK, HubType
<1>4. \A t \in Subs : (sub[t].finalized => sub'[t].finalized) /\ (sub[t].dead => sub'[t].dead)
  BY <1>2 DEF Steady, Core
<1>5. Held'
  BY <1>1, <1>2, <1>3, <1>4, SteadyHeld DEF Streams, Inv, TypeOK, HubType
<1> QED BY <1>1, <1>2, <1>5, FinalizeStepStreams

-----------------------------------------------------------------------------
(* Streams: the steps that move one.                                       *)

\* What the rest of the bus must keep of it when s's stream moves.
Moves(s) ==
    /\ subs' \subseteq subs /\ UNCHANGED <<hubFinalized, pub, published>>
    /\ \A t \in Subs \ {s} : Same(t)
    /\ ghost'[s].since = ghost[s].since /\ ghost[s].accepted \subseteq ghost'[s].accepted
    /\ Accepts(sub'[s]) => Accepts(sub[s])
    /\ sub[s].finalized => sub'[s].finalized
    /\ sub[s].dead => sub'[s].dead

LEMMA MovedStreams ==
  ASSUME Inv, Streams, NEW s \in Subs, Moves(s), OnStream(s)',
         fin'.snap = fin.snap, fin.todo \subseteq fin'.todo \cup {s},
         s \in fin'.todo \/ s \notin fin.todo \/ sub'[s].finalized \/ sub'[s].dead
  PROVE  Streams'
<1>1. \A t \in Subs \ {s} : Steady(t)
  BY SameSteady DEF Moves, Streams
<1>2. subs \subseteq Subs
  BY DEF Inv, TypeOK, HubType
<1>3. CutHasNoGap'
  <2> SUFFICES ASSUME NEW t \in subs', NEW i \in (ghost'[t].since + 1)..published, Accepts(sub'[t]),
                      Event(i) \notin ghost'[t].accepted
               PROVE  \E b \in Publishers : /\ pub[b].msg = Event(i) /\ pub[b].pc # "idle"
                                            /\ t \in pub[b].todo \cup pub[b].over
    BY DEF CutHasNoGap, Moves
  <2>1. t \in subs /\ t \in Subs
    BY <1>2 DEF Moves
  <2>2. Accepts(sub[t]) /\ Event(i) \notin ghost[t].accepted /\ i \in (ghost[t].since + 1)..published
    BY <2>1 DEF Moves, Same
  <2> QED BY <2>1, <2>2 DEF Streams, CutHasNoGap
<1>4. Held'
  <2>1. \A t \in Subs : /\ sub[t].finalized => sub'[t].finalized
                        /\ sub[t].dead => sub'[t].dead
    BY DEF Moves, Same
  <2>2. hubFinalized' = hubFinalized /\ subs' \subseteq subs
    BY DEF Moves
  <2> QED BY <1>2, <2>1, <2>2, SteadyHeld DEF Streams
<1>5. \A t \in Subs : OnStream(t)'
  BY <1>1, SteadyStream DEF Streams
<1>6. InPublish'
  BY DEF Moves, Streams, InPublish
<1> QED BY <1>3, <1>4, <1>5, <1>6 DEF Streams

\* The types of one stream's parts.
LEMMA StreamTypes ==
  ASSUME Inv, NEW s \in Subs
  PROVE  /\ sub[s] \in SubRec /\ sub[s].fifo \in Seq(Msg) /\ sub[s].finals \in Seq(1..NFinals)
         /\ sub[s].slots \in SlotTable /\ WholeTable(sub[s].slots)
         /\ cur[s] \in Msg /\ client[s] \in ClientRec /\ client[s].wire \in Seq(Msg)
         /\ wpc[s] \in {"none", "take", "wait", "write", "stopped", "ended"}
         /\ sub \in [Subs -> SubRec] /\ cur \in [Subs -> Msg] /\ client \in [Subs -> ClientRec]
         /\ wpc \in [Subs -> {"none", "take", "wait", "write", "stopped", "ended"}]
         /\ done \in [Subs -> BOOLEAN] /\ ghost \in [Subs -> GhostRec] /\ ghost[s] \in GhostRec
         /\ NFinals \in Nat
BY MySub, BusBounds DEF Inv, TypeOK, SubType, WriterType, HistoryType, SubRec, ClientRec, GoodRec,
   WholeTable

LEMMA AllFinalsLeft ==
  ASSUME NEW r, r.finals = AllFinals
  PROVE  FinalsLeft(r) /\ Len(r.finals) = NFinals
<1>1. Len(AllFinals) = NFinals /\ NFinals \in Nat /\ \A i \in 1..NFinals : AllFinals[i] = i
  BY BusBounds DEF AllFinals
<1>2. Len(r.finals) = NFinals /\ \A i \in 1..NFinals : r.finals[i] = i
  BY <1>1
<1>3. \A i \in 1..NFinals : i = NFinals - NFinals + i
  BY <1>1
<1> QED BY <1>1, <1>2, <1>3 DEF FinalsLeft

LEMMA SessionStreams ==
  ASSUME Inv, Streams, NEW s \in Subs, Session(s)
  PROVE  Streams'
<1>1. /\ UNCHANGED <<hubFinalized, pub, fin, placeVars, reap, published>>
      /\ \A t \in Subs \ {s} : adp'[t] = adp[t] /\ ghost'[t] = ghost[t] /\ sub'[t] = sub[t]
      /\ ghost'[s].since = published /\ ghost'[s].cutShort = ghost[s].cutShort
      /\ adp[s].pc = "none" /\ adp'[s].pc = "building"
  <2>1. ghost' = [ghost EXCEPT ![s] = [ghost[s] EXCEPT !.since = published]]
    BY StreamTypes DEF Session
  <2> QED BY <2>1, StreamTypes DEF Session, placeVars, Inv, TypeOK, ReaderType, GhostRec
<1>2. \A t \in Subs \ {s} : Same(t)
  BY <1>1 DEF Same, placeVars
<1>3. \A t \in Subs \ {s} : Steady(t)
  BY <1>2, SameSteady DEF Streams
<1>4. /\ hubFinalized => subs' = subs /\ sub'[s].finalized /\ sub'[s].finals = AllFinals
      /\ ~hubFinalized => subs' = subs \cup {s} /\ sub'[s] = sub[s]
      /\ sub'[s].started = sub[s].started /\ sub'[s].head = sub[s].head
      /\ sub'[s].failed = sub[s].failed /\ sub'[s].torn = sub[s].torn
      /\ sub'[s].closed = sub[s].closed /\ sub'[s].dead = sub[s].dead
      /\ sub'[s].fifo = sub[s].fifo
  <2> DEFINE q == [sub[s] EXCEPT !.finalized = TRUE, !.finals = AllFinals]
  <2>1. hubFinalized => sub' = [sub EXCEPT ![s] = q] /\ subs' = subs
    BY StreamTypes DEF Session, Late
  <2>2. ~hubFinalized => sub' = sub /\ subs' = subs \cup {s}
    BY DEF Session, Late
  <2>3. /\ q.finalized /\ q.finals = AllFinals /\ q.started = sub[s].started /\ q.head = sub[s].head
        /\ q.failed = sub[s].failed /\ q.torn = sub[s].torn /\ q.closed = sub[s].closed
        /\ q.dead = sub[s].dead /\ q.fifo = sub[s].fifo
    BY StreamTypes DEF SubRec
  <2> HIDE DEF q
  <2> QED BY <2>1, <2>2, <2>3, StreamTypes
<1>5. CutHasNoGap'
  <2> SUFFICES ASSUME NEW t \in subs', NEW i \in (ghost'[t].since + 1)..published, Accepts(sub'[t])
               PROVE  \/ Event(i) \in ghost'[t].accepted
                      \/ \E b \in Publishers : /\ pub[b].msg = Event(i) /\ pub[b].pc # "idle"
                                               /\ t \in pub[b].todo \cup pub[b].over
    BY <1>1 DEF CutHasNoGap
  <2>1. CASE t = s
    <3>1. published \in Nat
      BY DEF Inv, TypeOK, ReaderType
    <3> QED BY <1>1, <2>1, <3>1
  <2>2. CASE t # s
    <3>1. t \in subs /\ t \in Subs
      BY <1>4, <2>2 DEF Inv, TypeOK, HubType
    <3> QED BY <1>1, <2>2, <3>1 DEF Streams, CutHasNoGap
  <2> QED BY <2>1, <2>2
<1>6. Held'
  <2> SUFFICES ASSUME hubFinalized, NEW t \in subs
               PROVE  t \in fin.snap /\ (t \in fin.todo \/ sub'[t].finalized \/ sub'[t].dead)
    BY <1>1, <1>4 DEF Held
  <2>1. t \in Subs
    BY DEF Inv, TypeOK, HubType
  <2> QED BY <1>1, <1>4, <2>1 DEF Streams, Held
<1>7. InPublish'
  BY <1>1 DEF Streams, InPublish
<1>8. OnStream(s)'
  <2>1. OnStream(s) /\ wpc[s] = "none" /\ ~sub[s].started /\ cur[s] = NoMsg
        /\ client[s].wire = << >> /\ cur'[s] = cur[s] /\ wpc'[s] = wpc[s]
        /\ client'[s] = client[s] /\ done' = done /\ reap' = reap
    BY <1>1 DEF Streams, OnStream, Hands, Wire, placeVars
  <2>2. NoMsg.kind = "none"
    BY DEF NoMsg, Plain
  <2>3. Len(AllFinals) = NFinals
    BY BusBounds DEF AllFinals
  <2>4. FinalsLeft(sub'[s]) /\ (sub'[s].finalized => Len(sub'[s].finals) = NFinals)
    <3>1. CASE hubFinalized
      BY <1>4, <3>1, AllFinalsLeft
    <3>2. CASE ~hubFinalized
      BY <1>4, <2>1, <3>2 DEF OnStream, Wire
    <3> QED BY <3>1, <3>2
  <2>5. Hands(s)'
    BY <1>1, <1>4, <2>1 DEF OnStream, Hands
  <2>6. Wire(s)'
    BY <1>4, <2>1, <2>2, <2>4, BusBounds DEF Wire
  <2>7. Stops(s)'
    BY <1>1, <1>4, <2>1 DEF OnStream, Stops
  <2> QED BY <2>5, <2>6, <2>7 DEF OnStream
<1>9. \A t \in Subs \ {s} : OnStream(t)'
  BY <1>3, SteadyStream DEF Streams
<1> QED BY <1>5, <1>6, <1>7, <1>8, <1>9 DEF Streams

LEMMA StartStreams ==
  ASSUME Inv, Streams, NEW s \in Subs, Start(s)
  PROVE  Streams'
<1>1. /\ UNCHANGED <<subs, hubFinalized, pub, fin, cur, done, reap, published, client, ghost>>
      /\ Readers
  BY DEF Start, Readers, Inv, TypeOK, ReaderType
<1>2. CASE sub[s].started \/ sub[s].dead
  <2>1. UNCHANGED <<sub, busVars, reap>>
    BY <1>1, <1>2 DEF Start, busVars, placeVars
  <2> QED BY <1>1, <2>1, StillStreams
<1>3. CASE ~(sub[s].started \/ sub[s].dead)
  <2> DEFINE q == [sub[s] EXCEPT !.started = TRUE, !.head = TRUE]
  <2>1. sub' = [sub EXCEPT ![s] = q] /\ wpc' = [wpc EXCEPT ![s] = "take"]
    BY <1>3, StreamTypes DEF Start
  <2>2. /\ q.started /\ q.head /\ q.finals = sub[s].finals /\ q.finalized = sub[s].finalized
        /\ q.failed = sub[s].failed /\ q.torn = sub[s].torn /\ q.fifo = sub[s].fifo
        /\ q.dead = sub[s].dead /\ q.closed = sub[s].closed
    BY StreamTypes DEF SubRec
  <2> HIDE DEF q
  <2>3. sub'[s] = q /\ wpc'[s] = "take"
        /\ \A t \in Subs \ {s} : sub'[t] = sub[t] /\ wpc'[t] = wpc[t]
    BY <2>1, StreamTypes
  <2>4. Moves(s)
    BY <1>1, <2>2, <2>3 DEF Moves, Same, Readers, Accepts
  <2>5. adp'[s].pc = "serving"
    BY DEF Start, Inv, TypeOK, ReaderType
  <2>6. OnStream(s) /\ wpc[s] = "none" /\ cur[s] = NoMsg /\ NoMsg.kind = "none"
    BY <1>3 DEF Streams, OnStream, Hands, NoMsg, Plain
  <2>7. Hands(s)'
    BY <1>1, <2>2, <2>3, <2>5, <2>6 DEF OnStream, Hands
  <2>8. Wire(s)'
    BY <1>1, <1>3, <2>2, <2>3, <2>6 DEF OnStream, Wire, FinalsLeft
  <2>9. Stops(s)'
    BY <1>1, <2>2, <2>3, <2>6 DEF OnStream, Stops
  <2>10. fin'.snap = fin.snap /\ fin'.todo = fin.todo
    BY <1>1
  <2> QED BY <2>4, <2>7, <2>8, <2>9, <2>10, MovedStreams DEF OnStream
<1> QED BY <1>2, <1>3

LEMMA ReapStreams ==
  ASSUME Inv, Streams, NEW s \in Subs, Reap(s)
  PROVE  Streams'
<1>1. /\ UNCHANGED <<hubFinalized, pub, fin, wpc, cur, adp, published, client, ghost>>
      /\ subs' \subseteq subs /\ Readers /\ s \in reap /\ reap' = reap \ {s}
  BY DEF Reap, Readers
<1>2. OnStream(s) /\ sub[s].dead
  BY <1>1 DEF Streams, OnStream, Stops
<1>3. /\ \A t \in Subs \ {s} : sub'[t] = sub[t] /\ done'[t] = done[t]
      /\ Core(sub[s], sub'[s]) /\ sub'[s].fifo = sub[s].fifo /\ sub'[s].dead
      /\ sub'[s].closed = sub[s].closed
      /\ done'[s] = done[s] \/ (done'[s] /\ ~sub[s].started)
  <2> DEFINE q == [sub[s] EXCEPT !.wake = TRUE]
  <2>1. \/ sub[s].started /\ sub' = [sub EXCEPT ![s] = q] /\ done' = done
        \/ ~sub[s].started /\ sub' = sub /\ done' = [done EXCEPT ![s] = TRUE]
    BY StreamTypes DEF Reap
  <2>2. Core(sub[s], q) /\ q.fifo = sub[s].fifo /\ q.dead = sub[s].dead /\ q.closed = sub[s].closed
    BY StreamTypes DEF SubRec, Core
  <2> HIDE DEF q
  <2> QED BY <1>2, <2>1, <2>2, StreamTypes DEF Core
<1>4. Moves(s)
  BY <1>1, <1>2, <1>3 DEF Moves, Same, Readers, Accepts, Core
<1>5. Hands(s)'
  BY <1>1, <1>2, <1>3 DEF OnStream, Hands, Core
<1>6. Wire(s)'
  <2>1. OnWire(s)' = OnWire(s)
    BY <1>1, <1>3 DEF OnWire, Core
  <2> QED BY <1>1, <1>2, <1>3, <2>1 DEF OnStream, Wire, Core, FinalsLeft
<1>7. Stops(s)'
  <2>1. done'[s] => wpc[s] = "ended" \/ ghost[s].cutShort
    BY <1>2, <1>3 DEF OnStream, Stops, Hands
  <2>2. ghost[s].cutShort \/ done'[s]
    BY <1>2, <1>3 DEF OnStream, Stops
  <2> QED BY <1>1, <1>2, <1>3, <2>1, <2>2 DEF OnStream, Stops, Core
<1>8. fin'.snap = fin.snap /\ fin'.todo = fin.todo
  BY <1>1
<1> QED BY <1>3, <1>4, <1>5, <1>6, <1>7, <1>8, MovedStreams DEF OnStream

LEMMA FinalizeSubStreams ==
  ASSUME Inv, Streams, NEW s \in Subs, FinalizeSub(s)
  PROVE  Streams'
<1> DEFINE q == Finalized(sub[s])
<1>1. /\ UNCHANGED <<subs, hubFinalized, pub, placeVars, reap, published, ghost>> /\ Readers
      /\ sub' = [sub EXCEPT ![s] = q] /\ fin' = [fin EXCEPT !.todo = @ \ {s}]
  BY DEF FinalizeSub, finVars, placeVars, Readers
<1>2. CASE sub[s].dead \/ sub[s].finalized
  <2>1. q = sub[s]
    BY <1>2 DEF Finalized
  <2>2. Core(sub[s], q)
    BY <2>1 DEF Core
  <2> HIDE DEF q
  <2>3. \A t \in Subs : Steady(t)
    BY <1>1, <2>1, <2>2, AsideSteady DEF Streams
  <2>4. sub' = sub
    BY <1>1, <2>1, StreamTypes
  <2>5. Held'
    BY <1>1, <1>2, <2>4 DEF Streams, Held, Inv, TypeOK, HubType
  <2> QED BY <1>1, <2>3, <2>5, FinalizeStepStreams
<1>3. CASE ~(sub[s].dead \/ sub[s].finalized)
  <2>1. /\ q.finalized /\ q.finals = AllFinals /\ q.fifo = << >> /\ q.started = sub[s].started
        /\ q.head = sub[s].head /\ q.failed = sub[s].failed /\ q.torn = sub[s].torn
        /\ q.dead = sub[s].dead /\ q.closed = sub[s].closed
    BY <1>3, StreamTypes DEF SubRec, Finalized
  <2> HIDE DEF q
  <2>2. sub'[s] = q /\ \A t \in Subs \ {s} : sub'[t] = sub[t]
    BY <1>1, StreamTypes
  <2>3. Moves(s)
    BY <1>1, <1>3, <2>1, <2>2 DEF Moves, Same, Readers, Accepts, placeVars
  <2>4. FinalsLeft(q) /\ Len(q.finals) = NFinals
    BY <2>1, AllFinalsLeft
  <2>5. OnStream(s) /\ ~sub[s].finalized /\ cur[s].kind # "final"
    BY <1>3 DEF Streams, OnStream, Wire
  <2>6. Hands(s)'
    BY <1>1, <2>1, <2>2, <2>5 DEF OnStream, Hands, placeVars, Readers
  <2>7. FinalsLeft(sub'[s]) /\ OnWire(s)' = 0
    BY <1>1, <2>1, <2>2, <2>4, <2>5, StreamTypes DEF FinalsLeft, OnWire, placeVars
  <2>8. Wire(s)'
    BY <1>1, <2>1, <2>2, <2>4, <2>5, <2>7, StreamTypes DEF OnStream, Wire, placeVars
  <2>9. Stops(s)'
    BY <1>1, <2>1, <2>2, <2>5 DEF OnStream, Stops, placeVars
  <2>10. fin'.snap = fin.snap /\ fin'.todo = fin.todo \ {s}
    BY <1>1 DEF Inv, TypeOK, HubType
  <2> QED BY <2>1, <2>2, <2>3, <2>6, <2>8, <2>9, <2>10, MovedStreams DEF OnStream
<1> QED BY <1>2, <1>3

-----------------------------------------------------------------------------
(* Streams: the writer.                                                    *)

\* take hands m over and leaves q.
LEMMA HandStep ==
  ASSUME Inv, NEW s \in Subs, NEW m, NEW q, Hand(s, m, q),
         q.finalized = sub[s].finalized, q.dead = sub[s].dead, q.closed = sub[s].closed
  PROVE  /\ sub'[s] = q /\ cur'[s] = m /\ wpc'[s] = "write" /\ Moves(s)
         /\ UNCHANGED <<fin, adp, done, client, ghost, reap>>
<1>1. /\ sub' = [sub EXCEPT ![s] = q] /\ cur' = [cur EXCEPT ![s] = m]
      /\ wpc' = [wpc EXCEPT ![s] = "write"]
      /\ UNCHANGED <<subs, hubFinalized, pub, fin, done, adp, reap, published, client, ghost>>
  BY DEF Hand, takeVars
<1>2. /\ sub'[s] = q /\ cur'[s] = m /\ wpc'[s] = "write"
      /\ \A t \in Subs \ {s} : sub'[t] = sub[t] /\ cur'[t] = cur[t] /\ wpc'[t] = wpc[t]
  BY <1>1, StreamTypes
<1>3. Moves(s)
  BY <1>1, <1>2 DEF Moves, Same, Accepts
<1> QED BY <1>1, <1>2, <1>3

\* Where the writer stands when it takes.
LEMMA AtTake ==
  ASSUME Inv, Streams, NEW s \in Subs, Taking(s)
  PROVE  /\ OnStream(s) /\ wpc[s] = "take" /\ sub[s].started /\ cur[s] = NoMsg
         /\ NoMsg.kind = "none" /\ adp[s].pc # "none" /\ ~sub[s].dead /\ ~sub[s].torn
         /\ sub[s].failed => sub[s].finalized
BY DEF Streams, OnStream, Hands, Taking, Dying, NoMsg, Plain

LEMMA TakeHeadStreams ==
  ASSUME Inv, Streams, NEW s \in Subs, TakeHead(s)
  PROVE  Streams'
<1> DEFINE q == [sub[s] EXCEPT !.head = FALSE]
<1>1. /\ ~q.head /\ q.started = sub[s].started /\ q.finals = sub[s].finals
      /\ q.finalized = sub[s].finalized /\ q.failed = sub[s].failed /\ q.torn = sub[s].torn
      /\ q.fifo = sub[s].fifo /\ q.dead = sub[s].dead /\ q.closed = sub[s].closed
  BY StreamTypes DEF SubRec
<1>2. Hand(s, Aggregate, q) /\ Taking(s) /\ sub[s].head
  BY DEF TakeHead
<1> HIDE DEF q
<1>3. /\ sub'[s] = q /\ cur'[s] = Aggregate /\ wpc'[s] = "write" /\ Moves(s)
      /\ UNCHANGED <<fin, adp, done, client, ghost, reap>>
  BY <1>1, <1>2, HandStep
<1>4. Aggregate.kind = "head"
  BY DEF Aggregate, Plain
<1>5. Hands(s)'
  BY <1>1, <1>2, <1>3, <1>4, AtTake DEF OnStream, Hands
<1>6. Wire(s)'
  BY <1>1, <1>2, <1>3, <1>4, AtTake DEF OnStream, Wire, FinalsLeft
<1>7. Stops(s)'
  BY <1>1, <1>2, <1>3, AtTake DEF OnStream, Stops
<1> QED BY <1>3, <1>5, <1>6, <1>7, MovedStreams DEF OnStream

LEMMA NextFinal ==
  ASSUME NEW q \in Seq(1..NFinals), q # << >>, NFinals \in Nat, Len(q) <= NFinals,
         \A i \in 1..Len(q) : q[i] = NFinals - Len(q) + i
  PROVE  /\ Len(q) \in Nat /\ Len(Tail(q)) \in Nat /\ Len(Tail(q)) = Len(q) - 1
         /\ Len(Tail(q)) < NFinals /\ q[1] = NFinals - Len(Tail(q))
         /\ \A i \in 1..Len(Tail(q)) : Tail(q)[i] = NFinals - Len(Tail(q)) + i
<1>1. Len(q) \in Nat \ {0} /\ Len(Tail(q)) = Len(q) - 1
  OBVIOUS
<1>2. \A i \in 1..Len(Tail(q)) : Tail(q)[i] = q[i + 1] /\ i + 1 \in 1..Len(q)
  OBVIOUS
<1>3. q[1] = NFinals - Len(q) + 1
  BY <1>1
<1> QED BY <1>1, <1>2, <1>3

LEMMA TakeFinalStreams ==
  ASSUME Inv, Streams, NEW s \in Subs, TakeFinal(s)
  PROVE  Streams'
<1> DEFINE old == sub[s].finals
           rest == Tail(old)
           q == [sub[s] EXCEPT !.finals = rest]
<1>1. Taking(s) /\ ~sub[s].head /\ sub[s].finalized /\ old # << >> /\ Hand(s, Final(old[1]), q)
  BY DEF TakeFinal
<1>2. old \in Seq(1..NFinals) /\ FinalsLeft(sub[s]) /\ NFinals \in Nat
  BY <1>1, StreamTypes, AtTake DEF OnStream, Wire
<1>3. /\ Len(old) \in Nat /\ Len(rest) \in Nat /\ Len(rest) = Len(old) - 1
      /\ Len(rest) < NFinals /\ old[1] = NFinals - Len(rest)
      /\ \A i \in 1..Len(rest) : rest[i] = NFinals - Len(rest) + i
  <2> HIDE DEF old, q, rest
  <2>1. Len(old) <= NFinals /\ \A i \in 1..Len(old) : old[i] = NFinals - Len(old) + i
    BY <1>2 DEF FinalsLeft, old
  <2> QED BY <1>1, <1>2, <2>1, NextFinal DEF rest
<1>4. /\ ~q.head /\ q.started = sub[s].started /\ q.finals = rest
      /\ q.finalized = sub[s].finalized /\ q.failed = sub[s].failed /\ q.torn = sub[s].torn
      /\ q.fifo = sub[s].fifo /\ q.dead = sub[s].dead /\ q.closed = sub[s].closed
  BY <1>1, StreamTypes DEF SubRec
<1> HIDE DEF q, rest
<1>5. /\ sub'[s] = q /\ cur'[s] = Final(old[1]) /\ wpc'[s] = "write" /\ Moves(s)
      /\ UNCHANGED <<fin, adp, done, client, ghost, reap>>
  BY <1>1, <1>4, HandStep
<1>7. Final(old[1]).kind = "final" /\ Final(old[1]) = Final(NFinals - Len(rest))
  BY <1>3 DEF Final, Plain
<1>8. FinalsLeft(q)
  <2> HIDE DEF old
  <2>1. Len(q.finals) <= NFinals
    BY <1>2, <1>3, <1>4
  <2> QED BY <1>2, <1>3, <1>4, <2>1 DEF FinalsLeft
<1>9. Hands(s)'
  BY <1>1, <1>4, <1>5, <1>7, AtTake DEF OnStream, Hands
<1>10. OnWire(s)' = OnWire(s)
  <2>1. OnWire(s) = NFinals - Len(old) - 0
    BY <1>1, AtTake DEF OnWire
  <2>2. OnWire(s)' = NFinals - Len(rest) - 1
    BY <1>4, <1>5, <1>7 DEF OnWire
  <2> HIDE DEF old
  <2> QED BY <1>2, <1>3, <2>1, <2>2
<1>11. Wire(s)'
  <2>2. ~sub[s].failed => Closes(client[s].wire, OnWire(s))
    BY <1>1, <1>4, AtTake DEF OnStream, Wire, Aggregate, NoMsg, Plain
  <2> QED BY <1>1, <1>4, <1>5, <1>7, <1>3, <1>8, <1>10, <2>2, AtTake DEF Wire
<1>12. Stops(s)'
  BY <1>1, <1>4, <1>5, AtTake DEF OnStream, Stops
<1> QED BY <1>5, <1>9, <1>11, <1>12, MovedStreams DEF OnStream

\* Taking anything but the aggregate and the finals.
LEMMA TakeOtherStreams ==
  ASSUME Inv, Streams, NEW s \in Subs, NEW m, NEW q, Live(s), Hand(s, m, q),
         m.kind \notin {"none", "head", "final"}, Core(sub[s], q), q.closed = sub[s].closed,
         q.dead = sub[s].dead, Kinds(q)
  PROVE  Streams'
<1>1. Taking(s) /\ ~sub[s].head /\ ~sub[s].finalized
  BY DEF Live
<1>2. /\ sub'[s] = q /\ cur'[s] = m /\ wpc'[s] = "write" /\ Moves(s)
      /\ UNCHANGED <<fin, adp, done, client, ghost, reap>>
  BY HandStep DEF Core
<1>3. Hands(s)'
  BY <1>1, <1>2, AtTake DEF OnStream, Hands, Core, Kinds
<1>4. Wire(s)'
  <2>1. ~sub[s].failed => Closes(client[s].wire, 0)
    BY <1>1, AtTake DEF OnStream, Wire, Aggregate, NoMsg, Plain
  <2> QED BY <1>1, <1>2, <2>1, AtTake DEF OnStream, Wire, Core, FinalsLeft
<1>5. Stops(s)'
  BY <1>1, <1>2, AtTake DEF OnStream, Stops, Core
<1> QED BY <1>2, <1>3, <1>4, <1>5, MovedStreams DEF OnStream

LEMMA TakeFifoStreams ==
  ASSUME Inv, Streams, NEW s \in Subs, TakeFifo(s)
  PROVE  Streams'
<1> DEFINE m == sub[s].fifo[1]
           rest == Tail(sub[s].fifo)
           q == [sub[s] EXCEPT !.fifo = rest, !.bytes = @ - Size(m)]
<1>1. Live(s) /\ sub[s].fifo # << >> /\ Hand(s, m, q)
  BY DEF TakeFifo
<1>2. Kinds(sub[s]) /\ sub[s].fifo \in Seq(Msg)
  BY StreamTypes DEF Streams, OnStream, Hands, Kinds
<1>3. m.kind \in QueueKinds /\ \A i \in 1..Len(rest) : rest[i].kind \in QueueKinds
  <2>1. /\ 1 \in 1..Len(sub[s].fifo)
        /\ \A i \in 1..Len(rest) : rest[i] = sub[s].fifo[i + 1] /\ i + 1 \in 1..Len(sub[s].fifo)
    BY <1>1, <1>2
  <2> HIDE DEF rest
  <2> QED BY <1>2, <2>1 DEF Kinds
<1> HIDE DEF rest, m
<1>4. Core(sub[s], q) /\ q.closed = sub[s].closed /\ q.dead = sub[s].dead /\ q.fifo = rest
  BY StreamTypes DEF SubRec, Core
<1> HIDE DEF q
<1>5. Kinds(q) /\ m.kind \notin {"none", "head", "final"}
  BY <1>3, <1>4 DEF Kinds, QueueKinds
<1> QED BY <1>1, <1>4, <1>5, TakeOtherStreams

LEMMA TakeFrameStreams ==
  ASSUME Inv, Streams, NEW s \in Subs, TakeFrame(s)
  PROVE  Streams'
<1> DEFINE m == FrameOf(sub[s].slots, Served(sub[s].slots))
           x == TakeSlot(sub[s].slots)
           q == [sub[s] EXCEPT !.slots = x]
<1>1. Live(s) /\ Hand(s, m, q)
  BY DEF TakeFrame
<1>2. m.kind \notin {"none", "head", "final"}
  BY DEF FrameOf
<1> HIDE DEF x, m
<1>3. Core(sub[s], q) /\ q.closed = sub[s].closed /\ q.dead = sub[s].dead
      /\ q.fifo = sub[s].fifo
  BY StreamTypes DEF SubRec, Core
<1>4. Kinds(sub[s])
  BY DEF Streams, OnStream, Hands, Kinds
<1> HIDE DEF q
<1>5. Kinds(q)
  BY <1>3, <1>4 DEF Kinds
<1> QED BY <1>1, <1>2, <1>3, <1>5, TakeOtherStreams

LEMMA ParkStreams ==
  ASSUME Inv, Streams, NEW s \in Subs, Park(s)
  PROVE  Streams'
<1>1. /\ UNCHANGED <<subs, hubFinalized, pub, fin, sub, cur, done, adp, reap, published, client, ghost>>
      /\ wpc' = [wpc EXCEPT ![s] = "wait"] /\ wpc[s] = "take"
  BY DEF Park, takeVars, Starved, Live, Taking
<1>2. \A t \in Subs \ {s} : Same(t)
  BY <1>1, StreamTypes DEF Same
<1>3. Steady(s)
  BY <1>1, StreamTypes DEF Steady, Core, Kinds, Streams, OnStream, Hands, Stops
<1>4. \A t \in Subs : Steady(t)
  BY <1>2, <1>3, SameSteady DEF Streams
<1> QED BY <1>1, <1>4, SteadyStreams

LEMMA WakeStreams ==
  ASSUME Inv, Streams, NEW s \in Subs, Wake(s)
  PROVE  Streams'
<1> DEFINE q == [sub[s] EXCEPT !.wake = FALSE]
<1>1. /\ UNCHANGED <<subs, hubFinalized, pub, fin, cur, done, adp, reap, published, client, ghost>>
      /\ wpc' = [wpc EXCEPT ![s] = "take"] /\ wpc[s] = "wait" /\ sub' = [sub EXCEPT ![s] = q]
  BY StreamTypes DEF Wake, takeVars
<1>2. Core(sub[s], q) /\ q.fifo = sub[s].fifo /\ q.dead = sub[s].dead
  BY StreamTypes DEF SubRec, Core
<1> HIDE DEF q
<1>3. sub'[s] = q /\ \A t \in Subs \ {s} : sub'[t] = sub[t]
  BY <1>1, StreamTypes
<1>4. \A t \in Subs \ {s} : Same(t)
  BY <1>1, <1>3, StreamTypes DEF Same
<1>5. Steady(s)
  BY <1>1, <1>2, <1>3, StreamTypes DEF Steady, Kinds, Streams, OnStream, Hands, Stops
<1>6. \A t \in Subs : Steady(t)
  BY <1>4, <1>5, SameSteady DEF Streams
<1> QED BY <1>1, <1>6, SteadyStreams

LEMMA StopStreams ==
  ASSUME Inv, Streams, NEW s \in Subs, Stop(s)
  PROVE  Streams'
<1>1. /\ UNCHANGED <<subs, hubFinalized, pub, fin, sub, cur, done, adp, reap, published, client, ghost>>
      /\ wpc' = [wpc EXCEPT ![s] = "stopped"] /\ wpc[s] = "take"
  BY DEF Stop
<1>2. wpc'[s] = "stopped" /\ \A t \in Subs \ {s} : wpc'[t] = wpc[t]
  BY <1>1, StreamTypes
<1>3. Moves(s)
  BY <1>1, <1>2 DEF Moves, Same
<1>4. OnStream(s) /\ cur[s] = NoMsg
  BY <1>1 DEF Streams, OnStream, Hands
<1>5. Hands(s)'
  BY <1>1, <1>2, <1>4 DEF OnStream, Hands
<1>6. Wire(s)'
  BY <1>1, <1>4 DEF OnStream, Wire, OnWire
<1>7. Stops(s)'
  <2>1. sub[s].dead => ghost[s].cutShort
    BY <1>1, <1>4 DEF OnStream, Stops
  <2>2. \/ sub[s].closed \/ sub[s].failed \/ sub[s].dead
        \/ sub[s].finalized /\ sub[s].finals = << >> /\ ~sub[s].head
    BY <1>4 DEF Stop, Dying, Starved, OnStream, Stops
  <2> QED BY <1>1, <1>2, <1>4, <2>1, <2>2 DEF OnStream, Stops
<1>8. fin'.snap = fin.snap /\ fin'.todo = fin.todo
  BY <1>1
<1> QED BY <1>3, <1>5, <1>6, <1>7, <1>8, MovedStreams DEF OnStream

LEMMA ExitStreams ==
  ASSUME Inv, Streams, NEW s \in Subs, Exit(s)
  PROVE  Streams'
<1>1. /\ UNCHANGED <<hubFinalized, pub, fin, sub, cur, adp, reap, published, client, ghost>>
      /\ wpc' = [wpc EXCEPT ![s] = "ended"] /\ wpc[s] = "stopped"
      /\ done' = [done EXCEPT ![s] = TRUE] /\ subs' = subs \ {s}
  BY DEF Exit
<1>2. wpc'[s] = "ended" /\ done'[s] /\ \A t \in Subs \ {s} : wpc'[t] = wpc[t] /\ done'[t] = done[t]
  BY <1>1, StreamTypes
<1>3. Moves(s)
  BY <1>1, <1>2 DEF Moves, Same
<1>4. OnStream(s) /\ cur[s] = NoMsg
  BY <1>1 DEF Streams, OnStream, Hands
<1>5. Hands(s)'
  BY <1>1, <1>2, <1>4 DEF OnStream, Hands
<1>6. Wire(s)'
  BY <1>1, <1>4 DEF OnStream, Wire, OnWire
<1>7. Stops(s)'
  BY <1>1, <1>2, <1>4 DEF OnStream, Stops
<1>8. fin'.snap = fin.snap /\ fin'.todo = fin.todo
  BY <1>1
<1> QED BY <1>3, <1>5, <1>6, <1>7, <1>8, MovedStreams DEF OnStream

\* Where the writer stands when a write ends.
LEMMA AtWrite ==
  ASSUME Inv, Streams, NEW s \in Subs, wpc[s] = "write"
  PROVE  /\ OnStream(s) /\ sub[s].started /\ ~sub[s].head /\ cur[s].kind # "none"
         /\ adp[s].pc # "none" /\ NoMsg.kind = "none"
BY DEF Streams, OnStream, Hands, Wire, NoMsg, Plain

\* A message more at the end of what closes with k finals: k of them still, or one more.
LEMMA ClosesOn ==
  ASSUME NEW w \in Seq(Msg), NEW k \in Nat, Closes(w, k), NEW m \in Msg
  PROVE  /\ Closes(Append(w, m), 0)
         /\ m = Final(k + 1) => Closes(Append(w, m), k + 1)
<1>1. /\ Len(w) \in Nat /\ Len(w) > 0 /\ w[1] = Aggregate /\ Len(w) > k
      /\ \A i \in 1..k : w[Len(w) - k + i] = Final(i)
  BY DEF Closes
<1>2. /\ Len(Append(w, m)) = Len(w) + 1 /\ Append(w, m)[Len(w) + 1] = m
      /\ \A i \in 1..Len(w) : Append(w, m)[i] = w[i]
  BY AppendTo
<1>3. Closes(Append(w, m), 0)
  BY <1>1, <1>2 DEF Closes
<1>4. ASSUME m = Final(k + 1) PROVE Closes(Append(w, m), k + 1)
  <2> SUFFICES ASSUME NEW i \in 1..(k + 1)
               PROVE  Append(w, m)[Len(Append(w, m)) - (k + 1) + i] = Final(i)
    <3>1. Len(Append(w, m)) > k + 1 /\ Append(w, m)[1] = Aggregate
      BY <1>1, <1>2
    <3> QED BY <3>1 DEF Closes
  <2>1. Len(Append(w, m)) - (k + 1) + i = Len(w) - k + i
    BY <1>1, <1>2
  <2>2. CASE i = k + 1
    <3>1. Len(w) - k + i = Len(w) + 1
      BY <1>1, <2>2
    <3> QED BY <1>2, <1>4, <2>1, <2>2, <3>1
  <2>3. CASE i # k + 1
    <3>1. i \in 1..k /\ Len(w) - k + i \in 1..Len(w)
      BY <1>1, <2>3
    <3> QED BY <1>1, <1>2, <2>1, <3>1
  <2> QED BY <2>2, <2>3
<1> QED BY <1>3, <1>4

\* What a peer has read of the stream once a write has ended well.
LEMMA ReadOn ==
  ASSUME NEW c \in ClientRec, NEW m \in Msg
  PROVE  Received(c, m).wire = IF Picture(m) THEN c.wire ELSE Append(c.wire, m)
BY DEF Received, Picture, ClientRec

LEMMA WriteOkStreams ==
  ASSUME Inv, Streams, NEW s \in Subs, WriteOk(s)
  PROVE  Streams'
<1> DEFINE m == cur[s]
           w == client[s].wire
           n == NFinals - Len(sub[s].finals)
<1>1. /\ UNCHANGED <<subs, hubFinalized, pub, fin, sub, done, adp, reap, published, ghost>>
      /\ wpc' = [wpc EXCEPT ![s] = "take"] /\ wpc[s] = "write"
      /\ cur' = [cur EXCEPT ![s] = NoMsg] /\ client' = [client EXCEPT ![s] = Received(@, m)]
  BY DEF WriteOk, writeVars
<1>2. /\ wpc'[s] = "take" /\ cur'[s] = NoMsg
      /\ client'[s].wire = (IF Picture(m) THEN w ELSE Append(w, m))
      /\ \A t \in Subs \ {s} : wpc'[t] = wpc[t] /\ cur'[t] = cur[t] /\ client'[t] = client[t]
  BY <1>1, StreamTypes, ReadOn
<1>3. Moves(s)
  BY <1>1, <1>2 DEF Moves, Same
<1>4. /\ OnStream(s) /\ sub[s].started /\ ~sub[s].head /\ m.kind # "none"
      /\ adp[s].pc # "none" /\ NoMsg.kind = "none"
  BY <1>1, AtWrite
<1>5. Hands(s)'
  BY <1>1, <1>2, <1>4 DEF OnStream, Hands
<1>6. m \in Msg /\ w \in Seq(Msg) /\ n \in Nat
  BY <1>4, StreamTypes DEF OnStream, Wire, FinalsLeft
<1>7. ASSUME ~sub[s].failed
      PROVE  Closes(client'[s].wire, IF sub[s].finalized THEN n ELSE 0)
  <2>1. CASE m = Aggregate /\ w = << >> /\ (sub[s].finalized => n = 0)
    <3>1. client'[s].wire = Append(w, Aggregate)
      BY <1>2, <2>1 DEF Picture, Aggregate, Plain
    <3>2. Closes(Append(<< >>, Aggregate), 0)
      BY DEF Closes
    <3> QED BY <2>1, <3>1, <3>2
  <2>2. CASE m.kind = "final"
    <3>1. sub[s].finalized /\ m = Final(n) /\ n \in Nat \ {0}
      BY <1>4, <1>6, <2>2, StreamTypes DEF OnStream, Wire
    <3>2. OnWire(s) = n - 1 /\ (n - 1) + 1 = n /\ n - 1 \in Nat
      BY <2>2, <3>1 DEF OnWire
    <3>3. Closes(w, n - 1)
      <4>1. Aggregate.kind = "head"
        BY DEF Aggregate, Plain
      <4> QED BY <1>4, <1>7, <2>2, <3>1, <3>2, <4>1 DEF OnStream, Wire
    <3>4. client'[s].wire = Append(w, m)
      BY <1>2, <2>2 DEF Picture
    <3> HIDE DEF n, w, m
    <3> QED BY <1>6, <3>1, <3>2, <3>3, <3>4, ClosesOn
  <2>3. CASE m.kind \notin {"head", "final"}
    <3>1. sub[s].finalized => n = 0
      BY <1>4, <1>6, <2>3, StreamTypes DEF OnStream, Wire, FinalsLeft
    <3>2. Closes(w, IF sub[s].finalized THEN n - 0 ELSE 0)
      BY <1>4, <1>7, <2>3 DEF OnStream, Wire, OnWire, Aggregate, Plain
    <3>3. Closes(w, 0)
      <4> HIDE DEF n, w
      <4> QED BY <3>1, <3>2
    <3> HIDE DEF n, w, m
    <3>4. CASE client'[s].wire = w
      BY <3>1, <3>3, <3>4
    <3>5. CASE client'[s].wire = Append(w, m)
      BY <1>6, <3>1, <3>3, <3>5, ClosesOn
    <3> QED BY <1>2, <3>4, <3>5
  <2>4. m.kind # "head" \/ (m = Aggregate /\ w = << >> /\ (sub[s].finalized => n = 0))
    BY <1>4, <1>6, <1>7 DEF OnStream, Wire
  <2> QED BY <2>1, <2>2, <2>3, <2>4
<1>8. Wire(s)'
  <2>1. OnWire(s)' = n
    BY <1>1, <1>2, <1>4, <1>6 DEF OnWire
  <2>2. NoMsg.kind # "head"
    BY <1>4
  <2> QED BY <1>1, <1>2, <1>4, <1>7, <2>1, <2>2 DEF OnStream, Wire
<1>9. Stops(s)'
  BY <1>1, <1>2, <1>4 DEF OnStream, Stops
<1>10. fin'.snap = fin.snap /\ fin'.todo = fin.todo
  BY <1>1
<1> QED BY <1>3, <1>5, <1>8, <1>9, <1>10, MovedStreams DEF OnStream

LEMMA WriteFailStreams ==
  ASSUME Inv, Streams, NEW s \in Subs, NEW torn \in BOOLEAN, WriteFail(s, torn)
  PROVE  Streams'
<1> DEFINE q == [sub[s] EXCEPT !.failed = TRUE, !.torn = @ \/ torn]
           c == [client[s] EXCEPT !.torn = @ \/ torn]
<1>1. /\ UNCHANGED <<subs, hubFinalized, pub, fin, done, adp, reap, published, ghost>>
      /\ wpc' = [wpc EXCEPT ![s] = "take"] /\ wpc[s] = "write"
      /\ cur' = [cur EXCEPT ![s] = NoMsg]
      /\ sub' = [sub EXCEPT ![s] = q] /\ client' = [client EXCEPT ![s] = c]
  BY StreamTypes DEF WriteFail, writeVars
<1>2. /\ q.failed /\ q.started = sub[s].started /\ q.head = sub[s].head /\ q.fifo = sub[s].fifo
      /\ q.finals = sub[s].finals /\ q.finalized = sub[s].finalized /\ q.dead = sub[s].dead
      /\ q.closed = sub[s].closed /\ c.wire = client[s].wire
  BY StreamTypes DEF SubRec, ClientRec
<1> HIDE DEF q, c
<1>3. /\ wpc'[s] = "take" /\ cur'[s] = NoMsg /\ sub'[s] = q /\ client'[s] = c
      /\ \A t \in Subs \ {s} : /\ wpc'[t] = wpc[t] /\ cur'[t] = cur[t]
                               /\ client'[t] = client[t] /\ sub'[t] = sub[t]
  BY <1>1, StreamTypes
<1>4. Moves(s)
  BY <1>1, <1>2, <1>3 DEF Moves, Same, Accepts
<1>5. /\ OnStream(s) /\ sub[s].started /\ ~sub[s].head
      /\ adp[s].pc # "none" /\ NoMsg.kind = "none"
  BY <1>1, AtWrite
<1>6. Hands(s)'
  <2>1. Kinds(sub[s]) /\ adp'[s].pc # "none"
    BY <1>1, <1>5 DEF OnStream, Hands, Kinds
  <2> QED BY <1>2, <1>3, <1>5, <2>1 DEF Hands, Kinds
<1>7. Wire(s)'
  BY <1>2, <1>3, <1>5 DEF OnStream, Wire, FinalsLeft
<1>8. Stops(s)'
  BY <1>1, <1>2, <1>3, <1>5 DEF OnStream, Stops
<1>9. fin'.snap = fin.snap /\ fin'.todo = fin.todo
  BY <1>1
<1> QED BY <1>4, <1>6, <1>7, <1>8, <1>9, MovedStreams DEF OnStream

-----------------------------------------------------------------------------
LEMMA InitStreams == Init => Streams
<1> SUFFICES ASSUME Init PROVE Streams
  OBVIOUS
<1>1. InPublish
  BY DEF Init, InPublish, NoPub
<1>2. CutHasNoGap /\ Held
  BY DEF Init, CutHasNoGap, Held
<1>3. ASSUME NEW s \in Subs PROVE OnStream(s)
  <2>1. NoMsg.kind = "none"
    BY DEF NoMsg, Plain
  <2>2. Hands(s)
    BY DEF Init, Hands, NewSub
  <2>3. Wire(s)
    BY <2>1, BusBounds DEF Init, Wire, NewSub, FinalsLeft
  <2>4. Stops(s)
    BY DEF Init, Stops, NewSub
  <2> QED BY <2>2, <2>3, <2>4 DEF OnStream
<1> QED BY <1>1, <1>2, <1>3 DEF Streams

LEMMA NextStreams == Inv /\ Streams /\ [Next]_vars => Streams'
<1> SUFFICES ASSUME Inv, Streams, [Next]_vars PROVE Streams'
  OBVIOUS
<1>1. ASSUME NEW s \in Subs, Session(s) \/ Start(s) \/ Send(s) \/ Close(s) \/ Reap(s) PROVE Streams'
  BY <1>1, SessionStreams, StartStreams, SendStreams, CloseStreams, ReapStreams
<1>2. ASSUME NEW s \in Subs, DropWatches(s) PROVE Streams'
  BY <1>2, ElsewhereStreams DEF DropWatches, placeVars
<1>3. ASSUME NEW s \in Subs, Watch(s) PROVE Streams'
  BY <1>3, WatchAddSlotStreams, WatchResolveStreams, WatchAddStreams, WatchAnswerStreams,
     UnwatchLeaveStreams, UnwatchAnswerStreams, ResyncStreams, OfferStreams, OfferChangedStreams
  DEF Watch
<1>4. ASSUME NEW s \in Subs, Writer(s) PROVE Streams'
  BY <1>4, TakeHeadStreams, TakeFinalStreams, TakeFifoStreams, TakeFrameStreams, ParkStreams,
     WakeStreams, StopStreams, ExitStreams
  DEF Writer
<1>5. ASSUME NEW s \in Subs, Write(s) PROVE Streams'
  BY <1>5, WriteOkStreams, WriteFailStreams DEF Write
<1>6. ASSUME NEW a \in Actors, PublishEvent(a) \/ Publishing(a) PROVE Streams'
  BY <1>6, PublishEventStreams, PublishUnlockStreams, PublishToStreams, PublishKillStreams
  DEF Publishing
<1>7. ASSUME NEW p \in Panes, ClosePane(p) \/ PaneClosed(p) \/ FramerStop(p) PROVE Streams'
  BY <1>7, ElsewhereStreams DEF ClosePane, PaneClosed, FramerStop, closeVars, placeVars
<1>8. ASSUME NEW p \in Panes, Closing(p) PROVE Streams'
  BY <1>7, <1>8, AnnounceClosedStreams, PaneClosedToStreams DEF Closing
<1>9. CASE FinalizeBegin \/ Finalizing
  BY <1>9, FinalizeBeginStreams, FinalizeOnStreams, FinalizeSubStreams, FinalizeKillStreams
  DEF Finalizing
<1>10. CASE UNCHANGED vars
  BY <1>10, ElsewhereStreams DEF vars, placeVars
<1> QED BY <1>1, <1>2, <1>3, <1>4, <1>5, <1>6, <1>7, <1>8, <1>9, <1>10 DEF Next, Killing

\* What has been said of a stream is what FinalizeMissesNobody says of it.
LEMMA StreamsHear == Inv /\ Streams => SubscribersHearAll
<1> SUFFICES ASSUME Inv, Streams PROVE SubscribersHearAll
  OBVIOUS
<1>1. ASSUME NEW s \in Subs, done[s], sub[s].finalized, ~sub[s].closed, ~sub[s].failed,
             ~ghost[s].cutShort
      PROVE  Closes(client[s].wire, NFinals)
  <2>1. OnStream(s)
    BY DEF Streams
  <2>2. wpc[s] = "ended" /\ sub[s].finals = << >> /\ ~sub[s].head
    BY <1>1, <2>1 DEF OnStream, Stops
  <2>3. sub[s].started /\ cur[s] = NoMsg
    BY <2>1, <2>2 DEF OnStream, Hands
  <2>4. NoMsg.kind = "none" /\ Aggregate.kind = "head" /\ NFinals \in Nat
    BY BusBounds DEF NoMsg, Aggregate, Plain
  <2>5. OnWire(s) = NFinals
    BY <2>2, <2>3, <2>4 DEF OnWire
  <2>6. NoMsg # Aggregate
    BY <2>4
  <2> QED BY <1>1, <2>1, <2>2, <2>3, <2>5, <2>6 DEF OnStream, Wire
<1>2. FinalizeMissesNobody
  BY <1>1 DEF Streams, Held, FinalizeMissesNobody, Closes
<1> QED BY <1>2 DEF Streams, SubscribersHearAll
-----------------------------------------------------------------------------
(* What the slot operators do to the slot of one pane.                     *)

\* Of p, u shows no more than t.
Less(t, u, p) ==
    Has(u, p) => /\ Has(t, p)
                 /\ u.at[p].full => t.at[p].full
                 /\ u.at[p].active => t.at[p].active

LEMMA LessSame == ASSUME NEW t, NEW p PROVE Less(t, t, p)
BY DEF Less

LEMMA LessNone == ASSUME NEW t, NEW p PROVE Less(t, NoSlots, p) /\ ~Has(NoSlots, p)
BY DEF Less, NoSlots, Has

LEMMA LessAdd ==
  ASSUME NEW t, WholeTable(t), NEW p \in Panes, NEW q
  PROVE  /\ q # p => Less(t, AddSlot(t, p), q)
         /\ ~Has(t, p) => ~AddSlot(t, p).at[p].full /\ ~AddSlot(t, p).at[p].active
         /\ Has(t, p) => AddSlot(t, p) = t
BY DEF Less, AddSlot, Has, EmptySlot

LEMMA LessDrop ==
  ASSUME NEW t, WholeTable(t), NEW p, NEW q
  PROVE  Less(t, DropSlot(t, p), q) /\ ~Has(DropSlot(t, p), p)
BY DEF Less, DropSlot, Has, Restrict

\* Changing one slot changes no other.
LEMMA SetSlot ==
  ASSUME NEW t, WholeTable(t), NEW p, Has(t, p), NEW e
  PROVE  /\ \A q : Has([t EXCEPT !.at[p] = e], q) <=> Has(t, q)
         /\ \A q : Has(t, q) /\ q # p => [t EXCEPT !.at[p] = e].at[q] = t.at[q]
         /\ [t EXCEPT !.at[p] = e].at[p] = e
<1>1. t = [at |-> t.at, order |-> t.order, next |-> t.next]
  BY TableParts DEF WholeTable
<1>2. [t EXCEPT !.at[p] = e] = [at |-> [t.at EXCEPT ![p] = e], order |-> t.order, next |-> t.next]
  BY <1>1
<1> QED BY <1>2 DEF Has

LEMMA LessActivate ==
  ASSUME NEW t, WholeTable(t), NEW p, NEW q
  PROVE  /\ q # p => Less(t, Activate(t, p), q)
         /\ Has(Activate(t, p), q) => Has(t, q)
         /\ Has(t, p) => (Activate(t, p).at[p].full => t.at[p].full)
<1>1. CASE ~Has(t, p)
  BY <1>1 DEF Activate, Less
<1>2. CASE Has(t, p)
  <2> DEFINE e == [t.at[p] EXCEPT !.active = TRUE]
  <2>1. Activate(t, p) = [t EXCEPT !.at[p] = e]
    BY <1>2 DEF Activate
  <2>2. t.at[p] \in Slot
    BY <1>2, TableParts DEF WholeTable, Has
  <2>3. e.full => t.at[p].full
    BY <2>2 DEF Slot
  <2> HIDE DEF e
  <2> DEFINE u == [t EXCEPT !.at[p] = e]
  <2>4. /\ Has(u, q) <=> Has(t, q)
        /\ Has(t, q) /\ q # p => u.at[q] = t.at[q]
        /\ u.at[p] = e
    BY <1>2, SetSlot
  <2> HIDE DEF u
  <2>5. q # p => Less(t, u, q)
    BY <2>4 DEF Less
  <2> QED BY <1>2, <2>1, <2>3, <2>4, <2>5 DEF u
<1> QED BY <1>1, <1>2

\* u is t with rows, or a change to tell of, offered to p's slot.
Offered(t, p, u) ==
    u = OfferRaw(t, p) \/ \E key, lines : u = OfferRows(t, p, key, lines)

\* A slot offered to is as active as it was.
LEMMA LessOffer ==
  ASSUME NEW t, WholeTable(t), NEW p, Has(t, p), NEW u, Offered(t, p, u), NEW q
  PROVE  /\ q # p => Less(t, u, q)
         /\ Has(u, q) => Has(t, q)
         /\ u.at[p].active => t.at[p].active
<1>1. t.at[p] \in Slot
  BY TableParts DEF WholeTable, Has
<1>2. \E e : u = [t EXCEPT !.at[p] = e] /\ e.active = t.at[p].active
  <2>1. CASE u = OfferRaw(t, p)
    <3> DEFINE e == [t.at[p] EXCEPT !.raw = TRUE, !.full = TRUE]
    <3>1. u = [t EXCEPT !.at[p] = e]
      BY <2>1 DEF OfferRaw, Has
    <3>2. e.active = t.at[p].active
      BY <1>1 DEF Slot
    <3> HIDE DEF e
    <3> QED BY <3>1, <3>2
  <2>2. ASSUME NEW key, NEW lines, u = OfferRows(t, p, key, lines)
        PROVE  \E e : u = [t EXCEPT !.at[p] = e] /\ e.active = t.at[p].active
    <3> DEFINE new == Override(lines, IF key THEN NoRows ELSE t.at[p].rows)
               e == [active |-> t.at[p].active, full |-> TRUE, key |-> t.at[p].key \/ key,
                     raw |-> FALSE, rows |-> new]
    <3>1. u = [t EXCEPT !.at[p] = e]
      BY <2>2 DEF OfferRows, Has
    <3>2. e.active = t.at[p].active
      OBVIOUS
    <3> HIDE DEF e
    <3> QED BY <3>1, <3>2
  <2> QED BY <2>1, <2>2 DEF Offered
<1>3. PICK e : u = [t EXCEPT !.at[p] = e] /\ e.active = t.at[p].active
  BY <1>2
<1> QED BY <1>3, SetSlot DEF Less

\* What a take leaves of the slots, and what it shows.
LEMMA LessTake ==
  ASSUME NEW t, WholeTable(t), HasPending(t), NEW q
  PROVE  /\ Less(t, TakeSlot(t), q)
         /\ Pending(t, Served(t)) /\ FrameOf(t, Served(t)).pane = Served(t)
<1> DEFINE p == Served(t)
           e == [EmptySlot EXCEPT !.active = t.at[p].active]
           v == [t EXCEPT !.at[p] = e]
<1>1. Pending(t, p) /\ Has(t, p)
  BY ServedIsPending DEF Pending
<1>2. ~e.full /\ e.active = t.at[p].active
  BY DEF EmptySlot
<1>3. TakeSlot(t).at = v.at
  <2> HIDE DEF e
  <2>1. t = [at |-> t.at, order |-> t.order, next |-> t.next]
    BY TableParts DEF WholeTable
  <2>2. TakeSlot(t) = [t EXCEPT !.at[p] = e, !.next = ServedIndex(t)]
    BY DEF TakeSlot, e
  <2> HIDE DEF p
  <2> QED BY <2>1, <2>2
<1>4. Less(t, v, q)
  <2> HIDE DEF e, p
  <2> QED BY <1>1, <1>2, SetSlot DEF Less
<1>5. FrameOf(t, p).pane = p
  BY DEF FrameOf
<1> HIDE DEF v
<1> QED BY <1>1, <1>3, <1>4, <1>5 DEF Less, Has


-----------------------------------------------------------------------------
(* What a step must keep of one subscriber's frames of one pane.           *)

\* Whether a frame of p can be taken, of the slots x.
Ready(x, p) == Has(x, p) /\ x.at[p].active

\* The places in which s waits for p are left alone, or are fewer.
Elsewhere(s, p) ==
    /\ pane[p].pc = "gone" => pane'[p].pc = "gone"
    /\ s \in subs' /\ Past(s, p)' => s \in subs /\ Past(s, p)
    /\ pub'[p].pc = "loop" /\ s \in pub'[p].todo => pub[p].pc = "loop" /\ s \in pub[p].todo

\* No picture of p can come that could not come before.
Soft(s, p) ==
    /\ Has(sub'[s].slots, p) => /\ Has(sub[s].slots, p)
                                /\ sub'[s].slots.at[p].full => sub[s].slots.at[p].full
    /\ p \in sub'[s].closedPanes <=> p \in sub[s].closedPanes
    /\ watcher[s][p] = "none" => watcher'[s][p] = "none"
    /\ adp'[s].pc = "none" => adp[s].pc = "none"
    /\ Making(s, p)' => Making(s, p)

LEMMA SoftClean ==
  ASSUME NEW s, NEW p, Closed(s, p), Soft(s, p)
  PROVE  /\ p \in sub'[s].closedPanes => ~Has(sub'[s].slots, p)
         /\ adp'[s].pc = "none" => ~Has(sub'[s].slots, p) /\ watcher'[s][p] = "none"
         /\ Clean(s, p) => Clean(s, p)'
BY DEF Soft, Closed, Clean

\* What is left to show of s and p, once Soft has been seen to or its exceptions.
LEMMA FramesStep ==
  ASSUME NEW s, NEW p, Closed(s, p), ToldFirst(s, p),
         p \in sub'[s].closedPanes => ~Has(sub'[s].slots, p),
         adp'[s].pc = "none" => ~Has(sub'[s].slots, p) /\ watcher'[s][p] = "none",
         Clean(s, p) => Clean(s, p)',
         pane[p].pc = "gone" => pane'[p].pc = "gone",
         s \in subs' /\ Past(s, p)' => Clean(s, p)',
         Hears(s, p)' => Hears(s, p) \/ (pane'[p].pc = "gone" /\ Clean(s, p)'),
         Read(s, p)' => ~(Picture(cur'[s]) /\ cur'[s].pane = p),
         adp'[s].pc # "gone" => ~sub'[s].closed,
         s \notin Silent /\ Picture(cur'[s]) /\ cur'[s].pane = p => p \in client'[s].told,
         s \notin Silent /\ Ready(sub'[s].slots, p) /\ Lives(sub'[s]) => WillBeTold(s, p)'
  PROVE  Closed(s, p)' /\ ToldFirst(s, p)'
<1>1. Closed(s, p)'
  BY DEF Closed
<1>2. ToldFirst(s, p)'
  BY DEF ToldFirst, Ready
<1> QED BY <1>1, <1>2

\* What s's writer has in hand, and what its peer has read, stand.
Handed(s) == cur'[s] = cur[s] /\ client'[s] = client[s]

\* A message more in the queue, or none.
Longer(s, p) ==
    \/ sub'[s].fifo = sub[s].fifo
    \/ sub'[s].fifo = << >> /\ ~Lives(sub'[s])
    \/ \E m \in Msg : /\ sub'[s].fifo = Append(sub[s].fifo, m)
                      /\ m = ClosedEv(p) => pub[p].pc = "loop" /\ s \in pub[p].todo
                      /\ Untells(m, p) => ~Has(sub'[s].slots, p)

\* What is told of p once the queue is empty is told with one message more.
LEMMA LongerTells ==
  ASSUME Inv, NEW s \in Subs, NEW p, Handed(s), NEW m \in Msg,
         sub'[s].fifo = Append(sub[s].fifo, m), ~Untells(m, p), WillBeTold(s, p)
  PROVE  WillBeTold(s, p)'
<1> DEFINE q == sub[s].fifo
           u == sub'[s].fifo
<1>1. /\ Len(u) = Len(q) + 1 /\ Len(q) \in Nat /\ u[Len(q) + 1] = m
      /\ \A i \in 1..Len(q) : u[i] = q[i]
  BY StreamTypes, AppendTo
<1>2. ASSUME NEW i \in 1..Len(q), q[i] = Watching(p), \A j \in (i + 1)..Len(q) : ~Untells(q[j], p)
      PROVE  /\ i \in 1..Len(u) /\ u[i] = Watching(p)
             /\ \A j \in (i + 1)..Len(u) : ~Untells(u[j], p)
  <2> SUFFICES ASSUME NEW j \in (i + 1)..Len(u) PROVE ~Untells(u[j], p)
    BY <1>1, <1>2
  <2>1. j \in (i + 1)..Len(q) \/ j = Len(q) + 1
    BY <1>1
  <2> QED BY <1>1, <1>2, <2>1
<1>3. ASSUME \A j \in 1..Len(q) : ~Untells(q[j], p)
      PROVE  \A j \in 1..Len(u) : ~Untells(u[j], p)
  <2> SUFFICES ASSUME NEW j \in 1..Len(u) PROVE ~Untells(u[j], p)
    OBVIOUS
  <2>1. j \in 1..Len(q) \/ j = Len(q) + 1
    BY <1>1
  <2> QED BY <1>1, <1>3, <2>1
<1>4. CASE \E i \in 1..Len(q) : q[i] = Watching(p) /\ \A j \in (i + 1)..Len(q) : ~Untells(q[j], p)
  <2>1. PICK i \in 1..Len(q) : q[i] = Watching(p) /\ \A j \in (i + 1)..Len(q) : ~Untells(q[j], p)
    BY <1>4
  <2> HIDE DEF q, u
  <2>2. \E k \in 1..Len(u) : u[k] = Watching(p) /\ \A j \in (k + 1)..Len(u) : ~Untells(u[j], p)
    BY <1>2, <2>1
  <2> QED BY <2>2 DEF WillBeTold, u
<1>5. CASE /\ \A j \in 1..Len(q) : ~Untells(q[j], p)
           /\ ~Untells(cur[s], p) /\ (cur[s] = Watching(p) \/ p \in client[s].told)
  <2> HIDE DEF q
  <2>1. /\ \A j \in 1..Len(u) : ~Untells(u[j], p)
        /\ ~Untells(cur'[s], p) /\ (cur'[s] = Watching(p) \/ p \in client'[s].told)
    BY <1>3, <1>5 DEF Handed
  <2> QED BY <2>1 DEF WillBeTold, u
<1> QED BY <1>4, <1>5 DEF WillBeTold

\* Nothing of s's queue, or of its writer, brings p closer to being told closed.
LEMMA LongerHears ==
  ASSUME Inv, NEW s \in Subs, NEW p \in Panes, Handed(s), Elsewhere(s, p), Longer(s, p), Hears(s, p)'
  PROVE  Hears(s, p)
<1>1. CASE Read(s, p)' \/ cur'[s] = ClosedEv(p) \/ (pub'[p].pc = "loop" /\ s \in pub'[p].todo)
  BY <1>1 DEF Hears, Read, Handed, Elsewhere
<1>2. CASE \E i \in 1..Len(sub'[s].fifo) : sub'[s].fifo[i] = ClosedEv(p)
  <2>1. PICK i \in 1..Len(sub'[s].fifo) : sub'[s].fifo[i] = ClosedEv(p)
    BY <1>2
  <2>2. CASE sub'[s].fifo = sub[s].fifo
    BY <2>1, <2>2 DEF Hears
  <2>3. CASE sub'[s].fifo = << >>
    BY <2>1, <2>3
  <2>4. ASSUME NEW m \in Msg, sub'[s].fifo = Append(sub[s].fifo, m),
               m = ClosedEv(p) => pub[p].pc = "loop" /\ s \in pub[p].todo
        PROVE  Hears(s, p)
    <3>1. i \in 1..Len(sub[s].fifo) \/ i = Len(sub[s].fifo) + 1
      BY <2>1, <2>4, StreamTypes, AppendTo
    <3>2. \/ i \in 1..Len(sub[s].fifo) /\ sub[s].fifo[i] = ClosedEv(p)
          \/ m = ClosedEv(p)
      BY <2>1, <2>4, <3>1, StreamTypes, AppendTo
    <3> QED BY <2>4, <3>2 DEF Hears
  <2> QED BY <2>2, <2>3, <2>4 DEF Longer
<1> QED BY <1>1, <1>2 DEF Hears

\* A step that brings nothing but messages to the queue keeps what is held of p.
LEMMA GentleFrames ==
  ASSUME Inv, NEW s \in Subs, NEW p \in Panes, Closed(s, p), ToldFirst(s, p),
         Soft(s, p), Elsewhere(s, p), Handed(s), Longer(s, p),
         Ready(sub'[s].slots, p) => Ready(sub[s].slots, p),
         Lives(sub'[s]) => Lives(sub[s]),
         adp'[s].pc # "gone" => ~sub'[s].closed
  PROVE  Closed(s, p)' /\ ToldFirst(s, p)'
<1>1. s \in subs' /\ Past(s, p)' => Clean(s, p)'
  BY SoftClean DEF Elsewhere, Past, Closed
<1>2. Hears(s, p)' => Hears(s, p)
  BY LongerHears
<1>3. Read(s, p)' => ~(Picture(cur'[s]) /\ cur'[s].pane = p)
  BY DEF Handed, Read, Closed
<1>4. s \notin Silent /\ Picture(cur'[s]) /\ cur'[s].pane = p => p \in client'[s].told
  BY DEF Handed, ToldFirst
<1>5. ASSUME s \notin Silent, Ready(sub'[s].slots, p), Lives(sub'[s]) PROVE WillBeTold(s, p)'
  <2>1. WillBeTold(s, p) /\ Has(sub'[s].slots, p)
    BY <1>5 DEF ToldFirst, Ready
  <2>2. CASE sub'[s].fifo = sub[s].fifo
    BY <2>1, <2>2 DEF WillBeTold, Handed
  <2>3. CASE sub'[s].fifo # sub[s].fifo
    <3>1. PICK m \in Msg : sub'[s].fifo = Append(sub[s].fifo, m) /\ ~Untells(m, p)
      BY <1>5, <2>1, <2>3 DEF Longer
    <3> QED BY <2>1, <3>1, LongerTells
  <2> QED BY <2>2, <2>3
<1>6. pane[p].pc = "gone" => pane'[p].pc = "gone"
  BY DEF Elsewhere
<1> QED BY <1>1, <1>2, <1>3, <1>4, <1>5, <1>6, SoftClean, FramesStep

-----------------------------------------------------------------------------
(* Frames, action by action: readers and framers.                          *)

\* Nothing of s changes.
Untouched(s) ==
    /\ Handed(s) /\ sub'[s] = sub[s] /\ adp'[s] = adp[s] /\ watcher'[s] = watcher[s]

LEMMA UntouchedFrames ==
  ASSUME Inv, NEW s \in Subs, NEW p \in Panes, Closed(s, p), ToldFirst(s, p),
         Elsewhere(s, p), Untouched(s)
  PROVE  Closed(s, p)' /\ ToldFirst(s, p)'
<1>1. Soft(s, p) /\ Longer(s, p) /\ Handed(s)
  BY DEF Untouched, Soft, Longer, Making
<1>2. adp'[s].pc # "gone" => ~sub'[s].closed
  BY DEF Untouched, ToldFirst
<1>3. sub'[s] = sub[s]
  BY DEF Untouched
<1> QED BY <1>1, <1>2, <1>3, GentleFrames

\* What no step of one subscriber alone touches.
restVars == <<busVars, pane>>

\* A step of one subscriber keeps what holds of the others.
LEMMA OneFrames ==
  ASSUME Inv, Frames, NEW s \in Subs, UNCHANGED restVars,
         \A t \in Subs \ {s} : /\ sub'[t] = sub[t] /\ adp'[t] = adp[t]
                               /\ watcher'[t] = watcher[t],
         \A p \in Panes : Closed(s, p)' /\ ToldFirst(s, p)'
  PROVE  Frames'
<1> SUFFICES ASSUME NEW t \in Subs, NEW p \in Panes PROVE Closed(t, p)' /\ ToldFirst(t, p)'
  BY DEF Frames
<1>1. CASE t = s
  BY <1>1
<1>2. CASE t # s
  <2>1. Untouched(t) /\ Elsewhere(t, p)
    BY <1>2 DEF Untouched, Handed, Elsewhere, Past, restVars, busVars, placeVars
  <2> QED BY <2>1, UntouchedFrames DEF Frames
<1> QED BY <1>1, <1>2

\* A reader's step on the places of the others.
LEMMA GoToFrames ==
  ASSUME Inv, NEW s \in Subs, NEW pc, NEW p, GoTo(s, pc, p)
  PROVE  /\ adp'[s].pc = pc /\ adp'[s].pane = p
         /\ \A t \in Subs \ {s} : adp'[t] = adp[t]
BY DEF GoTo, Inv, TypeOK, ReaderType

\* A message to s shows it no more of p than it was shown.
LEMMA DeliveredGentle ==
  ASSUME Inv, Frames, NEW s \in Subs, NEW p \in Panes, NEW x, NEW m \in Msg,
         Delivered(s, x, m), UNCHANGED restVars,
         Less(sub[s].slots, x, p), m # ClosedEv(p), Untells(m, p) => ~Has(x, p),
         watcher[s][p] = "none" => watcher'[s][p] = "none",
         adp'[s].pc # "gone" => adp[s].pc # "gone", adp'[s].pc = "none" => adp[s].pc = "none",
         Making(s, p)' => Making(s, p)
  PROVE  Closed(s, p)' /\ ToldFirst(s, p)'
<1>1. Closed(s, p) /\ ToldFirst(s, p)
  BY DEF Frames
<1>2. Soft(s, p) /\ (Ready(sub'[s].slots, p) => Ready(sub[s].slots, p))
  BY DEF Delivered, Keeps, Core, Soft, Less, Ready
<1>3. Handed(s) /\ Elsewhere(s, p)
  BY DEF Handed, Elsewhere, Past, restVars, busVars, placeVars
<1>4. Longer(s, p)
  BY DEF Delivered, Gets, Longer
<1>5. Lives(sub'[s]) => Lives(sub[s])
  BY DEF Delivered, Keeps, Core, Lives
<1>6. adp'[s].pc # "gone" => ~sub'[s].closed
  BY <1>1 DEF Delivered, Keeps, ToldFirst
<1> QED BY <1>1, <1>2, <1>3, <1>4, <1>5, <1>6, GentleFrames

\* The kinds tell the messages apart.
LEMMA KindsApart ==
  ASSUME NEW p, NEW i, NEW q
  PROVE  /\ Reply(i) # ClosedEv(p) /\ ~Untells(Reply(i), p)
         /\ Event(i) # ClosedEv(p) /\ ~Untells(Event(i), p)
         /\ Watching(q) # ClosedEv(p) /\ ~Untells(Watching(q), p)
         /\ Refused(q) # ClosedEv(p) /\ (Untells(Refused(q), p) => q = p)
         /\ Left(q) # ClosedEv(p) /\ (Untells(Left(q), p) => q = p)
         /\ ~Untells(ClosedEv(q), p) /\ ~Untells(NoMsg, p) /\ NoMsg # ClosedEv(p)
         /\ ~Untells(Aggregate, p) /\ Aggregate # ClosedEv(p)
         /\ ~Untells(Final(i), p) /\ Final(i) # ClosedEv(p)
         /\ ClosedEv(q) = ClosedEv(p) => q = p
         /\ NoMsg # Watching(p) /\ ~Picture(NoMsg) /\ ~Picture(Aggregate) /\ ~Picture(Final(i))
BY DEF Reply, Event, Watching, Refused, Left, ClosedEv, NoMsg, Aggregate, Final, Plain, Untells,
       Picture

LEMMA SendFrames ==
  ASSUME Inv, Streams, Frames, NEW s \in Subs, Send(s)
  PROVE  Frames'
<1> DEFINE m == Reply(ghost[s].requests + 1)
<1>1. UNCHANGED restVars /\ UNCHANGED <<adp, watcher>>
  BY DEF Send, restVars, busVars, placeVars
<1>2. m \in Msg
  BY ReplyIsMessage
<1>3. Delivered(s, sub[s].slots, m)
  BY <1>2, SentPlain DEF Send
<1>4. ASSUME NEW p \in Panes PROVE Closed(s, p)' /\ ToldFirst(s, p)'
  <2>1. Less(sub[s].slots, sub[s].slots, p)
    BY LessSame
  <2>2. m # ClosedEv(p) /\ ~Untells(m, p)
    BY KindsApart
  <2> HIDE DEF m
  <2>3. Making(s, p)' => Making(s, p)
    BY <1>1 DEF Making
  <2> QED BY <1>1, <1>2, <1>3, <2>1, <2>2, <2>3, DeliveredGentle
<1>5. \A t \in Subs \ {s} : sub'[t] = sub[t] /\ adp'[t] = adp[t] /\ watcher'[t] = watcher[t]
  BY <1>1, <1>3 DEF Delivered, Others
<1> QED BY <1>1, <1>4, <1>5, OneFrames

LEMMA ResyncFrames ==
  ASSUME Inv, Streams, Frames, NEW s \in Subs, NEW q \in Panes, Resync(s, q)
  PROVE  Frames'
<1> DEFINE m == Reply(ghost[s].requests + 1)
           f == [watcher[s] EXCEPT ![q] = IF @ = "sent" THEN "key" ELSE @]
<1>1. UNCHANGED restVars /\ adp' = adp /\ watcher' = [watcher EXCEPT ![s] = f]
  BY DEF Resync, readerVars, restVars, busVars, placeVars
<1>2. m \in Msg
  BY ReplyIsMessage
<1>3. Delivered(s, sub[s].slots, m)
  BY <1>2, SentPlain DEF Resync
<1>4. /\ \A p \in Panes : watcher[s][p] = "none" => f[p] = "none"
      /\ watcher'[s] = f /\ \A t \in Subs \ {s} : watcher'[t] = watcher[t]
  BY <1>1 DEF Inv, TypeOK, ReaderType
<1> HIDE DEF f
<1>5. ASSUME NEW p \in Panes PROVE Closed(s, p)' /\ ToldFirst(s, p)'
  <2>1. Less(sub[s].slots, sub[s].slots, p)
    BY LessSame
  <2>2. m # ClosedEv(p) /\ ~Untells(m, p)
    BY KindsApart
  <2> HIDE DEF m
  <2>3. Making(s, p)' => Making(s, p)
    BY <1>1 DEF Making
  <2>4. watcher[s][p] = "none" => watcher'[s][p] = "none"
    BY <1>4
  <2> QED BY <1>1, <1>2, <1>3, <2>1, <2>2, <2>3, <2>4, DeliveredGentle
<1>6. \A t \in Subs \ {s} : sub'[t] = sub[t] /\ adp'[t] = adp[t] /\ watcher'[t] = watcher[t]
  BY <1>1, <1>3, <1>4 DEF Delivered, Others
<1> QED BY <1>1, <1>5, <1>6, OneFrames

\* A reader that answers for q, and shows less of it.
LEMMA AnsweredFrames ==
  ASSUME Inv, Streams, Frames, NEW s \in Subs, NEW q \in Panes, NEW x, NEW m \in Msg,
         Delivered(s, x, m), UNCHANGED restVars, watcher' = watcher,
         \A p \in Panes : Less(sub[s].slots, x, p), ~Has(x, q),
         m = Refused(q) \/ m = Left(q),
         adp' = adp \/ GoTo(s, "serving", NoPane), adp[s].pc \notin {"none", "gone"}
  PROVE  Frames'
<1>1. adp'[s].pc # "none" /\ \A p \in Panes : Making(s, p)' => Making(s, p)
  BY GoToFrames DEF Making
<1>2. ASSUME NEW p \in Panes PROVE Closed(s, p)' /\ ToldFirst(s, p)'
  <2>1. m # ClosedEv(p) /\ (Untells(m, p) => p = q)
    BY KindsApart
  <2> QED BY <1>1, <2>1, DeliveredGentle
<1>3. \A t \in Subs \ {s} : sub'[t] = sub[t] /\ adp'[t] = adp[t] /\ watcher'[t] = watcher[t]
  BY GoToFrames DEF Delivered, Others
<1> QED BY <1>2, <1>3, OneFrames

LEMMA UnwatchAnswerFrames ==
  ASSUME Inv, Streams, Frames, NEW s \in Subs, NEW q \in Panes, UnwatchAnswer(s, q)
  PROVE  Frames'
<1>1. /\ UNCHANGED restVars /\ watcher' = watcher /\ GoTo(s, "serving", NoPane)
      /\ adp[s].pc = "unslot"
  BY DEF UnwatchAnswer, At, readerVars, restVars, busVars, placeVars
<1>2. WholeTable(sub[s].slots) /\ WholeTable(DropSlot(sub[s].slots, q))
  BY MySub, DropSlotWhole
<1>3. Delivered(s, DropSlot(sub[s].slots, q), Left(q)) /\ Left(q) \in Msg
  BY <1>2, Messages, SentDelivered DEF UnwatchAnswer
<1>4. /\ \A p \in Panes : Less(sub[s].slots, DropSlot(sub[s].slots, q), p)
      /\ ~Has(DropSlot(sub[s].slots, q), q)
  BY <1>2, LessDrop
<1> QED BY <1>1, <1>3, <1>4, AnsweredFrames

LEMMA WatchResolveFrames ==
  ASSUME Inv, Streams, Frames, NEW s \in Subs, NEW q \in Panes, WatchResolve(s, q)
  PROVE  Frames'
<1>1. UNCHANGED restVars /\ watcher' = watcher /\ adp[s].pc = "resolve"
  BY DEF WatchResolve, At, readerVars, restVars, busVars, placeVars
<1>2. CASE pane[q].pc # "live"
  <2>1. WholeTable(sub[s].slots) /\ WholeTable(DropSlot(sub[s].slots, q))
    BY MySub, DropSlotWhole
  <2>2. /\ Delivered(s, DropSlot(sub[s].slots, q), Refused(q)) /\ Refused(q) \in Msg
        /\ GoTo(s, "serving", NoPane)
    BY <1>2, <2>1, Messages, SentDelivered DEF WatchResolve
  <2>3. /\ \A p \in Panes : Less(sub[s].slots, DropSlot(sub[s].slots, q), p)
        /\ ~Has(DropSlot(sub[s].slots, q), q)
    BY <2>1, LessDrop
  <2> QED BY <1>1, <2>2, <2>3, AnsweredFrames
<1>3. CASE pane[q].pc = "live"
  <2>1. sub' = sub /\ GoTo(s, "add", q)
    BY <1>3 DEF WatchResolve
  <2>2. /\ adp'[s].pc = "add" /\ adp'[s].pane = q
        /\ \A t \in Subs \ {s} : adp'[t] = adp[t]
    BY <2>1, GoToFrames
  <2>3. ASSUME NEW p \in Panes PROVE Closed(s, p)' /\ ToldFirst(s, p)'
    <3>1. Closed(s, p) /\ ToldFirst(s, p)
      BY DEF Frames
    <3>2. CASE p # q
      <4>1. Soft(s, p) /\ Elsewhere(s, p) /\ Handed(s) /\ Longer(s, p)
        BY <1>1, <2>1, <2>2, <3>2
        DEF Soft, Elsewhere, Past, Handed, Longer, Making, restVars, busVars, placeVars
      <4> QED BY <1>1, <2>1, <2>2, <3>1, <4>1, GentleFrames DEF ToldFirst
    <3>3. CASE p = q
      <4>1. ~Past(s, p) /\ pane' = pane /\ ~Hears(s, p)
        BY <1>1, <1>3, <3>1, <3>3 DEF Past, restVars, Closed
      <4>2. ~Past(s, p)' /\ ~Hears(s, p)' /\ ~Read(s, p)'
        BY <1>1, <2>1, <4>1 DEF Past, Hears, Read, restVars, busVars, placeVars
      <4>3. Closed(s, p)'
        BY <2>1, <2>2, <3>1, <4>2 DEF Closed
      <4>4. ToldFirst(s, p)'
        BY <1>1, <2>1, <3>1 DEF ToldFirst, WillBeTold, restVars, busVars, placeVars
      <4> QED BY <4>3, <4>4
    <3> QED BY <3>2, <3>3
  <2> QED BY <1>1, <2>1, <2>2, <2>3, OneFrames
<1> QED BY <1>2, <1>3

\* A new slot is empty, and its watch is not looked up yet.
LEMMA WatchAddSlotFrames ==
  ASSUME Inv, Streams, Frames, NEW s \in Subs, NEW q \in Panes, WatchAddSlot(s, q)
  PROVE  Frames'
<1>1. UNCHANGED restVars /\ watcher' = watcher /\ adp[s].pc = "serving"
  BY DEF WatchAddSlot, At, readerVars, restVars, busVars, placeVars
<1>2. CASE ~Open(sub[s], q)
  <2>1. Delivered(s, sub[s].slots, Refused(q)) /\ adp' = adp /\ Refused(q) \in Msg
    BY <1>2, Messages, SentPlain DEF WatchAddSlot
  <2>2. CASE Accepts(sub[s])
    <3>1. ~Has(sub[s].slots, q)
      BY <1>2, <2>2 DEF Open, Frames, Closed
    <3>2. \A p \in Panes : Less(sub[s].slots, sub[s].slots, p)
      BY LessSame
    <3> QED BY <1>1, <2>1, <3>1, <3>2, AnsweredFrames
  <2>3. CASE ~Accepts(sub[s])
    <3>1. /\ Others(s) /\ Keeps(sub[s], sub'[s]) /\ sub'[s].slots = sub[s].slots
          /\ sub'[s].fifo = sub[s].fifo
      BY <2>1, <2>3 DEF Delivered, Gets
    <3>2. ASSUME NEW p \in Panes PROVE Closed(s, p)' /\ ToldFirst(s, p)'
      <4>1. Soft(s, p) /\ Elsewhere(s, p) /\ Handed(s) /\ Longer(s, p)
        BY <1>1, <2>1, <3>1
        DEF Soft, Elsewhere, Past, Handed, Longer, Making, Keeps, restVars, busVars, placeVars
      <4>2. Lives(sub'[s]) => Lives(sub[s])
        BY <2>1 DEF Delivered, Keeps, Core, Lives
      <4>3. Closed(s, p) /\ ToldFirst(s, p) /\ ~sub'[s].closed
        BY <1>1, <3>1 DEF Frames, ToldFirst, Keeps
      <4> QED BY <3>1, <4>1, <4>2, <4>3, GentleFrames
    <3> QED BY <1>1, <2>1, <3>1, <3>2, OneFrames DEF Others
  <2> QED BY <2>2, <2>3
<1>3. CASE Open(sub[s], q)
  <2> DEFINE x == AddSlot(sub[s].slots, q)
             r == [sub[s] EXCEPT !.slots = x]
  <2>1. sub' = [sub EXCEPT ![s] = r] /\ GoTo(s, "resolve", q)
    BY <1>3 DEF WatchAddSlot
  <2>2. WholeTable(sub[s].slots) /\ WholeTable(x)
    BY MySub, AddSlotWhole
  <2>3. /\ \A p \in Panes : p # q => Less(sub[s].slots, x, p)
        /\ ~Has(sub[s].slots, q) => ~x.at[q].full /\ ~x.at[q].active
        /\ Has(sub[s].slots, q) => x = sub[s].slots
    BY <2>2, LessAdd
  <2> HIDE DEF x
  <2>4. Keeps(sub[s], r) /\ r.slots = x /\ r.fifo = sub[s].fifo /\ r.dead = sub[s].dead
    BY StreamTypes DEF SubRec, Keeps, Core
  <2> HIDE DEF r
  <2>5. sub'[s] = r /\ \A t \in Subs \ {s} : sub'[t] = sub[t]
    BY <2>1, StreamTypes
  <2>6. /\ adp'[s].pc = "resolve" /\ \A t \in Subs \ {s} : adp'[t] = adp[t]
    BY <2>1, GoToFrames
  <2>7. ASSUME NEW p \in Panes PROVE Closed(s, p)' /\ ToldFirst(s, p)'
    <3>1. Closed(s, p) /\ ToldFirst(s, p) /\ ~sub[s].closed
      BY <1>1 DEF Frames, ToldFirst
    <3>2. Lives(sub'[s]) => Lives(sub[s])
      BY <2>4, <2>5 DEF Keeps, Core, Lives
    <3>3. ~sub'[s].closed /\ sub'[s].closedPanes = sub[s].closedPanes /\ sub'[s].slots = x
      BY <2>4, <2>5, <3>1 DEF Keeps
    <3>4. Elsewhere(s, p) /\ Handed(s) /\ Longer(s, p)
      BY <1>1, <2>4, <2>5 DEF Elsewhere, Past, Handed, Longer, restVars, busVars, placeVars
    <3>5. CASE Less(sub[s].slots, x, p)
      <4>1. Soft(s, p) /\ (Ready(sub'[s].slots, p) => Ready(sub[s].slots, p))
        BY <1>1, <2>6, <3>3, <3>5 DEF Soft, Making, Less, Ready
      <4> QED BY <3>1, <3>2, <3>3, <3>4, <4>1, GentleFrames
    <3>6. CASE p = q /\ ~Has(sub[s].slots, q)
      <4>1. p \notin sub'[s].closedPanes /\ ~Ready(sub'[s].slots, p)
        BY <1>3, <2>3, <3>3, <3>6 DEF Open, Ready
      <4>2. Clean(s, p) => Clean(s, p)'
        BY <1>1, <2>3, <2>6, <3>3, <3>6, <4>1 DEF Clean, Making
      <4>3. Hears(s, p)' => Hears(s, p)
        BY <3>4, LongerHears
      <4>4. s \in subs' /\ Past(s, p)' => Clean(s, p)'
        BY <1>1, <3>1, <4>2 DEF Past, Closed, restVars, busVars
      <4>5. pane' = pane
        BY <1>1 DEF restVars
      <4>6. Read(s, p)' => ~(Picture(cur'[s]) /\ cur'[s].pane = p)
        BY <3>1, <3>4 DEF Handed, Read, Closed
      <4>7. s \notin Silent /\ Picture(cur'[s]) /\ cur'[s].pane = p => p \in client'[s].told
        BY <3>1, <3>4 DEF Handed, ToldFirst
      <4>8. adp'[s].pc # "none"
        BY <2>6
      <4> QED BY <3>1, <3>3, <4>1, <4>2, <4>3, <4>4, <4>5, <4>6, <4>7, <4>8, FramesStep
    <3>7. Less(sub[s].slots, x, p) \/ (p = q /\ ~Has(sub[s].slots, q))
      BY <2>3, LessSame
    <3> QED BY <3>5, <3>6, <3>7
  <2> QED BY <1>1, <2>5, <2>6, <2>7, OneFrames
<1> QED BY <1>2, <1>3

\* A step in which the writer, the queue and pane p stand still.
LEMMA QuietFrames ==
  ASSUME Inv, NEW s \in Subs, NEW p \in Panes, Closed(s, p), ToldFirst(s, p),
         Elsewhere(s, p), Handed(s), Longer(s, p),
         p \in sub'[s].closedPanes => ~Has(sub'[s].slots, p),
         adp'[s].pc = "none" => ~Has(sub'[s].slots, p) /\ watcher'[s][p] = "none",
         Clean(s, p) => Clean(s, p)',
         adp'[s].pc # "gone" => ~sub'[s].closed,
         s \notin Silent /\ Ready(sub'[s].slots, p) /\ Lives(sub'[s]) => WillBeTold(s, p)'
  PROVE  Closed(s, p)' /\ ToldFirst(s, p)'
<1>1. Hears(s, p)' => Hears(s, p)
  BY LongerHears
<1>2. s \in subs' /\ Past(s, p)' => Clean(s, p)'
  BY DEF Past, Closed, Elsewhere
<1>3. pane[p].pc = "gone" => pane'[p].pc = "gone"
  BY DEF Elsewhere
<1>4. Read(s, p)' => ~(Picture(cur'[s]) /\ cur'[s].pane = p)
  BY DEF Handed, Read, Closed
<1>5. s \notin Silent /\ Picture(cur'[s]) /\ cur'[s].pane = p => p \in client'[s].told
  BY DEF Handed, ToldFirst
<1> QED BY <1>1, <1>2, <1>3, <1>4, <1>5, FramesStep

\* Once its watch is being made, only a refusal can keep p clean.
LEMMA WatchAddFrames ==
  ASSUME Inv, Streams, Frames, NEW s \in Subs, NEW q \in Panes, WatchAdd(s, q)
  PROVE  Frames'
<1>1. UNCHANGED restVars /\ sub' = sub /\ adp[s].pc = "add" /\ adp[s].pane = q
  BY DEF WatchAdd, At, readerVars, restVars, busVars, placeVars
<1>2. PICK mode : watcher' = [watcher EXCEPT ![s] = [watcher[s] EXCEPT ![q] = mode]]
  BY DEF WatchAdd, Inv, TypeOK, ReaderType
<1>3. /\ \A t \in Subs \ {s} : watcher'[t] = watcher[t]
      /\ \A p \in Panes \ {q} : watcher'[s][p] = watcher[s][p]
  BY <1>2 DEF Inv, TypeOK, ReaderType
<1>4. /\ adp'[s].pc = "answer" /\ adp'[s].pane = q /\ \A t \in Subs \ {s} : adp'[t] = adp[t]
  BY GoToFrames DEF WatchAdd
<1>5. ASSUME NEW p \in Panes PROVE Closed(s, p)' /\ ToldFirst(s, p)'
  <2>1. Closed(s, p) /\ ToldFirst(s, p) /\ ~sub[s].closed
    BY <1>1 DEF Frames, ToldFirst
  <2>2. Elsewhere(s, p) /\ Handed(s) /\ Longer(s, p)
    BY <1>1 DEF Elsewhere, Past, Handed, Longer, restVars, busVars, placeVars
  <2>3. Clean(s, p) => Clean(s, p)'
    BY <1>1, <1>3, <1>4 DEF Clean, Making
  <2>4. s \notin Silent /\ Ready(sub'[s].slots, p) /\ Lives(sub'[s]) => WillBeTold(s, p)'
    BY <1>1, <2>1, <2>2 DEF ToldFirst, Ready, WillBeTold, Handed
  <2>5. p \in sub'[s].closedPanes => ~Has(sub'[s].slots, p)
    BY <1>1, <2>1 DEF Closed
  <2> QED BY <1>1, <1>4, <2>1, <2>2, <2>3, <2>4, <2>5, QuietFrames
<1> QED BY <1>1, <1>3, <1>4, <1>5, OneFrames

LEMMA UnwatchLeaveFrames ==
  ASSUME Inv, Streams, Frames, NEW s \in Subs, NEW q \in Panes, UnwatchLeave(s, q)
  PROVE  Frames'
<1>1. UNCHANGED restVars /\ sub' = sub /\ adp[s].pc = "serving"
  BY DEF UnwatchLeave, At, readerVars, restVars, busVars, placeVars
<1>2. /\ \A t \in Subs \ {s} : watcher'[t] = watcher[t]
      /\ \A p \in Panes : watcher[s][p] = "none" => watcher'[s][p] = "none"
  BY DEF UnwatchLeave, Inv, TypeOK, ReaderType
<1>3. /\ adp'[s].pc = "unslot" /\ \A t \in Subs \ {s} : adp'[t] = adp[t]
  BY GoToFrames DEF UnwatchLeave
<1>4. ASSUME NEW p \in Panes PROVE Closed(s, p)' /\ ToldFirst(s, p)'
  <2>1. Closed(s, p) /\ ToldFirst(s, p) /\ ~sub[s].closed
    BY <1>1 DEF Frames, ToldFirst
  <2>2. Elsewhere(s, p) /\ Handed(s) /\ Longer(s, p) /\ Soft(s, p)
    BY <1>1, <1>2, <1>3 DEF Elsewhere, Past, Handed, Longer, Soft, Making, restVars, busVars, placeVars
  <2> QED BY <1>1, <2>1, <2>2, GentleFrames
<1> QED BY <1>1, <1>2, <1>3, <1>4, OneFrames

\* The answer to the watch goes into the queue before a frame can be taken, or the
\* subscriber does not live to take one.
LEMMA WatchAnswerFrames ==
  ASSUME Inv, Streams, Frames, NEW s \in Subs, NEW q \in Panes, WatchAnswer(s, q)
  PROVE  Frames'
<1> DEFINE x == Activate(sub[s].slots, q)
<1>1. UNCHANGED restVars /\ watcher' = watcher /\ adp[s].pc = "answer"
  BY DEF WatchAnswer, At, readerVars, restVars, busVars, placeVars
<1>2. /\ adp'[s].pc = "serving" /\ \A t \in Subs \ {s} : adp'[t] = adp[t]
  BY GoToFrames DEF WatchAnswer
<1>3. WholeTable(sub[s].slots) /\ WholeTable(x)
  BY MySub, ActivateWhole
<1>4. \A p \in Panes : /\ p # q => Less(sub[s].slots, x, p)
                       /\ Has(x, p) => Has(sub[s].slots, p)
                       /\ Has(x, p) /\ x.at[p].full => sub[s].slots.at[p].full
  <2>1. Has(x, q) => Has(sub[s].slots, q)
    BY <1>3, LessActivate
  <2> QED BY <1>3, <2>1, LessActivate DEF Less
<1> HIDE DEF x
<1>5. /\ Keeps(sub[s], sub'[s]) /\ sub'[s].slots = x
      /\ \A t \in Subs \ {s} : sub'[t] = sub[t]
      /\ IF s \in Silent THEN sub'[s].fifo = sub[s].fifo
         ELSE /\ sub'[s].fifo = Gets(s, Watching(q))
              /\ sub'[s].dead = (sub[s].dead \/ Overflows(sub[s], Watching(q)))
  <2>1. CASE s \in Silent
    <3> DEFINE r == [[sub[s] EXCEPT !.slots = x] EXCEPT !.wake = TRUE]
    <3>1. sub' = [sub EXCEPT ![s] = r]
      BY <2>1 DEF WatchAnswer, x
    <3>2. Keeps(sub[s], r) /\ r.slots = x /\ r.fifo = sub[s].fifo
      BY StreamTypes DEF SubRec, Keeps, Core
    <3> HIDE DEF r
    <3> QED BY <2>1, <3>1, <3>2, StreamTypes
  <2>2. CASE s \notin Silent
    <3>1. Delivered(s, x, Watching(q))
      BY <1>3, <2>2, Messages, SentDelivered DEF WatchAnswer, x
    <3> QED BY <2>2, <3>1 DEF Delivered, Others
  <2> QED BY <2>1, <2>2
<1>6. ASSUME NEW p \in Panes PROVE Closed(s, p)' /\ ToldFirst(s, p)'
  <2>1. Closed(s, p) /\ ToldFirst(s, p) /\ ~sub[s].closed /\ ~sub'[s].closed
    BY <1>1, <1>5 DEF Frames, ToldFirst, Keeps
  <2>2. Elsewhere(s, p) /\ Handed(s)
    BY <1>1 DEF Elsewhere, Past, Handed, restVars, busVars, placeVars
  <2>3. Watching(q) \in Msg /\ Watching(q) # ClosedEv(p) /\ ~Untells(Watching(q), p)
    BY Messages, KindsApart
  <2>4. Longer(s, p)
    BY <1>5, <2>3 DEF Longer, Gets
  <2>5. Soft(s, p)
    BY <1>1, <1>2, <1>4, <1>5 DEF Soft, Making, Keeps
  <2>6. Lives(sub'[s]) => Lives(sub[s])
    BY <1>5 DEF Keeps, Core, Lives
  <2>7. CASE p # q
    <3>1. Ready(sub'[s].slots, p) => Ready(sub[s].slots, p)
      BY <1>4, <1>5, <2>7 DEF Ready, Less
    <3> QED BY <2>1, <2>2, <2>4, <2>5, <2>6, <3>1, GentleFrames
  <2>8. CASE p = q
    <3>1. ASSUME s \notin Silent, Lives(sub'[s]) PROVE WillBeTold(s, p)'
      <4>1. Accepts(sub[s]) /\ Fits(sub[s], Watching(q))
        BY <1>5, <2>1, <2>6, <3>1 DEF Lives, Accepts, Overflows, Keeps
      <4>2. sub'[s].fifo = Append(sub[s].fifo, Watching(p))
        BY <1>5, <2>8, <3>1, <4>1 DEF Gets
      <4>3. /\ Len(sub'[s].fifo) = Len(sub[s].fifo) + 1 /\ Len(sub[s].fifo) \in Nat
            /\ sub'[s].fifo[Len(sub[s].fifo) + 1] = Watching(p)
        BY <2>3, <2>8, <4>2, StreamTypes, AppendTo
      <4>4. \E i \in 1..Len(sub'[s].fifo) :
               /\ sub'[s].fifo[i] = Watching(p)
               /\ \A j \in (i + 1)..Len(sub'[s].fifo) : ~Untells(sub'[s].fifo[j], p)
        BY <4>3
      <4> QED BY <4>4 DEF WillBeTold
    <3> QED BY <2>1, <2>2, <2>4, <2>5, <3>1, SoftClean, QuietFrames
  <2> QED BY <2>7, <2>8
<1> QED BY <1>1, <1>2, <1>5, <1>6, OneFrames

\* A framer that has p's watcher offers it rows: only an open slot takes them, and
\* neither what is told of p nor whether its slot is active changes.
LEMMA OfferedFrames ==
  ASSUME Inv, Frames, NEW s \in Subs, NEW q \in Panes, UNCHANGED <<restVars, adp>>,
         watcher[s][q] # "none",
         \A t \in Subs \ {s} : sub'[t] = sub[t] /\ watcher'[t] = watcher[t],
         \A p \in Panes \ {q} : watcher'[s][p] = watcher[s][p],
         \/ sub'[s] = sub[s]
         \/ /\ Open(sub[s], q) /\ Keeps(sub[s], sub'[s]) /\ sub'[s].fifo = sub[s].fifo
            /\ sub'[s].dead = sub[s].dead /\ Has(sub[s].slots, q)
            /\ Offered(sub[s].slots, q, sub'[s].slots)
  PROVE  Frames'
<1> DEFINE x == sub'[s].slots
<1>1. WholeTable(sub[s].slots)
  BY MySub
<1>2. \A p \in Panes : /\ p # q => Less(sub[s].slots, x, p)
                       /\ Has(x, p) => Has(sub[s].slots, p)
                       /\ Has(x, p) /\ x.at[p].active => sub[s].slots.at[p].active
  <2>1. CASE sub'[s] = sub[s]
    BY <2>1, LessSame
  <2>2. ASSUME Has(sub[s].slots, q), Offered(sub[s].slots, q, x), NEW p \in Panes
        PROVE  /\ p # q => Less(sub[s].slots, x, p)
               /\ Has(x, p) => Has(sub[s].slots, p)
               /\ Has(x, p) /\ x.at[p].active => sub[s].slots.at[p].active
    <3> HIDE DEF x
    <3>1. /\ p # q => Less(sub[s].slots, x, p)
          /\ Has(x, p) => Has(sub[s].slots, p)
          /\ x.at[q].active => sub[s].slots.at[q].active
      BY <1>1, <2>2, LessOffer
    <3> QED BY <3>1 DEF Less
  <2> QED BY <2>1, <2>2
<1>3. /\ sub'[s].fifo = sub[s].fifo /\ sub'[s].closedPanes = sub[s].closedPanes
      /\ sub'[s].closed = sub[s].closed /\ (Lives(sub'[s]) => Lives(sub[s]))
      /\ sub'[s] # sub[s] => q \notin sub[s].closedPanes
  BY DEF Keeps, Core, Lives, Open
<1> HIDE DEF x
<1>4. ASSUME NEW p \in Panes PROVE Closed(s, p)' /\ ToldFirst(s, p)'
  <2>1. Closed(s, p) /\ ToldFirst(s, p)
    BY DEF Frames
  <2>2. Elsewhere(s, p) /\ Handed(s) /\ Longer(s, p)
    BY <1>3 DEF Elsewhere, Past, Handed, Longer, restVars, busVars, placeVars
  <2>3. Ready(x, p) => Ready(sub[s].slots, p)
    BY <1>2 DEF Ready
  <2>4. adp'[s].pc # "gone" => ~sub'[s].closed
    BY <1>3, <2>1 DEF ToldFirst
  <2>5. CASE p # q
    <3>1. Soft(s, p)
      BY <1>2, <1>3, <2>5 DEF Soft, Less, Making, x
    <3> QED BY <1>3, <2>1, <2>2, <2>3, <2>4, <3>1, GentleFrames DEF x
  <2>6. CASE p = q
    <3>1. p \in sub'[s].closedPanes => ~Has(x, p)
      BY <1>2, <1>3, <2>1, <2>6 DEF Closed
    <3>2. adp'[s].pc # "none"
      BY <2>1, <2>6 DEF Closed
    <3>3. Clean(s, p) => Clean(s, p)'
      BY <1>3, <2>6 DEF Clean
    <3>4. s \notin Silent /\ Ready(x, p) /\ Lives(sub'[s]) => WillBeTold(s, p)'
      BY <1>3, <2>1, <2>2, <2>3 DEF ToldFirst, Ready, WillBeTold, Handed
    <3> QED BY <2>1, <2>2, <2>4, <3>1, <3>2, <3>3, <3>4, QuietFrames DEF x
  <2> QED BY <2>5, <2>6
<1> QED BY <1>4, OneFrames

LEMMA OfferFrames ==
  ASSUME Inv, Streams, Frames, NEW s \in Subs, NEW q \in Panes, NEW lines \in Lines, Offer(s, q, lines)
  PROVE  Frames'
<1>1. UNCHANGED <<restVars, adp>> /\ watcher[s][q] # "none"
  BY DEF Offer, readerVars, restVars, busVars, placeVars
<1>2. watcher' = [watcher EXCEPT ![s] = [watcher[s] EXCEPT ![q] = "sent"]]
  BY DEF Offer, Inv, TypeOK, ReaderType
<1>3. /\ \A t \in Subs \ {s} : watcher'[t] = watcher[t]
      /\ \A p \in Panes \ {q} : watcher'[s][p] = watcher[s][p]
  BY <1>2 DEF Inv, TypeOK, ReaderType
<1>4. CASE Open(sub[s], q) /\ Has(sub[s].slots, q)
  <2> DEFINE x == OfferRows(sub[s].slots, q, watcher[s][q] = "key", lines)
             r == [sub[s] EXCEPT !.slots = x, !.wake = TRUE]
  <2>1. sub' = [sub EXCEPT ![s] = r]
    BY <1>4 DEF Offer
  <2>2. Keeps(sub[s], r) /\ r.slots = x /\ r.fifo = sub[s].fifo /\ r.dead = sub[s].dead
    <3> HIDE DEF x
    <3> QED BY StreamTypes DEF SubRec, Keeps, Core
  <2>3. Offered(sub[s].slots, q, x)
    BY DEF Offered
  <2> HIDE DEF r, x
  <2>4. sub'[s] = r /\ \A t \in Subs \ {s} : sub'[t] = sub[t]
    BY <2>1, StreamTypes
  <2> QED BY <1>1, <1>3, <1>4, <2>2, <2>3, <2>4, OfferedFrames
<1>5. CASE ~(Open(sub[s], q) /\ Has(sub[s].slots, q))
  <2>1. sub' = sub
    BY <1>5 DEF Offer
  <2> QED BY <1>1, <1>3, <2>1, OfferedFrames
<1> QED BY <1>4, <1>5

LEMMA OfferChangedFrames ==
  ASSUME Inv, Streams, Frames, NEW s \in Subs, NEW q \in Panes, OfferChanged(s, q)
  PROVE  Frames'
<1>1. UNCHANGED <<restVars, adp, watcher>> /\ watcher[s][q] # "none"
  BY DEF OfferChanged, readerVars, restVars, busVars, placeVars
<1>2. CASE Open(sub[s], q) /\ Has(sub[s].slots, q)
  <2> DEFINE x == OfferRaw(sub[s].slots, q)
             r == [sub[s] EXCEPT !.slots = x, !.wake = TRUE]
  <2>1. sub' = [sub EXCEPT ![s] = r]
    BY <1>2 DEF OfferChanged
  <2>2. Keeps(sub[s], r) /\ r.slots = x /\ r.fifo = sub[s].fifo /\ r.dead = sub[s].dead
    <3> HIDE DEF x
    <3> QED BY StreamTypes DEF SubRec, Keeps, Core
  <2>3. Offered(sub[s].slots, q, x)
    BY DEF Offered
  <2> HIDE DEF r, x
  <2>4. sub'[s] = r /\ \A t \in Subs \ {s} : sub'[t] = sub[t]
    BY <2>1, StreamTypes
  <2> QED BY <1>1, <1>2, <2>2, <2>3, <2>4, OfferedFrames
<1>3. CASE ~(Open(sub[s], q) /\ Has(sub[s].slots, q))
  <2>1. sub' = sub
    BY <1>3 DEF OfferChanged
  <2> QED BY <1>1, <2>1, OfferedFrames
<1> QED BY <1>2, <1>3

-----------------------------------------------------------------------------
(* Frames, action by action: adapters, publishers, Finalize and ClosePane. *)

\* What is told and shown of every pane stands; the rest of t may be killed.
Mild(t) ==
    /\ Handed(t) /\ sub'[t].fifo = sub[t].fifo /\ sub'[t].slots = sub[t].slots
    /\ sub'[t].closedPanes = sub[t].closedPanes /\ (Lives(sub'[t]) => Lives(sub[t]))
    /\ adp'[t].pc = "none" => adp[t].pc = "none"
    /\ adp'[t].pc # "gone" /\ sub'[t].closed => adp[t].pc # "gone" /\ sub[t].closed
    /\ \A p \in Panes : Making(t, p)' => Making(t, p)
    /\ \A p \in Panes : watcher[t][p] = "none" => watcher'[t][p] = "none"

LEMMA MildGentle ==
  ASSUME Inv, Frames, NEW t \in Subs, Mild(t), NEW p \in Panes, Elsewhere(t, p)
  PROVE  Closed(t, p)' /\ ToldFirst(t, p)'
<1>1. Soft(t, p) /\ Longer(t, p) /\ Handed(t) /\ (Ready(sub'[t].slots, p) => Ready(sub[t].slots, p))
  BY DEF Mild, Soft, Longer
<1>2. (Lives(sub'[t]) => Lives(sub[t])) /\ (adp'[t].pc # "gone" => ~sub'[t].closed)
  BY DEF Mild, Frames, ToldFirst
<1> QED BY <1>1, <1>2, GentleFrames DEF Frames

LEMMA MildFrames ==
  ASSUME Inv, Frames, \A t \in Subs : Mild(t), \A t \in Subs, p \in Panes : Elsewhere(t, p)
  PROVE  Frames'
BY MildGentle DEF Frames

LEMMA UntouchedMild ==
  ASSUME NEW t, Untouched(t)
  PROVE  Mild(t)
BY DEF Untouched, Mild, Making

\* What pane p and its close are waiting for does not grow.
LEMMA PanesStand ==
  ASSUME NEW t, pane' = pane, subs' \subseteq subs,
         \A p \in Panes : pub'[p].pc = "loop" => pub[p].pc = "loop" /\ pub'[p].todo \subseteq pub[p].todo
  PROVE  \A p \in Panes : Elsewhere(t, p)
BY DEF Elsewhere, Past

\* No Sub and no reader changes.
LEMMA StillFrames ==
  ASSUME Inv, Frames, UNCHANGED <<cur, client, sub, adp>>,
         \A t \in Subs, p \in Panes : watcher[t][p] = "none" => watcher'[t][p] = "none",
         \A t \in Subs, p \in Panes : Elsewhere(t, p)
  PROVE  Frames'
<1>1. \A t \in Subs : Mild(t)
  BY DEF Mild, Handed, Making
<1> QED BY <1>1, MildFrames

\* A Sub is marked dead, or closed as its adapter goes, or woken or started.
LEMMA OneMildFrames ==
  ASSUME Inv, Frames, NEW s \in Subs, UNCHANGED <<cur, client, watcher, pane, pub>>, subs' \subseteq subs,
         \A t \in Subs \ {s} : sub'[t] = sub[t] /\ adp'[t] = adp[t],
         sub'[s].fifo = sub[s].fifo, sub'[s].slots = sub[s].slots,
         sub'[s].closedPanes = sub[s].closedPanes,
         Lives(sub'[s]) => Lives(sub[s]),
         adp'[s].pc = "none" => adp[s].pc = "none",
         adp'[s].pc # "gone" /\ sub'[s].closed => adp[s].pc # "gone" /\ sub[s].closed,
         adp' = adp \/ adp'[s].pc \notin {"add", "answer"}
  PROVE  Frames'
<1>1. \A t \in Subs : Mild(t)
  BY DEF Mild, Handed, Making
<1>2. \A t \in Subs, p \in Panes : Elsewhere(t, p)
  BY PanesStand
<1> QED BY <1>1, <1>2, MildFrames

\* The record that kill leaves.
LEMMA KillMarkFrames ==
  ASSUME Inv, Frames, NEW s \in Subs, NEW recs, KillMark(s, recs), recs \in [Subs -> SubRec],
         \A t \in Subs \ {s} : recs[t] = sub[t],
         recs[s].fifo = sub[s].fifo, recs[s].slots = sub[s].slots,
         recs[s].closedPanes = sub[s].closedPanes, Core(sub[s], recs[s])
  PROVE  /\ \A t \in Subs \ {s} : sub'[t] = sub[t]
         /\ sub'[s].fifo = sub[s].fifo /\ sub'[s].slots = sub[s].slots
         /\ sub'[s].closedPanes = sub[s].closedPanes /\ sub'[s].closed = recs[s].closed
         /\ Lives(sub'[s]) => Lives(sub[s])
<1>1. CASE sub[s].dead
  BY <1>1 DEF KillMark, Core, Lives
<1>2. CASE ~sub[s].dead
  <2> DEFINE q == [recs[s] EXCEPT !.dead = TRUE]
  <2>1. sub' = [recs EXCEPT ![s] = q]
    BY <1>2 DEF KillMark
  <2>2. /\ q.fifo = recs[s].fifo /\ q.slots = recs[s].slots /\ q.closed = recs[s].closed
        /\ q.closedPanes = recs[s].closedPanes /\ q.dead
    BY DEF SubRec
  <2> HIDE DEF q
  <2>3. sub'[s] = q /\ \A t \in Subs \ {s} : sub'[t] = recs[t]
    BY <2>1
  <2> QED BY <2>2, <2>3 DEF Lives
<1> QED BY <1>1, <1>2

LEMMA KillFrames ==
  ASSUME Inv, Frames, NEW s \in Subs, KillMark(s, sub), UNCHANGED <<cur, client, watcher, pane, adp, subs>>,
         \A p \in Panes : pub'[p].pc = "loop" => pub[p].pc = "loop" /\ pub'[p].todo \subseteq pub[p].todo
  PROVE  Frames'
<1>1. sub \in [Subs -> SubRec] /\ Core(sub[s], sub[s])
  BY StreamTypes DEF Core
<1>2. /\ \A t \in Subs \ {s} : sub'[t] = sub[t]
      /\ sub'[s].fifo = sub[s].fifo /\ sub'[s].slots = sub[s].slots
      /\ sub'[s].closedPanes = sub[s].closedPanes /\ sub'[s].closed = sub[s].closed
      /\ Lives(sub'[s]) => Lives(sub[s])
  BY <1>1, KillMarkFrames
<1>3. \A t \in Subs : Mild(t)
  BY <1>2 DEF Mild, Handed, Making
<1>4. \A t \in Subs, p \in Panes : Elsewhere(t, p)
  BY PanesStand
<1> QED BY <1>3, <1>4, MildFrames

LEMMA StartFrames ==
  ASSUME Inv, Frames, NEW s \in Subs, Start(s)
  PROVE  Frames'
<1>1. UNCHANGED <<cur, client, watcher, pane, pub, subs>>
  BY DEF Start
<1>2. /\ adp'[s].pc = "serving" /\ adp[s].pc = "building"
      /\ \A t \in Subs \ {s} : adp'[t] = adp[t]
  BY DEF Start, Inv, TypeOK, ReaderType
<1>3. /\ \A t \in Subs \ {s} : sub'[t] = sub[t]
      /\ sub'[s].fifo = sub[s].fifo /\ sub'[s].slots = sub[s].slots
      /\ sub'[s].closedPanes = sub[s].closedPanes /\ sub'[s].closed = sub[s].closed
      /\ Lives(sub'[s]) => Lives(sub[s])
  <2> DEFINE q == [sub[s] EXCEPT !.started = TRUE, !.head = TRUE]
  <2>1. sub' = sub \/ sub' = [sub EXCEPT ![s] = q]
    BY StreamTypes DEF Start
  <2>2. /\ q.fifo = sub[s].fifo /\ q.slots = sub[s].slots /\ q.closedPanes = sub[s].closedPanes
        /\ q.closed = sub[s].closed /\ (Lives(q) => Lives(sub[s]))
    BY StreamTypes DEF SubRec, Lives
  <2> HIDE DEF q
  <2> QED BY <2>1, <2>2, StreamTypes
<1> QED BY <1>1, <1>2, <1>3, OneMildFrames

LEMMA CloseFrames ==
  ASSUME Inv, Frames, NEW s \in Subs, Close(s)
  PROVE  Frames'
<1>1. UNCHANGED <<cur, client, watcher, pane, pub, subs>>
  BY DEF Close
<1>2. adp'[s].pc = "gone" /\ \A t \in Subs \ {s} : adp'[t] = adp[t]
  BY DEF Close, Inv, TypeOK, ReaderType
<1>3. /\ \A t \in Subs \ {s} : sub'[t] = sub[t]
      /\ sub'[s].fifo = sub[s].fifo /\ sub'[s].slots = sub[s].slots
      /\ sub'[s].closedPanes = sub[s].closedPanes
      /\ Lives(sub'[s]) => Lives(sub[s])
  <2>1. CASE sub[s].closed \/ sub[s].dead
    BY <2>1 DEF Close
  <2>2. CASE ~(sub[s].closed \/ sub[s].dead) /\ sub[s].started
    <3> DEFINE q == [sub[s] EXCEPT !.closed = TRUE, !.wake = TRUE]
    <3>1. sub' = [sub EXCEPT ![s] = q]
      BY <2>2, StreamTypes DEF Close
    <3>2. /\ q.fifo = sub[s].fifo /\ q.slots = sub[s].slots /\ q.closedPanes = sub[s].closedPanes
          /\ Lives(q) => Lives(sub[s])
      BY StreamTypes DEF SubRec, Lives
    <3> HIDE DEF q
    <3> QED BY <3>1, <3>2, StreamTypes
  <2>3. CASE ~(sub[s].closed \/ sub[s].dead) /\ ~sub[s].started
    <3> DEFINE q == [sub[s] EXCEPT !.closed = TRUE]
               recs == [sub EXCEPT ![s] = q]
    <3>1. KillMark(s, recs)
      BY <2>3, StreamTypes DEF Close
    <3>2. /\ q \in SubRec /\ Core(sub[s], q) /\ q.fifo = sub[s].fifo /\ q.slots = sub[s].slots
          /\ q.closedPanes = sub[s].closedPanes
      BY StreamTypes DEF SubRec, Core
    <3> HIDE DEF q
    <3>3. recs[s] = q /\ recs \in [Subs -> SubRec] /\ \A t \in Subs \ {s} : recs[t] = sub[t]
      BY <3>2, StreamTypes
    <3> HIDE DEF recs
    <3> QED BY <3>1, <3>2, <3>3, KillMarkFrames
  <2> QED BY <2>1, <2>2, <2>3
<1> QED BY <1>1, <1>2, <1>3, OneMildFrames

LEMMA ReapFrames ==
  ASSUME Inv, Frames, NEW s \in Subs, Reap(s)
  PROVE  Frames'
<1>1. UNCHANGED <<cur, client, watcher, pane, pub, adp>> /\ subs' \subseteq subs
  BY DEF Reap
<1>2. /\ \A t \in Subs \ {s} : sub'[t] = sub[t]
      /\ sub'[s].fifo = sub[s].fifo /\ sub'[s].slots = sub[s].slots
      /\ sub'[s].closedPanes = sub[s].closedPanes /\ sub'[s].closed = sub[s].closed
      /\ Lives(sub'[s]) => Lives(sub[s])
  <2> DEFINE q == [sub[s] EXCEPT !.wake = TRUE]
  <2>1. sub' = sub \/ sub' = [sub EXCEPT ![s] = q]
    BY StreamTypes DEF Reap
  <2>2. /\ q.fifo = sub[s].fifo /\ q.slots = sub[s].slots /\ q.closedPanes = sub[s].closedPanes
        /\ q.closed = sub[s].closed /\ (Lives(q) => Lives(sub[s]))
    BY StreamTypes DEF SubRec, Lives
  <2> HIDE DEF q
  <2> QED BY <2>1, <2>2, StreamTypes
<1> QED BY <1>1, <1>2, OneMildFrames

LEMMA DropWatchesFrames ==
  ASSUME Inv, Frames, NEW s \in Subs, DropWatches(s)
  PROVE  Frames'
<1>1. UNCHANGED <<cur, client, sub, adp, pub, pane, subs>>
  BY DEF DropWatches
<1>2. \A t \in Subs, p \in Panes : watcher[t][p] = "none" => watcher'[t][p] = "none"
  BY DEF DropWatches, Inv, TypeOK, ReaderType
<1>3. \A t \in Subs, p \in Panes : Elsewhere(t, p)
  BY <1>1, PanesStand
<1> QED BY <1>1, <1>2, <1>3, StillFrames

\* Whoever comes on the bus watches nothing yet.
LEMMA SessionFrames ==
  ASSUME Inv, Frames, NEW s \in Subs, Session(s)
  PROVE  Frames'
<1>1. UNCHANGED <<cur, client, watcher, pane, pub>> /\ subs' \subseteq subs \cup {s} /\ adp[s].pc = "none"
  BY DEF Session
<1>2. /\ adp'[s].pc = "building" /\ \A t \in Subs \ {s} : adp'[t] = adp[t]
  BY DEF Session, Inv, TypeOK, ReaderType
<1>3. /\ \A t \in Subs \ {s} : sub'[t] = sub[t]
      /\ sub'[s].fifo = sub[s].fifo /\ sub'[s].slots = sub[s].slots
      /\ sub'[s].closedPanes = sub[s].closedPanes /\ sub'[s].closed = sub[s].closed
      /\ Lives(sub'[s]) => Lives(sub[s])
  <2> DEFINE q == [sub[s] EXCEPT !.finalized = TRUE, !.finals = AllFinals]
  <2>1. sub' = sub \/ sub' = [sub EXCEPT ![s] = q]
    BY StreamTypes DEF Session
  <2>2. /\ q.fifo = sub[s].fifo /\ q.slots = sub[s].slots /\ q.closedPanes = sub[s].closedPanes
        /\ q.closed = sub[s].closed /\ (Lives(q) => Lives(sub[s]))
    BY StreamTypes DEF SubRec, Lives
  <2> HIDE DEF q
  <2> QED BY <2>1, <2>2, StreamTypes
<1>4. ASSUME NEW t \in Subs \ {s}, NEW p \in Panes PROVE Closed(t, p)' /\ ToldFirst(t, p)'
  <2>1. Mild(t)
    BY <1>1, <1>2, <1>3 DEF Mild, Handed, Making
  <2>2. Elsewhere(t, p)
    BY <1>1 DEF Elsewhere, Past
  <2> QED BY <2>1, <2>2, MildGentle
<1>5. ASSUME NEW p \in Panes PROVE Closed(s, p)' /\ ToldFirst(s, p)'
  <2>1. Closed(s, p) /\ ToldFirst(s, p) /\ ~sub[s].closed
    BY <1>1 DEF Frames, ToldFirst
  <2>2. Clean(s, p) /\ Soft(s, p) /\ ~Has(sub'[s].slots, p)
    BY <1>1, <1>2, <1>3, <2>1 DEF Closed, Clean, Making, Soft
  <2>3. Clean(s, p)'
    BY <2>1, <2>2, SoftClean
  <2>4. Hears(s, p)' => Hears(s, p)
    BY <1>1, <1>3 DEF Hears, Read
  <2>5. Read(s, p)' => ~(Picture(cur'[s]) /\ cur'[s].pane = p)
    BY <1>1, <2>1 DEF Read, Closed
  <2>6. s \notin Silent /\ Picture(cur'[s]) /\ cur'[s].pane = p => p \in client'[s].told
    BY <1>1, <2>1 DEF ToldFirst
  <2>7. ~sub'[s].closed /\ adp'[s].pc # "none" /\ ~Ready(sub'[s].slots, p)
    BY <1>2, <1>3, <2>1, <2>2 DEF Ready
  <2>8. pane[p].pc = "gone" => pane'[p].pc = "gone"
    BY <1>1
  <2>9. p \in sub'[s].closedPanes => ~Has(sub'[s].slots, p)
    BY <2>2
  <2> QED BY <2>1, <2>3, <2>4, <2>5, <2>6, <2>7, <2>8, <2>9, FramesStep
<1> QED BY <1>4, <1>5 DEF Frames

-----------------------------------------------------------------------------
LEMMA PubTypes ==
  ASSUME Inv
  PROVE  /\ pub \in [Actors -> PubRec] /\ Panes \subseteq Actors /\ subs \subseteq Subs
         /\ pane \in [Panes -> [pc : {"live", "detached", "telling", "stopped", "gone"},
                                todo : SUBSET Subs]]
         /\ \A a \in Publishers : a \in Actors /\ a \notin Panes
BY BusBounds DEF Inv, TypeOK, HubType, ReaderType, Actors

LEMMA PublishEventFrames ==
  ASSUME Inv, Frames, NEW a \in Actors, PublishEvent(a)
  PROVE  Frames'
<1>1. UNCHANGED <<cur, client, sub, adp, pane, subs, watcher>>
  BY DEF PublishEvent, PublishBegin
<1>2. \A p \in Panes : pub'[p] = pub[p]
  BY PubTypes DEF PublishEvent, PublishBegin
<1>3. \A t \in Subs, p \in Panes : Elsewhere(t, p)
  BY <1>1, <1>2, PanesStand
<1> QED BY <1>1, <1>3, StillFrames

LEMMA PublishUnlockFrames ==
  ASSUME Inv, Frames, NEW a \in Actors, PublishUnlock(a)
  PROVE  Frames'
<1>1. UNCHANGED <<cur, client, sub, adp, pane, subs, watcher>>
  BY DEF PublishUnlock
<1>2. PICK pc \in {"idle", "kill"} : pub' = [pub EXCEPT ![a] = [pub[a] EXCEPT !.pc = pc]]
  BY PubTypes DEF PublishUnlock
<1>3. \A b \in Actors : pub'[b].pc = "loop" => pub[b].pc = "loop" /\ pub'[b].todo \subseteq pub[b].todo
  BY <1>2, PubTypes DEF PubRec
<1>4. \A t \in Subs, p \in Panes : Elsewhere(t, p)
  BY <1>1, <1>3, PubTypes, PanesStand
<1> QED BY <1>1, <1>4, StillFrames

LEMMA PublishKillFrames ==
  ASSUME Inv, Frames, NEW a \in Actors, NEW s \in Subs, PublishKill(a, s)
  PROVE  Frames'
<1>1. UNCHANGED <<cur, client, watcher, pane, adp, subs>> /\ KillMark(s, sub)
  BY DEF PublishKill
<1> DEFINE over == pub[a].over \ {s}
           pc == IF pub[a].over = {s} THEN "idle" ELSE "kill"
           q == [pub[a] EXCEPT !.over = over, !.pc = pc]
<1>2. pub' = [pub EXCEPT ![a] = q]
  BY PubTypes DEF PublishKill
<1>3. q.pc # "loop"
  <2> HIDE DEF over
  <2> QED BY PubTypes DEF PubRec
<1> HIDE DEF q
<1>4. \A b \in Actors : pub'[b].pc = "loop" => pub[b].pc = "loop" /\ pub'[b].todo \subseteq pub[b].todo
  BY <1>2, <1>3, PubTypes
<1> QED BY <1>1, <1>4, PubTypes, KillFrames

LEMMA PublishToFrames ==
  ASSUME Inv, Streams, Frames, NEW a \in Actors, NEW s \in Subs, PublishTo(a, s)
  PROVE  Frames'
<1> DEFINE m == pub[a].msg
<1>1. UNCHANGED <<cur, client, adp, pane, subs, watcher>> /\ s \in pub[a].todo
  BY DEF PublishTo, Reaches
<1>2. /\ Others(s) /\ Keeps(sub[s], sub'[s]) /\ sub'[s].slots = sub[s].slots
      /\ sub'[s].fifo = Gets(s, m) /\ sub'[s].dead = sub[s].dead
      /\ pub[a].pc = "loop"
  BY PublishToEffect
<1>3. \A b \in Actors : pub'[b].pc = "loop" => pub[b].pc = "loop" /\ pub'[b].todo \subseteq pub[b].todo
  <2> DEFINE todo == pub[a].todo \ {s}
             over == IF Overflows(sub[s], m) THEN pub[a].over \cup {s} ELSE pub[a].over
             q == [pub[a] EXCEPT !.todo = todo, !.over = over]
  <2>1. pub' = [pub EXCEPT ![a] = q]
    BY PubTypes DEF PublishTo
  <2>2. q.pc = pub[a].pc /\ q.todo = todo
    <3> HIDE DEF over, todo
    <3> QED BY PubTypes DEF PubRec
  <2> HIDE DEF q
  <2> QED BY <2>1, <2>2, PubTypes
<1>4. \A t \in Subs, p \in Panes : Elsewhere(t, p)
  BY <1>1, <1>3, PubTypes, PanesStand
<1>5. ASSUME NEW p \in Panes PROVE Closed(s, p)' /\ ToldFirst(s, p)'
  <2>1. m \in Msg /\ (m = ClosedEv(p) => pub[p].pc = "loop" /\ s \in pub[p].todo) /\ ~Untells(m, p)
    <3>1. \/ a \in Publishers /\ m.kind = "event"
          \/ a \in Panes /\ m = ClosedEv(a)
      BY <1>2 DEF Streams, InPublish
    <3>2. m.kind = "event" => m # ClosedEv(p) /\ ~Untells(m, p)
      BY DEF ClosedEv, Plain, Untells
    <3>3. m = ClosedEv(a) => ~Untells(m, p) /\ (m = ClosedEv(p) => a = p)
      BY KindsApart
    <3> QED BY <1>1, <1>2, <3>1, <3>2, <3>3, CarriesQueued
  <2> HIDE DEF m
  <2>2. Longer(s, p) /\ Soft(s, p) /\ Handed(s)
    BY <1>1, <1>2, <2>1 DEF Longer, Gets, Soft, Handed, Making, Keeps
  <2>3. /\ Lives(sub'[s]) => Lives(sub[s])
        /\ adp'[s].pc # "gone" => ~sub'[s].closed
    BY <1>1, <1>2 DEF Lives, Keeps, Core, Frames, ToldFirst
  <2> QED BY <1>2, <1>4, <2>2, <2>3, GentleFrames DEF Frames
<1>6. ASSUME NEW t \in Subs \ {s}, NEW p \in Panes PROVE Closed(t, p)' /\ ToldFirst(t, p)'
  <2>1. Untouched(t)
    BY <1>1, <1>2 DEF Untouched, Handed, Others
  <2> QED BY <1>4, <2>1, UntouchedFrames DEF Frames
<1> QED BY <1>5, <1>6 DEF Frames

-----------------------------------------------------------------------------
\* ClosePane as far as the framer's end: nobody is past it who was not.
LEMMA PaneToFrames ==
  ASSUME Inv, Frames, NEW q \in Panes, ClosePane(q) \/ PaneClosed(q) \/ FramerStop(q)
  PROVE  Frames'
<1>1. UNCHANGED <<cur, client, sub, adp, pub, subs>>
  BY DEF ClosePane, PaneClosed, FramerStop, closeVars
<1>2. /\ \A p \in Panes \ {q} : pane'[p] = pane[p]
      /\ pane[q].pc # "gone"
      /\ \/ pane'[q].pc = "detached"
         \/ pane'[q].pc = "telling" /\ pane'[q].todo = subs
         \/ pane[q].pc = "telling" /\ pane[q].todo = {}
  BY PubTypes DEF ClosePane, PaneClosed, FramerStop, PaneTo, ToRefuse
<1>3. \A t \in Subs, p \in Panes : Elsewhere(t, p)
  BY <1>1, <1>2 DEF Elsewhere, Past
<1>4. \A t \in Subs, p \in Panes : watcher[t][p] = "none" => watcher'[t][p] = "none"
  BY DEF ClosePane, PaneClosed, FramerStop, Inv, TypeOK, ReaderType
<1> QED BY <1>1, <1>3, <1>4, StillFrames

LEMMA PaneClosedToFrames ==
  ASSUME Inv, Frames, NEW q \in Panes, NEW s \in Subs, PaneClosedTo(q, s)
  PROVE  Frames'
<1> DEFINE x == DropSlot(sub[s].slots, q)
           shut == sub[s].closedPanes \cup {q}
           r == [sub[s] EXCEPT !.closedPanes = shut, !.slots = x]
<1>1. UNCHANGED <<cur, client, adp, pub, subs, watcher>> /\ sub' = [sub EXCEPT ![s] = r]
  BY StreamTypes DEF PaneClosedTo, closeVars, ForgetPane
<1>2. /\ r.fifo = sub[s].fifo /\ r.slots = x /\ r.closedPanes = shut /\ r.closed = sub[s].closed
      /\ Lives(r) => Lives(sub[s])
  <2> HIDE DEF x, shut
  <2> QED BY StreamTypes DEF SubRec, Lives
<1> HIDE DEF r
<1>3. sub'[s] = r /\ \A t \in Subs \ {s} : sub'[t] = sub[t]
  BY <1>1, StreamTypes
<1>4. \A p \in Panes : Less(sub[s].slots, x, p) /\ ~Has(x, q)
  BY StreamTypes, LessDrop
<1> HIDE DEF x
<1>5. /\ \A p \in Panes \ {q} : pane'[p] = pane[p]
      /\ pane[q].pc = "telling" /\ pane'[q].pc = "telling" /\ pane'[q].todo = pane[q].todo \ {s}
  BY PubTypes DEF PaneClosedTo, PaneTo
<1>6. ASSUME NEW t \in Subs \ {s}, NEW p \in Panes PROVE Closed(t, p)' /\ ToldFirst(t, p)'
  <2>1. Untouched(t) /\ Elsewhere(t, p)
    BY <1>1, <1>3, <1>5 DEF Untouched, Handed, Elsewhere, Past
  <2> QED BY <2>1, UntouchedFrames DEF Frames
<1>7. ASSUME NEW p \in Panes PROVE Closed(s, p)' /\ ToldFirst(s, p)'
  <2>1. Closed(s, p) /\ ToldFirst(s, p)
    BY DEF Frames
  <2>2. Handed(s) /\ Longer(s, p) /\ (Lives(sub'[s]) => Lives(sub[s]))
        /\ (adp'[s].pc # "gone" => ~sub'[s].closed)
    BY <1>1, <1>2, <1>3, <2>1 DEF Handed, Longer, ToldFirst
  <2>3. CASE p # q
    <3>1. Soft(s, p) /\ Elsewhere(s, p) /\ (Ready(sub'[s].slots, p) => Ready(sub[s].slots, p))
      BY <1>1, <1>2, <1>3, <1>4, <1>5, <2>3 DEF Soft, Less, Elsewhere, Past, Ready, Making
    <3> QED BY <2>1, <2>2, <3>1, GentleFrames
  <2>4. CASE p = q
    <3>1. p \in sub'[s].closedPanes /\ ~Has(sub'[s].slots, p) /\ Clean(s, p)' /\ ~Ready(sub'[s].slots, p)
      BY <1>2, <1>3, <1>4, <2>4 DEF Clean, Ready
    <3>2. Hears(s, p)' => Hears(s, p)
      BY <1>1, <1>2, <1>3 DEF Hears, Read
    <3>3. Read(s, p)' => ~(Picture(cur'[s]) /\ cur'[s].pane = p)
      BY <1>1, <2>1 DEF Read, Closed
    <3>4. s \notin Silent /\ Picture(cur'[s]) /\ cur'[s].pane = p => p \in client'[s].told
      BY <1>1, <2>1 DEF ToldFirst
    <3>5. adp'[s].pc = "none" => ~Has(sub'[s].slots, p) /\ watcher'[s][p] = "none"
      BY <1>1, <2>1, <3>1 DEF Closed
    <3>6. pane[p].pc # "gone"
      BY <1>5, <2>4
    <3> QED BY <2>1, <2>2, <3>1, <3>2, <3>3, <3>4, <3>5, <3>6, FramesStep
  <2> QED BY <2>3, <2>4
<1> QED BY <1>6, <1>7 DEF Frames

\* pane_closed is published to subscribers that ClosePane is done with.
LEMMA AnnounceClosedFrames ==
  ASSUME Inv, Frames, NEW q \in Panes, AnnounceClosed(q)
  PROVE  Frames'
<1>1. UNCHANGED <<cur, client, sub, adp, subs, watcher>> /\ pane[q].pc = "stopped"
  BY DEF AnnounceClosed, PublishBegin
<1>2. /\ \A p \in Panes \ {q} : pane'[p] = pane[p] /\ pub'[p] = pub[p]
      /\ pane'[q].pc = "gone" /\ pub'[q].todo = subs
  BY PubTypes DEF AnnounceClosed, PublishBegin, PaneTo
<1>3. ASSUME NEW t \in Subs, NEW p \in Panes PROVE Closed(t, p)' /\ ToldFirst(t, p)'
  <2>1. Untouched(t) /\ Closed(t, p) /\ ToldFirst(t, p)
    BY <1>1 DEF Untouched, Handed, Frames
  <2>2. CASE p # q
    <3>1. Elsewhere(t, p)
      BY <1>1, <1>2, <2>2 DEF Elsewhere, Past
    <3> QED BY <2>1, <3>1, UntouchedFrames
  <2>3. CASE p = q
    <3>1. Clean(t, p)' <=> Clean(t, p)
      BY <1>1 DEF Clean, Making
    <3>2. t \in subs => Clean(t, p)
      BY <1>1, <2>1, <2>3 DEF Closed, Past
    <3>3. Hears(t, p)' => Hears(t, p) \/ (pane'[p].pc = "gone" /\ Clean(t, p)')
      BY <1>1, <1>2, <2>3, <3>1, <3>2 DEF Hears, Read
    <3>4. Read(t, p)' => ~(Picture(cur'[t]) /\ cur'[t].pane = p)
      BY <1>1, <2>1 DEF Read, Closed
    <3>5. t \notin Silent /\ Picture(cur'[t]) /\ cur'[t].pane = p => p \in client'[t].told
      BY <1>1, <2>1 DEF ToldFirst
    <3>6. /\ adp'[t].pc = "none" => ~Has(sub'[t].slots, p) /\ watcher'[t][p] = "none"
          /\ p \in sub'[t].closedPanes => ~Has(sub'[t].slots, p)
      BY <1>1, <2>1 DEF Closed
    <3>7. adp'[t].pc # "gone" => ~sub'[t].closed
      BY <1>1, <2>1 DEF ToldFirst
    <3>8. t \notin Silent /\ Ready(sub'[t].slots, p) /\ Lives(sub'[t]) => WillBeTold(t, p)'
      BY <1>1, <2>1 DEF ToldFirst, Ready, WillBeTold
    <3>9. pane'[p].pc = "gone" /\ (t \in subs' => Clean(t, p)')
      BY <1>1, <1>2, <2>3, <3>1, <3>2
    <3> QED BY <2>1, <3>1, <3>3, <3>4, <3>5, <3>6, <3>7, <3>8, <3>9, FramesStep
  <2> QED BY <2>2, <2>3
<1> QED BY <1>3 DEF Frames

LEMMA FinalizeOnFrames ==
  ASSUME Inv, Frames, FinalizeBegin \/ FinalizeAwait \/ FinalizeCut \/ FinalizeReturn
  PROVE  Frames'
<1>1. UNCHANGED <<cur, client, sub, adp, pub, pane, subs, watcher>>
  BY DEF FinalizeBegin, FinalizeAwait, FinalizeCut, FinalizeReturn, finVars
<1>2. \A t \in Subs, p \in Panes : Elsewhere(t, p)
  BY <1>1, PanesStand
<1> QED BY <1>1, <1>2, StillFrames

LEMMA FinalizeKillFrames ==
  ASSUME Inv, Frames, NEW s \in Subs, FinalizeKill(s)
  PROVE  Frames'
<1>1. UNCHANGED <<cur, client, watcher, pane, adp, subs, pub>> /\ KillMark(s, sub)
  BY DEF FinalizeKill, finVars
<1> QED BY <1>1, KillFrames

\* Finalize leaves nothing queued and no slot.
LEMMA FinalizeSubFrames ==
  ASSUME Inv, Frames, NEW s \in Subs, FinalizeSub(s)
  PROVE  Frames'
<1>1. UNCHANGED <<cur, client, watcher, pane, adp, subs, pub>> /\ sub' = [sub EXCEPT ![s] = Finalized(sub[s])]
  BY DEF FinalizeSub, finVars
<1>2. \A t \in Subs \ {s} : sub'[t] = sub[t]
  BY <1>1, StreamTypes
<1>3. \A t \in Subs, p \in Panes : Elsewhere(t, p)
  BY <1>1, PanesStand
<1>4. ASSUME NEW p \in Panes PROVE Closed(s, p)' /\ ToldFirst(s, p)'
  <2>1. CASE sub'[s] = sub[s]
    <3>1. Untouched(s)
      BY <1>1, <2>1 DEF Untouched, Handed
    <3> QED BY <1>3, <3>1, UntouchedFrames DEF Frames
  <2>2. CASE sub'[s] # sub[s]
    <3>1. /\ sub'[s].fifo = << >> /\ sub'[s].slots = NoSlots /\ sub'[s].finalized
          /\ sub'[s].closedPanes = sub[s].closedPanes /\ sub'[s].closed = sub[s].closed
      <4> DEFINE q == [sub[s] EXCEPT !.finalized = TRUE, !.fifo = << >>, !.bytes = 0,
                                     !.slots = NoSlots, !.finals = AllFinals, !.wake = TRUE]
      <4>1. sub'[s] = q
        BY <1>1, <2>2, StreamTypes DEF Finalized
      <4>2. /\ q.fifo = << >> /\ q.slots = NoSlots /\ q.finalized
            /\ q.closedPanes = sub[s].closedPanes /\ q.closed = sub[s].closed
        BY StreamTypes DEF SubRec
      <4> HIDE DEF q
      <4> QED BY <4>1, <4>2
    <3>2. Less(sub[s].slots, sub'[s].slots, p) /\ ~Has(sub'[s].slots, p)
      BY <3>1, LessNone
    <3>3. Soft(s, p) /\ Longer(s, p) /\ Handed(s) /\ (Lives(sub'[s]) => Lives(sub[s]))
      BY <1>1, <3>1, <3>2 DEF Soft, Less, Longer, Handed, Lives, Making
    <3>4. adp'[s].pc # "gone" => ~sub'[s].closed
      BY <1>1, <3>1 DEF Frames, ToldFirst
    <3>5. ~Ready(sub'[s].slots, p)
      BY <3>2 DEF Ready
    <3> QED BY <1>3, <3>3, <3>4, <3>5, GentleFrames DEF Frames
  <2> QED BY <2>1, <2>2
<1>5. ASSUME NEW t \in Subs \ {s}, NEW p \in Panes PROVE Closed(t, p)' /\ ToldFirst(t, p)'
  <2>1. Untouched(t)
    BY <1>1, <1>2 DEF Untouched, Handed
  <2> QED BY <1>3, <2>1, UntouchedFrames DEF Frames
<1> QED BY <1>4, <1>5 DEF Frames

-----------------------------------------------------------------------------
(* Frames, action by action: the writer.                                   *)

\* What a writer's step leaves alone.
aroundVars == <<pub, adp, watcher, pane>>

LEMMA WriterStillFrames ==
  ASSUME Inv, Frames, NEW s \in Subs, Park(s) \/ Stop(s) \/ Exit(s)
  PROVE  Frames'
<1>1. UNCHANGED <<cur, client, sub, adp, pub, pane, watcher>> /\ subs' \subseteq subs
  BY DEF Park, Stop, Exit, takeVars
<1>2. \A t \in Subs, p \in Panes : Elsewhere(t, p)
  BY <1>1, PanesStand
<1> QED BY <1>1, <1>2, StillFrames

LEMMA WakeFrames ==
  ASSUME Inv, Frames, NEW s \in Subs, Wake(s)
  PROVE  Frames'
<1> DEFINE q == [sub[s] EXCEPT !.wake = FALSE]
<1>1. UNCHANGED <<cur, client, watcher, pane, pub, adp, subs>> /\ sub' = [sub EXCEPT ![s] = q]
  BY StreamTypes DEF Wake, takeVars
<1>2. /\ q.fifo = sub[s].fifo /\ q.slots = sub[s].slots /\ q.closedPanes = sub[s].closedPanes
      /\ q.closed = sub[s].closed /\ (Lives(q) => Lives(sub[s]))
  BY StreamTypes DEF SubRec, Lives
<1> HIDE DEF q
<1>3. sub'[s] = q /\ \A t \in Subs \ {s} : sub'[t] = sub[t]
  BY <1>1, StreamTypes
<1> QED BY <1>1, <1>2, <1>3, OneMildFrames

\* The writer of s moves: what holds of the others holds still.
LEMMA MovedFrames ==
  ASSUME Inv, Frames, NEW s \in Subs, UNCHANGED <<aroundVars, subs>>,
         \A t \in Subs \ {s} : sub'[t] = sub[t] /\ cur'[t] = cur[t] /\ client'[t] = client[t],
         \A p \in Panes : Closed(s, p)' /\ ToldFirst(s, p)'
  PROVE  Frames'
<1> SUFFICES ASSUME NEW t \in Subs \ {s}, NEW p \in Panes PROVE Closed(t, p)' /\ ToldFirst(t, p)'
  BY DEF Frames
<1>1. Untouched(t) /\ Elsewhere(t, p)
  BY DEF Untouched, Handed, Elsewhere, Past, aroundVars
<1> QED BY <1>1, UntouchedFrames DEF Frames

\* What a writer's step must see to, of s and p.
LEMMA MovedOne ==
  ASSUME Inv, Frames, NEW s \in Subs, NEW p \in Panes, UNCHANGED <<aroundVars, subs>>,
         sub'[s].closedPanes = sub[s].closedPanes, sub'[s].closed = sub[s].closed,
         Less(sub[s].slots, sub'[s].slots, p),
         Hears(s, p)' => Hears(s, p),
         Read(s, p)' => ~(Picture(cur'[s]) /\ cur'[s].pane = p),
         s \notin Silent /\ Picture(cur'[s]) /\ cur'[s].pane = p => p \in client'[s].told,
         s \notin Silent /\ Ready(sub[s].slots, p) /\ Lives(sub'[s]) => WillBeTold(s, p)'
  PROVE  Closed(s, p)' /\ ToldFirst(s, p)'
<1>1. Closed(s, p) /\ ToldFirst(s, p)
  BY DEF Frames
<1>2. Soft(s, p) /\ (Ready(sub'[s].slots, p) => Ready(sub[s].slots, p))
  BY DEF Less, Soft, Ready, Making, aroundVars
<1>3. s \in subs' /\ Past(s, p)' => Clean(s, p)'
  BY <1>1, <1>2, SoftClean DEF Past, Closed, aroundVars
<1>4. pane[p].pc = "gone" => pane'[p].pc = "gone"
  BY DEF aroundVars
<1>5. adp'[s].pc # "gone" => ~sub'[s].closed
  BY <1>1 DEF ToldFirst, aroundVars
<1> QED BY <1>1, <1>2, <1>3, <1>4, <1>5, SoftClean, FramesStep

LEMMA HandFrames ==
  ASSUME Inv, NEW s \in Subs, NEW m, NEW q, Hand(s, m, q)
  PROVE  /\ UNCHANGED <<aroundVars, subs, client>> /\ sub'[s] = q /\ cur'[s] = m
         /\ \A t \in Subs \ {s} : sub'[t] = sub[t] /\ cur'[t] = cur[t] /\ client'[t] = client[t]
<1>1. UNCHANGED <<aroundVars, subs, client>> /\ sub' = [sub EXCEPT ![s] = q]
      /\ cur' = [cur EXCEPT ![s] = m]
  BY DEF Hand, takeVars, aroundVars
<1> QED BY <1>1, StreamTypes

\* The writer takes the aggregate or a final: no word about any pane.
LEMMA PlainTaken ==
  ASSUME Inv, Streams, Frames, NEW s \in Subs, NEW m, NEW q, Taking(s), Hand(s, m, q),
         m = Aggregate \/ \E i : m = Final(i),
         q.fifo = sub[s].fifo, q.slots = sub[s].slots, q.closedPanes = sub[s].closedPanes,
         q.closed = sub[s].closed, Lives(q) => Lives(sub[s])
  PROVE  Frames'
<1>1. /\ UNCHANGED <<aroundVars, subs, client>> /\ sub'[s] = q /\ cur'[s] = m
      /\ \A t \in Subs \ {s} : sub'[t] = sub[t] /\ cur'[t] = cur[t] /\ client'[t] = client[t]
  BY HandFrames
<1>2. cur[s] = NoMsg
  BY AtTake
<1>3. ASSUME NEW p \in Panes PROVE Closed(s, p)' /\ ToldFirst(s, p)'
  <2>1. m # ClosedEv(p) /\ ~Untells(m, p) /\ ~Picture(m) /\ NoMsg # Watching(p)
    BY KindsApart
  <2>2. Less(sub[s].slots, q.slots, p)
    BY LessSame
  <2>3. Hears(s, p)' => Hears(s, p)
    BY <1>1, <2>1 DEF Hears, Read, aroundVars
  <2>4. s \notin Silent /\ Ready(sub[s].slots, p) /\ Lives(sub'[s]) => WillBeTold(s, p)'
    BY <1>1, <1>2, <2>1 DEF Frames, ToldFirst, Ready, WillBeTold
  <2> QED BY <1>1, <2>1, <2>2, <2>3, <2>4, MovedOne
<1> QED BY <1>1, <1>3, MovedFrames

LEMMA TakeHeadFrames ==
  ASSUME Inv, Streams, Frames, NEW s \in Subs, TakeHead(s)
  PROVE  Frames'
<1> DEFINE q == [sub[s] EXCEPT !.head = FALSE]
<1>1. Taking(s) /\ Hand(s, Aggregate, q)
  BY DEF TakeHead
<1>2. /\ q.fifo = sub[s].fifo /\ q.slots = sub[s].slots /\ q.closedPanes = sub[s].closedPanes
      /\ q.closed = sub[s].closed /\ (Lives(q) => Lives(sub[s]))
  BY StreamTypes DEF SubRec, Lives
<1> HIDE DEF q
<1> QED BY <1>1, <1>2, PlainTaken

LEMMA TakeFinalFrames ==
  ASSUME Inv, Streams, Frames, NEW s \in Subs, TakeFinal(s)
  PROVE  Frames'
<1> DEFINE rest == Tail(sub[s].finals)
           q == [sub[s] EXCEPT !.finals = rest]
<1>1. Taking(s) /\ Hand(s, Final(sub[s].finals[1]), q)
  BY DEF TakeFinal
<1>2. /\ q.fifo = sub[s].fifo /\ q.slots = sub[s].slots /\ q.closedPanes = sub[s].closedPanes
      /\ q.closed = sub[s].closed /\ (Lives(q) => Lives(sub[s]))
  <2> HIDE DEF rest
  <2> QED BY StreamTypes DEF SubRec, Lives
<1> HIDE DEF q
<1> QED BY <1>1, <1>2, PlainTaken

\* The rest of a queue is its messages but the first, in their places.
LEMMA TailParts ==
  ASSUME NEW q \in Seq(Msg), q # << >>
  PROVE  /\ Len(q) \in Nat \ {0} /\ Len(Tail(q)) = Len(q) - 1
         /\ \A i \in 1..Len(Tail(q)) : Tail(q)[i] = q[i + 1]
         /\ q[1] \in Msg
OBVIOUS

LEMMA TakeFifoFrames ==
  ASSUME Inv, Streams, Frames, NEW s \in Subs, TakeFifo(s)
  PROVE  Frames'
<1> DEFINE old == sub[s].fifo
           rest == Tail(old)
           m == old[1]
           q == [sub[s] EXCEPT !.fifo = rest, !.bytes = @ - Size(m)]
<1>1. Taking(s) /\ Hand(s, m, q) /\ old # << >>
  BY DEF TakeFifo, Live
<1>2. /\ q.fifo = rest /\ q.slots = sub[s].slots /\ q.closedPanes = sub[s].closedPanes
      /\ q.closed = sub[s].closed /\ (Lives(q) => Lives(sub[s]))
  <2> HIDE DEF rest
  <2> QED BY StreamTypes DEF SubRec, Lives
<1> HIDE DEF q
<1>3. /\ UNCHANGED <<aroundVars, subs, client>> /\ sub'[s] = q /\ cur'[s] = m
      /\ \A t \in Subs \ {s} : sub'[t] = sub[t] /\ cur'[t] = cur[t] /\ client'[t] = client[t]
  BY <1>1, HandFrames
<1>4. cur[s] = NoMsg /\ OnStream(s)
  BY <1>1, AtTake
<1>5. /\ Len(old) \in Nat \ {0} /\ Len(rest) = Len(old) - 1
      /\ \A i \in 1..Len(rest) : rest[i] = old[i + 1]
  BY <1>1, StreamTypes, TailParts
<1>6. m.kind \in QueueKinds /\ ~Picture(m)
  BY <1>4, <1>5 DEF OnStream, Hands, QueueKinds, Picture
<1>7. sub'[s].fifo = rest
  BY <1>2, <1>3
<1> HIDE DEF rest
<1>8. ASSUME NEW p \in Panes PROVE Closed(s, p)' /\ ToldFirst(s, p)'
  <2>1. Hears(s, p)' => Hears(s, p)
    <3>1. ASSUME NEW i \in 1..Len(rest), rest[i] = ClosedEv(p) PROVE Hears(s, p)
      <4>1. i + 1 \in 1..Len(old) /\ old[i + 1] = ClosedEv(p)
        BY <1>5, <3>1
      <4> QED BY <4>1 DEF Hears
    <3>2. ASSUME m = ClosedEv(p) PROVE Hears(s, p)
      <4>1. 1 \in 1..Len(old)
        BY <1>5
      <4> QED BY <3>2, <4>1 DEF Hears
    <3> QED BY <1>3, <1>7, <3>1, <3>2 DEF Hears, Read, aroundVars
  <2>2. Less(sub[s].slots, q.slots, p)
    BY <1>2, LessSame
  <2>3. ASSUME s \notin Silent, Ready(sub[s].slots, p), Lives(sub'[s]) PROVE WillBeTold(s, p)'
    <3>1. WillBeTold(s, p)
      BY <1>2, <1>3, <2>3 DEF Frames, ToldFirst, Ready
    <3>2. CASE \E i \in 1..Len(old) :
                  old[i] = Watching(p) /\ \A j \in (i + 1)..Len(old) : ~Untells(old[j], p)
      <4>1. PICK i \in 1..Len(old) :
                  old[i] = Watching(p) /\ \A j \in (i + 1)..Len(old) : ~Untells(old[j], p)
        BY <3>2
      <4>2. CASE i = 1
        <5>1. m = Watching(p) /\ ~Untells(m, p)
          BY <4>1, <4>2, KindsApart
        <5>2. \A j \in 1..Len(rest) : ~Untells(rest[j], p)
          <6> SUFFICES ASSUME NEW j \in 1..Len(rest) PROVE ~Untells(rest[j], p)
            OBVIOUS
          <6>1. j + 1 \in (i + 1)..Len(old) /\ rest[j] = old[j + 1]
            BY <1>5, <4>2
          <6> QED BY <4>1, <6>1
        <5> QED BY <1>3, <1>7, <5>1, <5>2 DEF WillBeTold
      <4>3. CASE i # 1
        <5>1. i - 1 \in 1..Len(rest) /\ rest[i - 1] = old[i]
          BY <1>5, <4>3
        <5>2. \A j \in ((i - 1) + 1)..Len(rest) : ~Untells(rest[j], p)
          <6> SUFFICES ASSUME NEW j \in ((i - 1) + 1)..Len(rest) PROVE ~Untells(rest[j], p)
            OBVIOUS
          <6>1. j + 1 \in (i + 1)..Len(old) /\ rest[j] = old[j + 1]
            BY <1>5, <4>3
          <6> QED BY <4>1, <6>1
        <5>3. \E k \in 1..Len(rest) : rest[k] = Watching(p) /\ \A j \in (k + 1)..Len(rest) : ~Untells(rest[j], p)
          BY <4>1, <5>1, <5>2
        <5> QED BY <1>7, <5>3 DEF WillBeTold
      <4> QED BY <4>2, <4>3
    <3>3. CASE /\ \A j \in 1..Len(old) : ~Untells(old[j], p)
               /\ cur[s] = Watching(p) \/ p \in client[s].told
      <4>1. NoMsg # Watching(p)
        BY KindsApart
      <4>2. p \in client'[s].told /\ ~Untells(m, p)
        <5>1. 1 \in 1..Len(old)
          BY <1>5
        <5> QED BY <1>3, <1>4, <3>3, <4>1, <5>1
      <4>3. \A j \in 1..Len(rest) : ~Untells(rest[j], p)
        <5> SUFFICES ASSUME NEW j \in 1..Len(rest) PROVE ~Untells(rest[j], p)
          OBVIOUS
        <5>1. j + 1 \in 1..Len(old) /\ rest[j] = old[j + 1]
          BY <1>5
        <5> QED BY <3>3, <5>1
      <4> QED BY <1>3, <1>7, <4>2, <4>3 DEF WillBeTold
    <3> QED BY <3>1, <3>2, <3>3 DEF WillBeTold
  <2> QED BY <1>2, <1>3, <1>6, <2>1, <2>2, <2>3, MovedOne
<1> QED BY <1>3, <1>8, MovedFrames

\* A frame is taken of a slot that is not clean, once the queue is empty.
LEMMA TakeFrameFrames ==
  ASSUME Inv, Streams, Frames, NEW s \in Subs, TakeFrame(s)
  PROVE  Frames'
<1> DEFINE x == TakeSlot(sub[s].slots)
           v == Served(sub[s].slots)
           m == FrameOf(sub[s].slots, v)
           q == [sub[s] EXCEPT !.slots = x]
<1>1. /\ Taking(s) /\ Hand(s, m, q) /\ sub[s].fifo = << >> /\ HasPending(sub[s].slots)
      /\ ~sub[s].finalized
  BY DEF TakeFrame, Live
<1>2. /\ \A p \in Panes : Less(sub[s].slots, x, p)
      /\ Pending(sub[s].slots, v) /\ m.pane = v
  BY <1>1, StreamTypes, LessTake
<1>3. Picture(m)
  BY DEF Picture, FrameOf
<1> HIDE DEF x, v, m
<1>4. /\ q.fifo = sub[s].fifo /\ q.slots = x /\ q.closedPanes = sub[s].closedPanes
      /\ q.closed = sub[s].closed /\ (Lives(q) => Lives(sub[s]))
  BY StreamTypes DEF SubRec, Lives
<1> HIDE DEF q
<1>5. /\ UNCHANGED <<aroundVars, subs, client>> /\ sub'[s] = q /\ cur'[s] = m
      /\ \A t \in Subs \ {s} : sub'[t] = sub[t] /\ cur'[t] = cur[t] /\ client'[t] = client[t]
  BY <1>1, HandFrames
<1>6. cur[s] = NoMsg /\ Lives(sub[s])
  BY <1>1, AtTake DEF Lives
<1>7. ASSUME NEW p \in Panes PROVE Closed(s, p)' /\ ToldFirst(s, p)'
  <2>1. m # ClosedEv(p) /\ ~Untells(m, p) /\ NoMsg # Watching(p)
    <3>1. NoMsg # Watching(p)
      BY KindsApart
    <3> QED BY <1>3, <3>1 DEF Picture, ClosedEv, Plain, Untells
  <2>2. Hears(s, p)' => Hears(s, p)
    BY <1>4, <1>5, <2>1 DEF Hears, Read, aroundVars
  <2>3. Closed(s, p) /\ ToldFirst(s, p)
    BY DEF Frames
  <2>4. Read(s, p)' => ~(Picture(cur'[s]) /\ cur'[s].pane = p)
    <3> SUFFICES ASSUME Read(s, p)', m.pane = p PROVE FALSE
      BY <1>5
    <3>1. Clean(s, p)
      BY <1>5, <2>3 DEF Read, Hears, Closed
    <3>2. Has(sub[s].slots, p) /\ sub[s].slots.at[p].full
      BY <1>2 DEF Pending
    <3> QED BY <2>3, <3>1, <3>2 DEF Closed, Clean
  <2>5. s \notin Silent /\ Ready(sub[s].slots, p) => p \in client[s].told
    BY <1>1, <1>6, <2>1, <2>3 DEF ToldFirst, Ready, WillBeTold
  <2>6. s \notin Silent /\ Picture(cur'[s]) /\ cur'[s].pane = p => p \in client'[s].told
    BY <1>2, <1>5, <2>5 DEF Pending, Ready
  <2>7. s \notin Silent /\ Ready(sub[s].slots, p) /\ Lives(sub'[s]) => WillBeTold(s, p)'
    BY <1>1, <1>4, <1>5, <2>1, <2>5 DEF WillBeTold
  <2> QED BY <1>2, <1>4, <1>5, <2>2, <2>4, <2>6, <2>7, MovedOne
<1> QED BY <1>5, <1>7, MovedFrames

\* What a peer knows once it has read a message.
LEMMA ToldOn ==
  ASSUME NEW c \in ClientRec, NEW m \in Msg, NEW p
  PROVE  ~Untells(m, p) /\ (m = Watching(p) \/ p \in c.told) => p \in Received(c, m).told
<1>1. CASE m.kind \in {"frame", "changed"}
  BY <1>1 DEF Received, ClientRec, Watching, Plain, Untells
<1>2. CASE m.kind \notin {"frame", "changed"}
  <2>1. Received(c, m).told = Told(c.told, m)
    BY <1>2 DEF Received, ClientRec
  <2>2. m = Watching(p) => m.kind = "watching" /\ m.pane = p
    BY DEF Watching, Plain
  <2>3. CASE m.kind = "watching"
    BY <2>1, <2>2, <2>3 DEF Told, Untells
  <2>4. CASE m.kind \in {"left", "refused"}
    BY <2>1, <2>2, <2>4 DEF Told, Untells
  <2>5. CASE m.kind \notin {"watching", "left", "refused"}
    BY <2>1, <2>2, <2>5 DEF Told, Untells
  <2> QED BY <2>3, <2>4, <2>5
<1> QED BY <1>1, <1>2

LEMMA WriteOkFrames ==
  ASSUME Inv, Streams, Frames, NEW s \in Subs, WriteOk(s)
  PROVE  Frames'
<1> DEFINE m == cur[s]
           w == client[s].wire
<1>1. /\ UNCHANGED <<aroundVars, subs, sub>>
      /\ cur' = [cur EXCEPT ![s] = NoMsg] /\ client' = [client EXCEPT ![s] = Received(@, m)]
  BY DEF WriteOk, writeVars, aroundVars
<1>2. /\ cur'[s] = NoMsg /\ client'[s] = Received(client[s], m)
      /\ client'[s].wire = (IF Picture(m) THEN w ELSE Append(w, m))
      /\ \A t \in Subs \ {s} : sub'[t] = sub[t] /\ cur'[t] = cur[t] /\ client'[t] = client[t]
  BY <1>1, StreamTypes, ReadOn
<1>3. ASSUME NEW p \in Panes PROVE Closed(s, p)' /\ ToldFirst(s, p)'
  <2>1. Closed(s, p) /\ ToldFirst(s, p)
    BY DEF Frames
  <2>2. NoMsg # ClosedEv(p) /\ ~Untells(NoMsg, p) /\ ~Picture(NoMsg)
    BY KindsApart
  <2>3. Read(s, p)' => Read(s, p) \/ m = ClosedEv(p)
    <3> SUFFICES ASSUME NEW i \in 1..Len(client'[s].wire), client'[s].wire[i] = ClosedEv(p)
                 PROVE  Read(s, p) \/ m = ClosedEv(p)
      BY DEF Read
    <3>1. CASE Picture(m)
      BY <1>2, <3>1 DEF Read
    <3>2. CASE ~Picture(m)
      <4>1. i \in 1..Len(w) \/ i = Len(w) + 1
        BY <1>2, <3>2, StreamTypes, AppendTo
      <4>2. (i \in 1..Len(w) /\ w[i] = ClosedEv(p)) \/ m = ClosedEv(p)
        BY <1>2, <3>2, <4>1, StreamTypes, AppendTo
      <4> QED BY <4>2 DEF Read
    <3> QED BY <3>1, <3>2
  <2>4. Hears(s, p)' => Hears(s, p)
    <3>1. cur'[s] # ClosedEv(p)
      BY <1>2, <2>2
    <3> QED BY <1>1, <2>3, <3>1 DEF Hears, aroundVars
  <2>5. s \notin Silent /\ Ready(sub[s].slots, p) /\ Lives(sub'[s]) => WillBeTold(s, p)'
    <3> SUFFICES ASSUME s \notin Silent, Ready(sub[s].slots, p), Lives(sub'[s]) PROVE WillBeTold(s, p)'
      OBVIOUS
    <3>1. WillBeTold(s, p)
      BY <1>1, <2>1 DEF ToldFirst, Ready
    <3>2. ~Untells(m, p) /\ (m = Watching(p) \/ p \in client[s].told) => p \in client'[s].told
      BY <1>2, StreamTypes, ToldOn
    <3>3. sub'[s] = sub[s] /\ ~Untells(cur'[s], p)
      BY <1>1, <1>2, <2>2
    <3> QED BY <3>1, <3>2, <3>3 DEF WillBeTold
  <2>6. Less(sub[s].slots, sub'[s].slots, p)
    BY <1>1, LessSame
  <2> QED BY <1>1, <1>2, <2>2, <2>4, <2>5, <2>6, MovedOne
<1> QED BY <1>1, <1>2, <1>3, MovedFrames

LEMMA WriteFailFrames ==
  ASSUME Inv, Streams, Frames, NEW s \in Subs, NEW torn \in BOOLEAN, WriteFail(s, torn)
  PROVE  Frames'
<1> DEFINE q == [sub[s] EXCEPT !.failed = TRUE, !.torn = @ \/ torn]
           c == [client[s] EXCEPT !.torn = @ \/ torn]
<1>1. /\ UNCHANGED <<aroundVars, subs>> /\ cur' = [cur EXCEPT ![s] = NoMsg]
      /\ sub' = [sub EXCEPT ![s] = q] /\ client' = [client EXCEPT ![s] = c]
  BY StreamTypes DEF WriteFail, writeVars, aroundVars
<1>2. /\ q.failed /\ q.fifo = sub[s].fifo /\ q.slots = sub[s].slots
      /\ q.closedPanes = sub[s].closedPanes /\ q.closed = sub[s].closed
      /\ c.wire = client[s].wire
  BY StreamTypes DEF SubRec, ClientRec
<1> HIDE DEF q, c
<1>3. /\ cur'[s] = NoMsg /\ sub'[s] = q /\ client'[s] = c
      /\ \A t \in Subs \ {s} : sub'[t] = sub[t] /\ cur'[t] = cur[t] /\ client'[t] = client[t]
  BY <1>1, StreamTypes
<1>4. ASSUME NEW p \in Panes PROVE Closed(s, p)' /\ ToldFirst(s, p)'
  <2>1. NoMsg # ClosedEv(p) /\ ~Picture(NoMsg)
    BY KindsApart
  <2>2. Hears(s, p)' => Hears(s, p)
    BY <1>1, <1>2, <1>3, <2>1 DEF Hears, Read, aroundVars
  <2>3. ~Lives(sub'[s])
    BY <1>2, <1>3 DEF Lives
  <2>4. Less(sub[s].slots, sub'[s].slots, p)
    BY <1>2, <1>3, LessSame
  <2> QED BY <1>1, <1>2, <1>3, <2>1, <2>2, <2>3, <2>4, MovedOne
<1> QED BY <1>1, <1>3, <1>4, MovedFrames

-----------------------------------------------------------------------------
LEMMA InitFrames == Init => Frames
<1> SUFFICES ASSUME Init, NEW s \in Subs, NEW p \in Panes PROVE Closed(s, p) /\ ToldFirst(s, p)
  BY DEF Frames
<1>1. /\ sub[s] = NewSub /\ cur[s] = NoMsg /\ client[s].wire = << >> /\ watcher[s][p] = "none"
      /\ pane[p].pc = "live" /\ adp[s].pc = "none" /\ subs = {}
  BY DEF Init
<1>2. p \in Actors => pub[p].pc # "loop"
  BY DEF Init, NoPub
<1>3. p \in Actors
  BY DEF Actors
<1>4. /\ NewSub.fifo = << >> /\ NewSub.slots = NoSlots /\ NewSub.closedPanes = {} /\ ~NewSub.closed
      /\ ~Has(NoSlots, p)
  BY LessNone DEF NewSub
<1>5. NoMsg # ClosedEv(p) /\ ~Picture(NoMsg)
  BY KindsApart
<1>6. ~Hears(s, p) /\ ~Read(s, p)
  BY <1>1, <1>2, <1>3, <1>4, <1>5 DEF Hears, Read
<1>7. Closed(s, p)
  BY <1>1, <1>4, <1>6 DEF Closed
<1>8. ToldFirst(s, p)
  BY <1>1, <1>4, <1>5 DEF ToldFirst
<1> QED BY <1>7, <1>8

LEMMA NextFrames == Inv /\ Streams /\ Frames /\ [Next]_vars => Frames'
<1> SUFFICES ASSUME Inv, Streams, Frames, [Next]_vars PROVE Frames'
  OBVIOUS
<1>1. ASSUME NEW s \in Subs, Session(s) \/ Start(s) \/ Send(s) \/ Close(s) PROVE Frames'
  BY <1>1, SessionFrames, StartFrames, SendFrames, CloseFrames
<1>2. ASSUME NEW s \in Subs, Killing(s) PROVE Frames'
  BY <1>2, ReapFrames, DropWatchesFrames DEF Killing
<1>3. ASSUME NEW s \in Subs, Watch(s) PROVE Frames'
  BY <1>3, WatchAddSlotFrames, WatchResolveFrames, WatchAddFrames, WatchAnswerFrames,
     UnwatchLeaveFrames, UnwatchAnswerFrames, ResyncFrames, OfferFrames, OfferChangedFrames
  DEF Watch
<1>4. ASSUME NEW s \in Subs, Writer(s) PROVE Frames'
  BY <1>4, TakeHeadFrames, TakeFinalFrames, TakeFifoFrames, TakeFrameFrames, WriterStillFrames,
     WakeFrames
  DEF Writer
<1>5. ASSUME NEW s \in Subs, Write(s) PROVE Frames'
  BY <1>5, WriteOkFrames, WriteFailFrames DEF Write
<1>6. ASSUME NEW a \in Actors, PublishEvent(a) \/ Publishing(a) PROVE Frames'
  BY <1>6, PublishEventFrames, PublishUnlockFrames, PublishToFrames, PublishKillFrames
  DEF Publishing
<1>7. ASSUME NEW p \in Panes, ClosePane(p) \/ Closing(p) PROVE Frames'
  BY <1>7, PaneToFrames, AnnounceClosedFrames, PaneClosedToFrames DEF Closing
<1>8. CASE FinalizeBegin \/ Finalizing
  BY <1>8, FinalizeOnFrames, FinalizeSubFrames, FinalizeKillFrames DEF Finalizing
<1>9. CASE UNCHANGED vars
  <2>1. UNCHANGED <<cur, client, sub, adp, pub, pane, watcher, subs>>
    BY <1>9 DEF vars
  <2>2. \A t \in Subs, p \in Panes : Elsewhere(t, p)
    BY <2>1, PanesStand
  <2> QED BY <2>1, <2>2, StillFrames
<1> QED BY <1>1, <1>2, <1>3, <1>4, <1>5, <1>6, <1>7, <1>8, <1>9 DEF Next

LEMMA FramesKeep == Inv /\ Frames => FramesKeepTheirPlace
<1> SUFFICES ASSUME Inv, Frames PROVE FramesKeepTheirPlace
  OBVIOUS
<1>1. \A s \in Subs : Picture(cur[s]) => cur[s].pane \in Panes
  BY DEF Inv, TypeOK, WriterType, Msg, FrameMsg, PlainMsg, Picture
<1>2. NoFrameAfterClosed
  BY <1>1 DEF Frames, Closed, Read, NoFrameAfterClosed
<1>3. FrameOnlyIfTold
  BY <1>1 DEF Frames, ToldFirst, FrameOnlyIfTold
<1> QED BY <1>2, <1>3 DEF FramesKeepTheirPlace

-----------------------------------------------------------------------------
LEMMA InitHolds == Init => IInv
BY InitInv, InitStreams, InitFrames DEF IInv

LEMMA NextHolds == IInv /\ [Next]_vars => IInv'
BY NextInv, NextStreams, NextFrames DEF IInv

LEMMA HoldsSays == IInv => SubscribersHearAll /\ FramesKeepTheirPlace
BY StreamsHear, FramesKeep DEF IInv

(* Whoever subscribed hears everything from the cut to the finals, however *)
(* many there are and in whatever order Publish, Finalize, the readers and *)
(* the writers take their steps: no event published after the cut is lost  *)
(* to a Sub that still accepts, and one that comes through Finalize alive  *)
(* has read the aggregate first and every final last.                      *)
THEOREM SubscribersHear == Spec => []SubscribersHearAll
BY InitHolds, NextHolds, HoldsSays, PTL DEF Spec

(* Frames keep their place among the messages about their pane, for any    *)
(* number of subscribers, panes and closes, however the reader's three     *)
(* steps of a watch fall between ClosePane's: no writer holds a picture of *)
(* a pane whose pane_closed its peer has read, nor one of a pane that its  *)
(* peer has not been told it watches.                                      *)
THEOREM FramesKeepPlace == Spec => []FramesKeepTheirPlace
BY InitHolds, NextHolds, HoldsSays, PTL DEF Spec
-----------------------------------------------------------------------------
(***************************************************************************)
(* Coalescing loses nothing: what a peer shows of a pane, overlaid with    *)
(* the frame in its writer's hands and the one in its slot, is the screen  *)
(* the framer last offered it.                                             *)
(*                                                                         *)
(* The invariant Coherent adds what that rests on: a slot nothing waits in *)
(* is empty, and a keyframe has every row; whoever a framer serves, or is  *)
(* about to, has a slot until the pane or the session is over; and a slot  *)
(* that rows were offered to no longer holds notify mode's message.        *)
(***************************************************************************)

\* A slot that nothing waits in is empty, and a keyframe has every row.
Tidy(e) ==
    /\ ~e.full => e.rows = NoRows /\ ~e.key /\ ~e.raw
    /\ e.key => DOMAIN e.rows = Rows

\* Frames of p may still come to s.
Serves(s, p) == pane[p].pc = "live" /\ Accepts(sub[s])

\* s's reader is making a watch of p, from its slot to its answer.
Holds(s, p) == adp[s].pc \in {"resolve", "add", "answer"} /\ adp[s].pane = p

\* It has told the Streamer that it leaves p, and the slot is still there.
Leaves(s, p) == adp[s].pc = "unslot" /\ adp[s].pane = p

\* What the peer shows of p once it has read what its writer has in hand.
InHand(s, p) ==
    IF Picture(cur[s]) /\ cur[s].pane = p THEN Shown(client[s].view[p], cur[s])
    ELSE client[s].view[p]

\* The slots t overlaid on the screen v.
Overlaid(v, t, p) == IF t.at[p].full THEN Shown(v, FrameOf(t, p)) ELSE v

\* s has been offered p's rows, and nothing has been lost on the way.
Follows(s, p) ==
    watcher[s][p] = "sent" /\ Serves(s, p) /\ Has(sub[s].slots, p) /\ ~sub[s].failed

Coherent(s, p) ==
    /\ p \in sub[s].closedPanes => pane[p].pc # "live"
    /\ Leaves(s, p) => watcher[s][p] = "none"
    /\ Has(sub[s].slots, p) => Tidy(sub[s].slots.at[p])
    /\ Serves(s, p) /\ (watcher[s][p] # "none" \/ Holds(s, p)) => Has(sub[s].slots, p)
    /\ Follows(s, p) => /\ ~sub[s].slots.at[p].raw
                        /\ Overlaid(InHand(s, p), sub[s].slots, p) = ghost[s].offered[p]

Screens == \A s \in Subs, p \in Panes : Coherent(s, p)

-----------------------------------------------------------------------------
(* Slots and screens.                                                      *)

\* What waits of p is the same in u as in t.
SameFrame(t, u, p) ==
    /\ Has(u, p) <=> Has(t, p)
    /\ Has(t, p) => /\ u.at[p].full = t.at[p].full /\ u.at[p].key = t.at[p].key
                    /\ u.at[p].raw = t.at[p].raw /\ u.at[p].rows = t.at[p].rows

LEMMA SameOverlaid ==
  ASSUME NEW t, NEW u, NEW p, NEW v, Has(t, p), SameFrame(t, u, p)
  PROVE  Overlaid(v, u, p) = Overlaid(v, t, p)
BY DEF SameFrame, Overlaid, FrameOf

LEMMA SameItself == ASSUME NEW t, NEW p PROVE SameFrame(t, t, p)
BY DEF SameFrame

LEMMA DropOthers ==
  ASSUME NEW t, NEW q, NEW p, WholeTable(t)
  PROVE  /\ p # q => SameFrame(t, DropSlot(t, q), p)
         /\ ~Has(DropSlot(t, q), q)
BY DEF SameFrame, DropSlot, Has, Restrict

LEMMA AddOthers ==
  ASSUME NEW t, NEW q \in Panes, NEW p, WholeTable(t)
  PROVE  /\ p # q => SameFrame(t, AddSlot(t, q), p)
         /\ Has(t, q) => AddSlot(t, q) = t
         /\ Has(AddSlot(t, q), q)
         /\ ~Has(t, q) => AddSlot(t, q).at[q] = EmptySlot
BY DEF SameFrame, AddSlot, Has

LEMMA ActivateSame ==
  ASSUME NEW t, NEW q, NEW p, WholeTable(t)
  PROVE  SameFrame(t, Activate(t, q), p)
<1>1. CASE ~Has(t, q)
  BY <1>1 DEF Activate, SameFrame
<1>2. CASE Has(t, q)
  <2> DEFINE e == [t.at[q] EXCEPT !.active = TRUE]
             u == [t EXCEPT !.at[q] = e]
  <2>1. Activate(t, q) = u
    BY <1>2 DEF Activate
  <2>2. t.at[q] \in Slot
    BY <1>2, TableParts DEF WholeTable, Has
  <2>3. e.full = t.at[q].full /\ e.key = t.at[q].key /\ e.raw = t.at[q].raw /\ e.rows = t.at[q].rows
    BY <2>2 DEF Slot
  <2> HIDE DEF e
  <2>4. /\ Has(u, p) <=> Has(t, p)
        /\ Has(t, p) /\ p # q => u.at[p] = t.at[p]
        /\ u.at[q] = e
    BY <1>2, SetSlot
  <2> HIDE DEF u
  <2> QED BY <2>1, <2>3, <2>4 DEF SameFrame
<1> QED BY <1>1, <1>2

\* An offer changes one slot, and leaves it full.
LEMMA OfferedSlot ==
  ASSUME NEW t, NEW q, WholeTable(t), Has(t, q), NEW key \in BOOLEAN, NEW lines
  PROVE  /\ \A p : p # q => SameFrame(t, OfferRows(t, q, key, lines), p)
         /\ Has(OfferRows(t, q, key, lines), q)
         /\ OfferRows(t, q, key, lines).at[q].full
         /\ OfferRows(t, q, key, lines).at[q].key = (t.at[q].key \/ key)
         /\ ~OfferRows(t, q, key, lines).at[q].raw
         /\ OfferRows(t, q, key, lines).at[q].rows
              = Override(lines, IF key THEN NoRows ELSE t.at[q].rows)
<1> DEFINE new == Override(lines, IF key THEN NoRows ELSE t.at[q].rows)
           e == [active |-> t.at[q].active, full |-> TRUE, key |-> t.at[q].key \/ key,
                 raw |-> FALSE, rows |-> new]
           u == [t EXCEPT !.at[q] = e]
<1>1. OfferRows(t, q, key, lines) = u
  BY DEF OfferRows, Has
<1>2. e.full /\ e.key = (t.at[q].key \/ key) /\ ~e.raw /\ e.rows = new
  <2> HIDE DEF new
  <2> QED OBVIOUS
<1> HIDE DEF e
<1>3. /\ \A p : Has(u, p) <=> Has(t, p)
      /\ \A p : Has(t, p) /\ p # q => u.at[p] = t.at[p]
      /\ u.at[q] = e
  BY SetSlot
<1> HIDE DEF u
<1>4. \A p : p # q => SameFrame(t, u, p)
  BY <1>3 DEF SameFrame
<1> HIDE DEF new
<1>5. Has(u, q)
  BY <1>3
<1> QED BY <1>1, <1>2, <1>3, <1>4, <1>5 DEF new

LEMMA OfferedRaw ==
  ASSUME NEW t, NEW q, WholeTable(t), Has(t, q), Tidy(t.at[q])
  PROVE  /\ \A p : p # q => SameFrame(t, OfferRaw(t, q), p)
         /\ Has(OfferRaw(t, q), q)
         /\ Tidy(OfferRaw(t, q).at[q])
<1> DEFINE e == [t.at[q] EXCEPT !.raw = TRUE, !.full = TRUE]
           u == [t EXCEPT !.at[q] = e]
<1>1. OfferRaw(t, q) = u
  BY DEF OfferRaw, Has
<1>2. t.at[q] \in Slot
  BY TableParts DEF WholeTable, Has
<1>3. e.full /\ e.key = t.at[q].key /\ e.rows = t.at[q].rows
  BY <1>2 DEF Slot
<1> HIDE DEF e
<1>4. /\ \A p : Has(u, p) <=> Has(t, p)
      /\ \A p : Has(t, p) /\ p # q => u.at[p] = t.at[p]
      /\ u.at[q] = e
  BY SetSlot
<1> HIDE DEF u
<1>5. \A p : p # q => SameFrame(t, u, p)
  BY <1>4 DEF SameFrame
<1> QED BY <1>1, <1>3, <1>4, <1>5 DEF Tidy

\* A take empties the slot it serves and no other.
LEMMA TakenSlot ==
  ASSUME NEW t, WholeTable(t), HasPending(t)
  PROVE  /\ \A p : p # Served(t) => SameFrame(t, TakeSlot(t), p)
         /\ Has(t, Served(t)) /\ t.at[Served(t)].full /\ Has(TakeSlot(t), Served(t))
         /\ ~TakeSlot(t).at[Served(t)].full /\ ~TakeSlot(t).at[Served(t)].raw
         /\ Tidy(TakeSlot(t).at[Served(t)])
<1> DEFINE p == Served(t)
           e == [EmptySlot EXCEPT !.active = t.at[p].active]
           v == [t EXCEPT !.at[p] = e]
<1>1. Has(t, p) /\ t.at[p].full
  BY ServedIsPending DEF Pending
<1>2. ~e.full /\ ~e.raw /\ ~e.key /\ e.rows = NoRows
  BY DEF EmptySlot
<1>3. TakeSlot(t).at = v.at
  <2> HIDE DEF e
  <2>1. t = [at |-> t.at, order |-> t.order, next |-> t.next]
    BY TableParts DEF WholeTable
  <2>2. TakeSlot(t) = [t EXCEPT !.at[p] = e, !.next = ServedIndex(t)]
    BY DEF TakeSlot, e
  <2> HIDE DEF p
  <2> QED BY <2>1, <2>2
<1>4. /\ \A q : Has(v, q) <=> Has(t, q)
      /\ \A q : Has(t, q) /\ q # p => v.at[q] = t.at[q]
      /\ v.at[p] = e
  <2> HIDE DEF e, p
  <2> QED BY <1>1, SetSlot
<1> HIDE DEF v, e
<1>5. \A q : q # p => SameFrame(t, TakeSlot(t), q)
  BY <1>3, <1>4 DEF SameFrame, Has
<1>6. Has(TakeSlot(t), p) /\ TakeSlot(t).at[p] = e
  BY <1>1, <1>3, <1>4 DEF Has
<1> QED BY <1>1, <1>2, <1>5, <1>6 DEF Tidy

\* The rows of a screen.
Full == [Rows -> Cells \cup {NoCell}]

LEMMA OverFull ==
  ASSUME NEW f \in Lines, NEW g \in Full
  PROVE  /\ Override(f, g) = [r \in Rows |-> IF r \in DOMAIN f THEN f[r] ELSE g[r]]
         /\ DOMAIN f \subseteq Rows
<1>1. PICK R \in SUBSET Rows : f \in [R -> Cells]
  BY LinesFunction
<1>2. DOMAIN f = R /\ DOMAIN g = Rows /\ DOMAIN f \cup DOMAIN g = Rows
  BY <1>1 DEF Full
<1> QED BY <1>2 DEF Override

\* A screen v with a whole frame over it.
Painted(v, key, rows) ==
    IF key THEN [r \in Rows |-> IF r \in DOMAIN rows THEN rows[r] ELSE NoCell]
    ELSE Override(rows, v)

LEMMA OverlaidPaints ==
  ASSUME NEW t, NEW p, NEW v, t.at[p].full, ~t.at[p].raw, t.at[p].key \in BOOLEAN
  PROVE  Overlaid(v, t, p) = Painted(v, t.at[p].key, t.at[p].rows)
<1> DEFINE m == FrameOf(t, p)
<1>1. m.kind = "frame" /\ m.key = t.at[p].key /\ m.rows = t.at[p].rows
  BY DEF FrameOf
<1>2. Overlaid(v, t, p) = Shown(v, m)
  BY DEF Overlaid
<1> HIDE DEF m
<1>3. CASE m.key
  <2>1. Shown(v, m) = [r \in Rows |-> IF r \in DOMAIN m.rows THEN m.rows[r] ELSE NoCell]
    BY <1>1, <1>3 DEF Shown
  <2>2. Painted(v, m.key, m.rows) = [r \in Rows |-> IF r \in DOMAIN m.rows THEN m.rows[r] ELSE NoCell]
    BY <1>3 DEF Painted
  <2> QED BY <1>1, <1>2, <2>1, <2>2
<1>4. CASE ~m.key
  BY <1>1, <1>2, <1>4 DEF Shown, Painted
<1> QED BY <1>3, <1>4

\* Rows over a keyframe make a keyframe; rows over rows are rows over what those show.
LEMMA PaintedOver ==
  ASSUME NEW lines \in Lines, NEW rows \in Lines, NEW v \in Full, NEW k \in BOOLEAN,
         k => DOMAIN rows = Rows
  PROVE  /\ Painted(v, k, Override(lines, rows)) = Override(lines, Painted(v, k, rows))
         /\ k => DOMAIN Override(lines, rows) = Rows
<1> DEFINE new == Override(lines, rows)
           o == Painted(v, k, rows)
<1>1. /\ DOMAIN new = DOMAIN lines \cup DOMAIN rows
      /\ \A r \in DOMAIN new : new[r] = IF r \in DOMAIN lines THEN lines[r] ELSE rows[r]
  BY DEF Override
<1>2. DOMAIN lines \subseteq Rows /\ DOMAIN rows \subseteq Rows /\ new \in Lines
  BY OverFull, OverrideType
<1>3. o \in Full
  <2>1. CASE k
    <3>1. \A r \in Rows : rows[r] \in Cells
      <4>1. PICK R \in SUBSET Rows : rows \in [R -> Cells]
        BY LinesFunction
      <4> QED BY <2>1, <4>1
    <3> QED BY <2>1, <3>1 DEF Painted, Full
  <2>2. CASE ~k
    <3>1. Override(rows, v) \in [Rows -> Cells \cup {NoCell}]
      BY OverrideScreen DEF Full
    <3> QED BY <2>2, <3>1 DEF Painted, Full
  <2> QED BY <2>1, <2>2
<1>4. Override(lines, o) = [r \in Rows |-> IF r \in DOMAIN lines THEN lines[r] ELSE o[r]]
  <2> HIDE DEF o
  <2> QED BY <1>3, OverFull
<1>5. CASE k
  <2>1. DOMAIN new = Rows /\ DOMAIN rows = Rows
    BY <1>1, <1>2, <1>5
  <2>2. /\ o = [r \in Rows |-> IF r \in DOMAIN rows THEN rows[r] ELSE NoCell]
        /\ Painted(v, k, new) = [r \in Rows |-> IF r \in DOMAIN new THEN new[r] ELSE NoCell]
    BY <1>5 DEF Painted
  <2> HIDE DEF new, o
  <2>3. \A r \in Rows : (IF r \in DOMAIN new THEN new[r] ELSE NoCell)
                           = IF r \in DOMAIN lines THEN lines[r] ELSE o[r]
    BY <1>1, <2>1, <2>2
  <2>4. Painted(v, k, new) = Override(lines, o)
    BY <1>4, <2>2, <2>3
  <2> QED BY <2>1, <2>4 DEF new, o
<1>6. CASE ~k
  <2>1. o = Override(rows, v) /\ Painted(v, k, new) = Override(new, v)
    BY <1>6 DEF Painted
  <2> HIDE DEF new
  <2>2. /\ o = [r \in Rows |-> IF r \in DOMAIN rows THEN rows[r] ELSE v[r]]
        /\ Painted(v, k, new) = [r \in Rows |-> IF r \in DOMAIN new THEN new[r] ELSE v[r]]
    BY <1>2, <2>1, OverFull
  <2> HIDE DEF o
  <2>3. \A r \in Rows : (IF r \in DOMAIN new THEN new[r] ELSE v[r])
                           = IF r \in DOMAIN lines THEN lines[r] ELSE o[r]
    BY <1>1, <2>2
  <2>4. Painted(v, k, new) = Override(lines, o)
    BY <1>4, <2>2, <2>3
  <2> QED BY <1>6, <2>4 DEF new, o
<1> QED BY <1>5, <1>6

\* Rows of a whole screen owe nothing to what is under them.
LEMMA PaintedWhole ==
  ASSUME NEW lines \in Lines, DOMAIN lines = Rows, NEW v, NEW o \in Full
  PROVE  /\ Painted(v, TRUE, Override(lines, NoRows)) = Override(lines, o)
         /\ DOMAIN Override(lines, NoRows) = Rows
<1> DEFINE new == Override(lines, NoRows)
<1>1. DOMAIN NoRows = {}
  BY DEF NoRows
<1>2. DOMAIN new = Rows /\ \A r \in Rows : new[r] = lines[r]
  BY <1>1 DEF Override
<1>3. Override(lines, o) = [r \in Rows |-> IF r \in DOMAIN lines THEN lines[r] ELSE o[r]]
  BY OverFull
<1> HIDE DEF new
<1>4. Painted(v, TRUE, new) = [r \in Rows |-> IF r \in DOMAIN new THEN new[r] ELSE NoCell]
  BY DEF Painted
<1>5. Painted(v, TRUE, new) = Override(lines, o)
  BY <1>2, <1>3, <1>4
<1> QED BY <1>2, <1>5 DEF new

\* What an offer makes of what the peer will show: the rows it brings, over what was
\* offered before.
LEMMA OfferShows ==
  ASSUME NEW t, NEW p, WholeTable(t), Has(t, p), Tidy(t.at[p]), NEW key \in BOOLEAN, NEW lines \in Lines,
         NEW v \in Full, NEW o \in Full,
         key => DOMAIN lines = Rows,
         ~key => ~t.at[p].raw /\ Overlaid(v, t, p) = o,
         NEW u, u = OfferRows(t, p, key, lines)
  PROVE  /\ Tidy(u.at[p]) /\ ~u.at[p].raw
         /\ Overlaid(v, u, p) = Override(lines, o)
<1> DEFINE e == t.at[p]
           new == Override(lines, IF key THEN NoRows ELSE e.rows)
<1>1. e \in Slot
  BY TableParts DEF WholeTable, Has
<1>2. e.key \in BOOLEAN /\ e.full \in BOOLEAN /\ e.rows \in Lines
  BY <1>1 DEF Slot
<1>3. u.at[p].full /\ u.at[p].key = (e.key \/ key) /\ ~u.at[p].raw /\ u.at[p].rows = new
  BY OfferedSlot
<1>4. Overlaid(v, u, p) = Painted(v, e.key \/ key, new)
  <2> HIDE DEF e, new
  <2> QED BY <1>2, <1>3, OverlaidPaints
<1>5. CASE key
  <2>1. new = Override(lines, NoRows) /\ DOMAIN lines = Rows /\ (e.key \/ key) = TRUE
    BY <1>5
  <2> HIDE DEF new
  <2>2. Painted(v, TRUE, new) = Override(lines, o) /\ DOMAIN new = Rows
    BY <2>1, PaintedWhole
  <2> QED BY <1>3, <1>4, <2>1, <2>2 DEF Tidy
<1>6. CASE ~key
  <2>1. new = Override(lines, e.rows) /\ (e.key \/ key) = e.key
    BY <1>2, <1>6
  <2> HIDE DEF new
  <2>2. o = IF e.full THEN Painted(v, e.key, e.rows) ELSE v
    BY <1>2, <1>6, OverlaidPaints DEF Overlaid
  <2>3. CASE e.full
    <3>1. e.key => DOMAIN e.rows = Rows
      BY DEF Tidy
    <3> HIDE DEF e
    <3>2. Painted(v, e.key, new) = Override(lines, o) /\ (e.key => DOMAIN new = Rows)
      BY <1>2, <2>1, <2>2, <2>3, <3>1, PaintedOver
    <3> QED BY <1>3, <1>4, <2>1, <3>2 DEF Tidy
  <2>4. CASE ~e.full
    <3>1. o = v /\ e.rows = NoRows /\ ~e.key
      BY <2>2, <2>4 DEF Tidy
    <3> HIDE DEF e
    <3>2. Painted(v, e.key, NoRows) = Override(NoRows, v)
      BY <3>1 DEF Painted
    <3>3. Override(NoRows, v) = v
      BY OverFull, EmptySlotType DEF Full, NoRows, EmptySlot, Slot
    <3>4. Painted(v, e.key, new) = Override(lines, Painted(v, e.key, e.rows))
      BY <1>2, <2>1, <3>1, PaintedOver
    <3> QED BY <1>3, <1>4, <2>1, <3>1, <3>2, <3>3, <3>4 DEF Tidy
  <2> QED BY <2>3, <2>4
<1> QED BY <1>5, <1>6

-----------------------------------------------------------------------------
(* Steps that show s no more and no less of p.                             *)

\* Frames that may not come to r may not come to q, and q is closed to the same panes.
Wanes(r, q) == /\ Accepts(q) => Accepts(r)
               /\ r.failed => q.failed
               /\ q.closedPanes = r.closedPanes

PanesOn == \A p \in Panes : pane'[p].pc = "live" => pane[p].pc = "live"

\* Who watches p, and who is at it, in a step that leaves the slots of p alone.
Watches(s, p) ==
    /\ watcher'[s][p] # "none" => watcher[s][p] # "none" \/ Holds(s, p)
    /\ watcher'[s][p] = "sent" => watcher[s][p] = "sent"
    /\ Holds(s, p)' => Holds(s, p) \/ Has(sub[s].slots, p)
    /\ Leaves(s, p)' => Leaves(s, p) \/ watcher'[s][p] = "none"

Still(s, p) ==
    /\ Accepts(sub'[s]) => Accepts(sub[s])
    /\ sub[s].failed => sub'[s].failed
    /\ p \in sub'[s].closedPanes => p \in sub[s].closedPanes
    /\ Watches(s, p)
    /\ SameFrame(sub[s].slots, sub'[s].slots, p)
    /\ ~sub'[s].failed => InHand(s, p)' = InHand(s, p)
    /\ ghost'[s].offered[p] = ghost[s].offered[p]

LEMMA StillCoherent ==
  ASSUME NEW s, NEW p \in Panes, Coherent(s, p), PanesOn, Still(s, p)
  PROVE  Coherent(s, p)'
<1>1. p \in sub'[s].closedPanes => pane'[p].pc # "live"
  BY DEF Coherent, PanesOn, Still
<1>2. Leaves(s, p)' => watcher'[s][p] = "none"
  BY DEF Coherent, Still, Watches, Leaves, Holds
<1>3. Has(sub'[s].slots, p) => Tidy(sub'[s].slots.at[p])
  BY DEF Coherent, Still, SameFrame, Tidy
<1>4. Serves(s, p)' => Serves(s, p)
  BY DEF PanesOn, Still, Serves
<1>5. Serves(s, p)' /\ (watcher'[s][p] # "none" \/ Holds(s, p)') => Has(sub'[s].slots, p)
  BY <1>4 DEF Coherent, Still, Watches, SameFrame
<1>6. ASSUME Follows(s, p)'
      PROVE  /\ ~sub'[s].slots.at[p].raw
             /\ Overlaid(InHand(s, p)', sub'[s].slots, p) = ghost'[s].offered[p]
  <2>1. Follows(s, p) /\ Has(sub[s].slots, p) /\ ~sub'[s].failed
    BY <1>4, <1>6 DEF Follows, Still, Watches, SameFrame
  <2>2. Overlaid(InHand(s, p), sub'[s].slots, p) = Overlaid(InHand(s, p), sub[s].slots, p)
    BY <2>1, SameOverlaid DEF Still
  <2> QED BY <2>1, <2>2 DEF Coherent, Still, SameFrame
<1> QED BY <1>1, <1>2, <1>3, <1>5, <1>6 DEF Coherent

\* A slot that goes is missed by nobody.
LEMMA GoneCoherent ==
  ASSUME NEW s, NEW p, ~Has(sub'[s].slots, p),
         p \in sub'[s].closedPanes => pane'[p].pc # "live",
         Leaves(s, p)' => watcher'[s][p] = "none",
         ~(Serves(s, p)' /\ (watcher'[s][p] # "none" \/ Holds(s, p)'))
  PROVE  Coherent(s, p)'
BY DEF Coherent, Follows

\* Nothing of t changes.
Apart(t) ==
    /\ sub'[t] = sub[t] /\ cur'[t] = cur[t] /\ client'[t].view = client[t].view
    /\ adp'[t] = adp[t] /\ watcher'[t] = watcher[t] /\ ghost'[t].offered = ghost[t].offered

LEMMA ApartStill ==
  ASSUME NEW t, NEW p, Apart(t)
  PROVE  Still(t, p)
BY SameItself DEF Apart, Still, Watches, Holds, Leaves, InHand

LEMMA StillScreens ==
  ASSUME Screens, PanesOn, \A s \in Subs, p \in Panes : Still(s, p)
  PROVE  Screens'
BY StillCoherent DEF Screens

LEMMA OneScreens ==
  ASSUME Screens, PanesOn, NEW s \in Subs, \A t \in Subs \ {s} : Apart(t),
         \A p \in Panes : Coherent(s, p)'
  PROVE  Screens'
<1> SUFFICES ASSUME NEW t \in Subs, NEW p \in Panes PROVE Coherent(t, p)'
  BY DEF Screens
<1>1. CASE t = s
  BY <1>1
<1>2. CASE t # s
  <2>1. Still(t, p)
    BY <1>2, ApartStill
  <2> QED BY <2>1, StillCoherent DEF Screens
<1> QED BY <1>1, <1>2

\* The counters of the history are not what was offered.
LEMMA OfferedAside ==
  ASSUME Inv, NEW s \in Subs, NEW n, NEW m,
         \/ ghost' = ghost
         \/ ghost' = [ghost EXCEPT ![s].requests = n]
         \/ ghost' = [ghost EXCEPT ![s].since = n]
         \/ ghost' = CutShort(s, ghost)
         \/ ghost' = Accepted(s, ghost, m)
  PROVE  \A t \in Subs : ghost'[t].offered = ghost[t].offered
<1>1. ghost \in [Subs -> GhostRec] /\ \A t \in Subs : ghost[t] \in GhostRec
  BY DEF Inv, TypeOK, HistoryType
<1>2. \/ ghost' = ghost
      \/ ghost' = [ghost EXCEPT ![s] = [ghost[s] EXCEPT !.requests = n]]
      \/ ghost' = [ghost EXCEPT ![s] = [ghost[s] EXCEPT !.since = n]]
      \/ ghost' = [ghost EXCEPT ![s] = [ghost[s] EXCEPT !.cutShort = TRUE]]
      \/ ghost' = [ghost EXCEPT ![s] = [ghost[s] EXCEPT !.accepted = @ \cup {m}]]
  BY <1>1 DEF CutShort, Accepted
<1> QED BY <1>1, <1>2 DEF GhostRec

LEMMA SentOffered ==
  ASSUME Inv, NEW s \in Subs, NEW r, NEW m, NEW n \in {0, 1}, SendTo(s, r, m, n)
  PROVE  \A t \in Subs : ghost'[t].offered = ghost[t].offered
<1> DEFINE g == [ghost EXCEPT ![s].requests = @ + n]
<1>1. ghost \in [Subs -> GhostRec] /\ ghost[s] \in GhostRec
  BY DEF Inv, TypeOK, HistoryType
<1>2. g \in [Subs -> GhostRec]
  BY <1>1, GhostCounts
<1>3. g = [ghost EXCEPT ![s] = [ghost[s] EXCEPT !.requests = @ + n]]
  BY <1>1
<1>4. ghost' = CutShort(s, g) \/ ghost' = Accepted(s, g, m)
  BY DEF SendTo
<1> HIDE DEF g
<1>5. \A t \in Subs : g[t].offered = ghost[t].offered /\ g[t] \in GhostRec
  BY <1>1, <1>2, <1>3 DEF GhostRec
<1>6. \/ ghost' = g
      \/ ghost' = [g EXCEPT ![s] = [g[s] EXCEPT !.cutShort = TRUE]]
      \/ ghost' = [g EXCEPT ![s] = [g[s] EXCEPT !.accepted = @ \cup {m}]]
  BY <1>2, <1>4 DEF CutShort, Accepted
<1> QED BY <1>2, <1>5, <1>6 DEF GhostRec

\* A message to s, by a step that has made x of its slots.
LEMMA DeliveredStill ==
  ASSUME Inv, NEW s \in Subs, NEW p \in Panes, NEW x, NEW m, Delivered(s, x, m),
         cur' = cur, client' = client, \A t \in Subs : ghost'[t].offered = ghost[t].offered,
         SameFrame(sub[s].slots, x, p), Watches(s, p)
  PROVE  Still(s, p)
BY DEF Delivered, Keeps, Core, Still, Accepts, InHand

LEMMA DeliveredApart ==
  ASSUME NEW s \in Subs, NEW x, NEW m, Delivered(s, x, m), cur' = cur, client' = client,
         \A t \in Subs \ {s} : adp'[t] = adp[t] /\ watcher'[t] = watcher[t]
  PROVE  \A t \in Subs \ {s} : Apart(t)
BY DEF Delivered, Others, Apart

-----------------------------------------------------------------------------
(* Screens, action by action: steps that leave slots, hands and screens.   *)

\* Nothing of t changes but its flags.
Plainly(t) ==
    /\ Wanes(sub[t], sub'[t]) /\ sub'[t].slots = sub[t].slots
    /\ ghost'[t].offered = ghost[t].offered

\* Nobody watches who did not, and no framer has offered rows.
Fewer(t) ==
    \A p \in Panes : /\ watcher'[t][p] # "none" => watcher[t][p] # "none"
                     /\ watcher'[t][p] = "sent" => watcher[t][p] = "sent"

\* t's reader goes on to no watch.
Rests(t) == adp'[t] = adp[t] \/ adp'[t].pc \notin {"resolve", "add", "answer", "unslot"}

LEMMA RestsWatches ==
  ASSUME NEW t, Fewer(t), Rests(t), NEW p \in Panes
  PROVE  Watches(t, p)
BY DEF Fewer, Rests, Watches, Holds, Leaves

LEMMA PlainScreens ==
  ASSUME Screens, PanesOn, UNCHANGED <<cur, client>>,
         \A t \in Subs : Plainly(t) /\ Fewer(t) /\ Rests(t)
  PROVE  Screens'
<1> SUFFICES ASSUME NEW t \in Subs, NEW p \in Panes PROVE Still(t, p)
  BY StillScreens
<1>1. Watches(t, p)
  BY RestsWatches
<1>2. SameFrame(sub[t].slots, sub'[t].slots, p)
  BY SameItself DEF Plainly
<1>3. InHand(t, p)' = InHand(t, p)
  BY DEF InHand
<1> QED BY <1>1, <1>2, <1>3 DEF Still, Plainly, Wanes

\* The same, where s's Sub alone changes.
LEMMA FlagScreens ==
  ASSUME Screens, PanesOn, UNCHANGED <<cur, client>>, NEW s \in Subs,
         \A t \in Subs \ {s} : sub'[t] = sub[t] /\ adp'[t] = adp[t],
         Wanes(sub[s], sub'[s]), sub'[s].slots = sub[s].slots, Rests(s),
         \A t \in Subs : Fewer(t) /\ ghost'[t].offered = ghost[t].offered
  PROVE  Screens'
<1>1. \A t \in Subs : Plainly(t) /\ Rests(t)
  BY DEF Plainly, Wanes, Rests
<1> QED BY <1>1, PlainScreens

LEMMA SameWatchers == ASSUME watcher' = watcher PROVE \A t \in Subs : Fewer(t)
BY DEF Fewer

LEMMA SamePanes == ASSUME pane' = pane PROVE PanesOn
BY DEF PanesOn

LEMMA SessionScreens ==
  ASSUME Inv, Screens, NEW s \in Subs, Session(s)
  PROVE  Screens'
<1>1. UNCHANGED <<cur, client, watcher, pane>>
  BY DEF Session
<1>2. /\ adp'[s].pc = "building" /\ \A t \in Subs \ {s} : adp'[t] = adp[t]
  BY DEF Session, Inv, TypeOK, ReaderType
<1>3. /\ \A t \in Subs \ {s} : sub'[t] = sub[t]
      /\ sub'[s].slots = sub[s].slots /\ Wanes(sub[s], sub'[s])
  <2> DEFINE q == [sub[s] EXCEPT !.finalized = TRUE, !.finals = AllFinals]
  <2>1. sub' = sub \/ sub' = [sub EXCEPT ![s] = q]
    BY StreamTypes DEF Session
  <2>2. q.slots = sub[s].slots /\ Wanes(sub[s], q) /\ Wanes(sub[s], sub[s])
    BY StreamTypes DEF SubRec, Wanes, Accepts
  <2> HIDE DEF q
  <2> QED BY <2>1, <2>2, StreamTypes
<1>4. \A t \in Subs : ghost'[t].offered = ghost[t].offered
  BY OfferedAside DEF Session
<1> QED BY <1>1, <1>2, <1>3, <1>4, SameWatchers, SamePanes, FlagScreens DEF Rests

LEMMA StartScreens ==
  ASSUME Inv, Screens, NEW s \in Subs, Start(s)
  PROVE  Screens'
<1>1. UNCHANGED <<cur, client, watcher, pane, ghost>>
  BY DEF Start
<1>2. /\ adp'[s].pc = "serving" /\ \A t \in Subs \ {s} : adp'[t] = adp[t]
  BY DEF Start, Inv, TypeOK, ReaderType
<1>3. /\ \A t \in Subs \ {s} : sub'[t] = sub[t]
      /\ sub'[s].slots = sub[s].slots /\ Wanes(sub[s], sub'[s])
  <2> DEFINE q == [sub[s] EXCEPT !.started = TRUE, !.head = TRUE]
  <2>1. sub' = sub \/ sub' = [sub EXCEPT ![s] = q]
    BY StreamTypes DEF Start
  <2>2. q.slots = sub[s].slots /\ Wanes(sub[s], q) /\ Wanes(sub[s], sub[s])
    BY StreamTypes DEF SubRec, Wanes, Accepts
  <2> HIDE DEF q
  <2> QED BY <2>1, <2>2, StreamTypes
<1> QED BY <1>1, <1>2, <1>3, SameWatchers, SamePanes, FlagScreens DEF Rests

\* The record that kill leaves.
LEMMA KillMarkPlain ==
  ASSUME NEW s \in Subs, NEW recs, KillMark(s, recs), recs \in [Subs -> SubRec],
         \A t \in Subs \ {s} : recs[t] = sub[t],
         recs[s].slots = sub[s].slots, Wanes(sub[s], recs[s])
  PROVE  /\ \A t \in Subs \ {s} : sub'[t] = sub[t]
         /\ sub'[s].slots = sub[s].slots /\ Wanes(sub[s], sub'[s])
<1>1. CASE sub[s].dead
  BY <1>1 DEF KillMark
<1>2. CASE ~sub[s].dead
  <2> DEFINE q == [recs[s] EXCEPT !.dead = TRUE]
  <2>1. sub' = [recs EXCEPT ![s] = q]
    BY <1>2 DEF KillMark
  <2>2. q.slots = recs[s].slots /\ q.closedPanes = recs[s].closedPanes /\ q.dead /\ q.failed = recs[s].failed
    BY DEF SubRec
  <2> HIDE DEF q
  <2>3. sub'[s] = q /\ \A t \in Subs \ {s} : sub'[t] = recs[t]
    BY <2>1
  <2> QED BY <2>2, <2>3 DEF Wanes, Accepts
<1> QED BY <1>1, <1>2

LEMMA KillScreens ==
  ASSUME Inv, Screens, NEW s \in Subs, KillMark(s, sub), ghost' = CutShort(s, ghost),
         UNCHANGED <<cur, client, watcher, pane, adp>>
  PROVE  Screens'
<1>1. sub \in [Subs -> SubRec] /\ Wanes(sub[s], sub[s])
  BY StreamTypes DEF Wanes
<1>2. /\ \A t \in Subs \ {s} : sub'[t] = sub[t]
      /\ sub'[s].slots = sub[s].slots /\ Wanes(sub[s], sub'[s])
  BY <1>1, KillMarkPlain
<1>3. \A t \in Subs : ghost'[t].offered = ghost[t].offered
  BY OfferedAside
<1> QED BY <1>2, <1>3, SameWatchers, SamePanes, FlagScreens DEF Rests

LEMMA CloseScreens ==
  ASSUME Inv, Screens, NEW s \in Subs, Close(s)
  PROVE  Screens'
<1>1. UNCHANGED <<cur, client, watcher, pane>>
  BY DEF Close
<1>2. adp'[s].pc = "gone" /\ \A t \in Subs \ {s} : adp'[t] = adp[t]
  BY DEF Close, Inv, TypeOK, ReaderType
<1>3. /\ \A t \in Subs \ {s} : sub'[t] = sub[t]
      /\ sub'[s].slots = sub[s].slots /\ Wanes(sub[s], sub'[s])
  <2>1. CASE sub[s].closed \/ sub[s].dead
    BY <2>1 DEF Close, Wanes
  <2>2. CASE ~(sub[s].closed \/ sub[s].dead) /\ sub[s].started
    <3> DEFINE q == [sub[s] EXCEPT !.closed = TRUE, !.wake = TRUE]
    <3>1. sub' = [sub EXCEPT ![s] = q]
      BY <2>2, StreamTypes DEF Close
    <3>2. q.slots = sub[s].slots /\ Wanes(sub[s], q)
      BY StreamTypes DEF SubRec, Wanes, Accepts
    <3> HIDE DEF q
    <3> QED BY <3>1, <3>2, StreamTypes
  <2>3. CASE ~(sub[s].closed \/ sub[s].dead) /\ ~sub[s].started
    <3> DEFINE q == [sub[s] EXCEPT !.closed = TRUE]
               recs == [sub EXCEPT ![s] = q]
    <3>1. KillMark(s, recs)
      BY <2>3, StreamTypes DEF Close
    <3>2. q \in SubRec /\ q.slots = sub[s].slots /\ Wanes(sub[s], q)
      BY StreamTypes DEF SubRec, Wanes, Accepts
    <3> HIDE DEF q
    <3>3. recs[s] = q /\ recs \in [Subs -> SubRec] /\ \A t \in Subs \ {s} : recs[t] = sub[t]
      BY <3>2, StreamTypes
    <3> HIDE DEF recs
    <3> QED BY <3>1, <3>2, <3>3, KillMarkPlain
  <2> QED BY <2>1, <2>2, <2>3
<1>4. \A t \in Subs : ghost'[t].offered = ghost[t].offered
  BY OfferedAside DEF Close
<1> QED BY <1>1, <1>2, <1>3, <1>4, SameWatchers, SamePanes, FlagScreens DEF Rests

LEMMA ReapScreens ==
  ASSUME Inv, Screens, NEW s \in Subs, Reap(s)
  PROVE  Screens'
<1>1. UNCHANGED <<cur, client, watcher, pane, adp, ghost>>
  BY DEF Reap
<1>2. /\ \A t \in Subs \ {s} : sub'[t] = sub[t]
      /\ sub'[s].slots = sub[s].slots /\ Wanes(sub[s], sub'[s])
  <2> DEFINE q == [sub[s] EXCEPT !.wake = TRUE]
  <2>1. sub' = sub \/ sub' = [sub EXCEPT ![s] = q]
    BY StreamTypes DEF Reap
  <2>2. q.slots = sub[s].slots /\ Wanes(sub[s], q) /\ Wanes(sub[s], sub[s])
    BY StreamTypes DEF SubRec, Wanes, Accepts
  <2> HIDE DEF q
  <2> QED BY <2>1, <2>2, StreamTypes
<1> QED BY <1>1, <1>2, SameWatchers, SamePanes, FlagScreens DEF Rests

LEMMA WakeScreens ==
  ASSUME Inv, Screens, NEW s \in Subs, Wake(s)
  PROVE  Screens'
<1> DEFINE q == [sub[s] EXCEPT !.wake = FALSE]
<1>1. UNCHANGED <<cur, client, watcher, pane, adp, ghost>> /\ sub' = [sub EXCEPT ![s] = q]
  BY StreamTypes DEF Wake, takeVars
<1>2. q.slots = sub[s].slots /\ Wanes(sub[s], q)
  BY StreamTypes DEF SubRec, Wanes, Accepts
<1> HIDE DEF q
<1>3. sub'[s] = q /\ \A t \in Subs \ {s} : sub'[t] = sub[t]
  BY <1>1, StreamTypes
<1> QED BY <1>1, <1>2, <1>3, SameWatchers, SamePanes, FlagScreens DEF Rests

\* No Sub changes, and no reader.
LEMMA QuietScreens ==
  ASSUME Screens, PanesOn, UNCHANGED <<cur, client, sub, adp, ghost>>, \A t \in Subs : Fewer(t)
  PROVE  Screens'
BY PlainScreens DEF Plainly, Wanes, Rests

LEMMA DropWatchesScreens ==
  ASSUME Inv, Screens, NEW s \in Subs, DropWatches(s)
  PROVE  Screens'
<1>1. UNCHANGED <<cur, client, sub, adp, pane, ghost>>
  BY DEF DropWatches
<1>2. \A t \in Subs : Fewer(t)
  BY DEF DropWatches, Inv, TypeOK, ReaderType, Fewer
<1> QED BY <1>1, <1>2, SamePanes, QuietScreens

\* A pane closes: frames stop, and nobody is watching once its framer is stopped.
LEMMA PaneScreens ==
  ASSUME Inv, Screens, NEW q \in Panes,
         ClosePane(q) \/ PaneClosed(q) \/ FramerStop(q) \/ AnnounceClosed(q)
  PROVE  Screens'
<1>1. UNCHANGED <<cur, client, sub, adp, ghost>>
  BY DEF ClosePane, PaneClosed, FramerStop, AnnounceClosed, PublishBegin, closeVars
<1>2. PanesOn
  BY PubTypes DEF ClosePane, PaneClosed, FramerStop, AnnounceClosed, PaneTo, PanesOn
<1>3. \A t \in Subs : Fewer(t)
  BY DEF ClosePane, PaneClosed, FramerStop, AnnounceClosed, PublishBegin, Inv, TypeOK, ReaderType, Fewer
<1> QED BY <1>1, <1>2, <1>3, QuietScreens

LEMMA AsideScreens ==
  ASSUME Inv, Screens,
         \/ \E a \in Actors : PublishEvent(a) \/ PublishUnlock(a)
         \/ \E s \in Subs : Park(s) \/ Stop(s) \/ Exit(s)
         \/ FinalizeBegin \/ FinalizeAwait \/ FinalizeCut \/ FinalizeReturn
         \/ UNCHANGED vars
  PROVE  Screens'
<1>1. UNCHANGED <<cur, client, sub, adp, pane, watcher, ghost>>
  BY DEF PublishEvent, PublishBegin, PublishUnlock, Park, Stop, Exit, takeVars, FinalizeBegin,
     FinalizeAwait, FinalizeCut, FinalizeReturn, finVars, vars
<1> QED BY <1>1, SameWatchers, SamePanes, QuietScreens

LEMMA PublishToScreens ==
  ASSUME Inv, Screens, NEW a \in Actors, NEW s \in Subs, PublishTo(a, s)
  PROVE  Screens'
<1>1. UNCHANGED <<cur, client, watcher, pane, adp>>
  BY DEF PublishTo
<1>2. /\ \A t \in Subs \ {s} : sub'[t] = sub[t]
      /\ sub'[s].slots = sub[s].slots /\ Wanes(sub[s], sub'[s])
  BY PublishToEffect DEF Others, Keeps, Core, Wanes, Accepts
<1>3. \A t \in Subs : ghost'[t].offered = ghost[t].offered
  BY OfferedAside DEF PublishTo
<1> QED BY <1>1, <1>2, <1>3, SameWatchers, SamePanes, FlagScreens DEF Rests

LEMMA PublishKillScreens ==
  ASSUME Inv, Screens, NEW a \in Actors, NEW s \in Subs, PublishKill(a, s)
  PROVE  Screens'
BY KillScreens DEF PublishKill

LEMMA FinalizeKillScreens ==
  ASSUME Inv, Screens, NEW s \in Subs, FinalizeKill(s)
  PROVE  Screens'
BY KillScreens DEF FinalizeKill, finVars

-----------------------------------------------------------------------------
(* Screens, action by action: readers and framers.                         *)

LEMMA ReaderTypes ==
  ASSUME Inv
  PROVE  /\ watcher \in [Subs -> [Panes -> {"none", "key", "sent", "notify"}]]
         /\ \A s \in Subs : watcher[s] \in [Panes -> {"none", "key", "sent", "notify"}]
BY DEF Inv, TypeOK, ReaderType

\* A step of s's reader or of a framer, which offers nothing.
LEMMA ReaderScreens ==
  ASSUME Screens, NEW s \in Subs, UNCHANGED <<cur, client, pane>>,
         \A t \in Subs \ {s} : sub'[t] = sub[t] /\ adp'[t] = adp[t] /\ watcher'[t] = watcher[t],
         \A t \in Subs : ghost'[t].offered = ghost[t].offered,
         Wanes(sub[s], sub'[s]),
         \A p \in Panes : \/ Coherent(s, p)'
                          \/ SameFrame(sub[s].slots, sub'[s].slots, p) /\ Watches(s, p)
  PROVE  Screens'
<1>1. \A t \in Subs \ {s} : Apart(t)
  BY DEF Apart
<1>2. ASSUME NEW p \in Panes PROVE Coherent(s, p)'
  <2>1. CASE SameFrame(sub[s].slots, sub'[s].slots, p) /\ Watches(s, p)
    <3>1. Still(s, p)
      BY <2>1 DEF Still, Wanes, InHand
    <3> QED BY <3>1, SamePanes, StillCoherent DEF Screens
  <2> QED BY <2>1
<1> QED BY <1>1, <1>2, SamePanes, OneScreens

\* The same, as it sends a message.
LEMMA SentScreens ==
  ASSUME Inv, Screens, NEW s \in Subs, NEW x, NEW m, Delivered(s, x, m),
         UNCHANGED <<cur, client, pane>>,
         \A t \in Subs \ {s} : adp'[t] = adp[t] /\ watcher'[t] = watcher[t],
         \A t \in Subs : ghost'[t].offered = ghost[t].offered,
         \A p \in Panes : \/ Coherent(s, p)'
                          \/ SameFrame(sub[s].slots, x, p) /\ Watches(s, p)
  PROVE  Screens'
<1>1. /\ \A t \in Subs \ {s} : sub'[t] = sub[t]
      /\ Wanes(sub[s], sub'[s]) /\ sub'[s].slots = x
  BY DEF Delivered, Others, Keeps, Core, Wanes, Accepts
<1> QED BY <1>1, ReaderScreens

LEMMA SendScreens ==
  ASSUME Inv, Screens, NEW s \in Subs, Send(s)
  PROVE  Screens'
<1> DEFINE m == Reply(ghost[s].requests + 1)
<1>1. UNCHANGED <<cur, client, pane, adp, watcher>>
  BY DEF Send
<1>2. m \in Msg
  BY ReplyIsMessage
<1>3. Delivered(s, sub[s].slots, m)
  BY <1>2, SentPlain DEF Send
<1>4. \A t \in Subs : ghost'[t].offered = ghost[t].offered
  BY SentOffered DEF Send
<1>5. ASSUME NEW p \in Panes PROVE SameFrame(sub[s].slots, sub[s].slots, p) /\ Watches(s, p)
  BY <1>1, SameItself DEF Watches, Holds, Leaves
<1> QED BY <1>1, <1>3, <1>4, <1>5, SentScreens

LEMMA ResyncScreens ==
  ASSUME Inv, Screens, NEW s \in Subs, NEW q \in Panes, Resync(s, q)
  PROVE  Screens'
<1> DEFINE m == Reply(ghost[s].requests + 1)
           f == [watcher[s] EXCEPT ![q] = IF @ = "sent" THEN "key" ELSE @]
<1>1. UNCHANGED <<cur, client, pane, adp>> /\ watcher' = [watcher EXCEPT ![s] = f]
  BY DEF Resync, readerVars
<1>2. m \in Msg
  BY ReplyIsMessage
<1>3. Delivered(s, sub[s].slots, m)
  BY <1>2, SentPlain DEF Resync
<1>4. \A t \in Subs : ghost'[t].offered = ghost[t].offered
  BY SentOffered DEF Resync
<1>5. /\ \A p \in Panes : /\ f[p] # "none" => watcher[s][p] # "none"
                          /\ f[p] = "sent" => watcher[s][p] = "sent"
      /\ watcher'[s] = f /\ \A t \in Subs \ {s} : watcher'[t] = watcher[t]
  BY <1>1, ReaderTypes
<1> HIDE DEF f, m
<1>6. ASSUME NEW p \in Panes PROVE SameFrame(sub[s].slots, sub[s].slots, p) /\ Watches(s, p)
  BY <1>1, <1>5, SameItself DEF Watches, Holds, Leaves
<1> QED BY <1>1, <1>3, <1>4, <1>5, <1>6, SentScreens

\* A slot that is added is empty, and no framer serves it yet.
LEMMA WatchAddSlotScreens ==
  ASSUME Inv, Screens, NEW s \in Subs, NEW q \in Panes, WatchAddSlot(s, q)
  PROVE  Screens'
<1>1. UNCHANGED <<cur, client, pane, watcher>>
  BY DEF WatchAddSlot, readerVars
<1>2. CASE ~Open(sub[s], q)
  <2>1. Delivered(s, sub[s].slots, Refused(q)) /\ adp' = adp
    BY <1>2, Messages, SentPlain DEF WatchAddSlot
  <2>2. \A t \in Subs : ghost'[t].offered = ghost[t].offered
    BY <1>2, SentOffered DEF WatchAddSlot
  <2>3. ASSUME NEW p \in Panes PROVE SameFrame(sub[s].slots, sub[s].slots, p) /\ Watches(s, p)
    BY <1>1, <2>1, SameItself DEF Watches, Holds, Leaves
  <2> QED BY <1>1, <2>1, <2>2, <2>3, SentScreens
<1>3. CASE Open(sub[s], q)
  <2> DEFINE t == sub[s].slots
             x == AddSlot(t, q)
             r == [sub[s] EXCEPT !.slots = x]
  <2>1. sub' = [sub EXCEPT ![s] = r] /\ GoTo(s, "resolve", q)
    BY <1>3 DEF WatchAddSlot
  <2>2. WholeTable(t)
    BY MySub
  <2>3. /\ \A p \in Panes : p # q => SameFrame(t, x, p)
        /\ Has(t, q) => x = t
        /\ Has(x, q)
        /\ ~Has(t, q) => x.at[q] = EmptySlot
    BY <2>2, AddOthers
  <2> HIDE DEF x
  <2>4. r.slots = x /\ Wanes(sub[s], r) /\ Accepts(r)
    BY <1>3, StreamTypes DEF SubRec, Wanes, Accepts, Open
  <2> HIDE DEF r
  <2>5. sub'[s] = r /\ \A u \in Subs \ {s} : sub'[u] = sub[u]
    BY <2>1, StreamTypes
  <2>6. /\ adp'[s].pc = "resolve" /\ adp'[s].pane = q /\ \A u \in Subs \ {s} : adp'[u] = adp[u]
    BY <2>1, GoToFrames
  <2>7. \A u \in Subs : ghost'[u].offered = ghost[u].offered
    BY <1>3, OfferedAside DEF WatchAddSlot
  <2>8. ASSUME NEW p \in Panes, p # q PROVE SameFrame(t, x, p) /\ Watches(s, p)
    BY <1>1, <2>3, <2>6, <2>8 DEF Watches, Holds, Leaves
  <2>9. CASE Has(t, q)
    <3>1. SameFrame(t, x, q) /\ Watches(s, q)
      BY <1>1, <2>3, <2>6, <2>9, SameItself DEF Watches, Holds, Leaves
    <3> QED BY <1>1, <2>4, <2>5, <2>6, <2>7, <2>8, <3>1, ReaderScreens
  <2>10. CASE ~Has(t, q)
    <3>1. Coherent(s, q) /\ sub'[s].slots = x /\ sub'[s].closedPanes = sub[s].closedPanes
      BY <2>4, <2>5 DEF Screens, Wanes
    <3>2. q \in sub'[s].closedPanes => pane'[q].pc # "live"
      BY <1>1, <3>1 DEF Coherent
    <3>3. ~Leaves(s, q)'
      BY <2>6 DEF Leaves
    <3>4. Tidy(sub'[s].slots.at[q]) /\ Has(sub'[s].slots, q)
      BY <2>3, <2>10, <3>1 DEF Tidy, EmptySlot
    <3>5. ~Follows(s, q)'
      BY <1>1, <1>3, <2>10, <3>1 DEF Follows, Serves, Open, Coherent
    <3>6. Coherent(s, q)'
      BY <3>2, <3>3, <3>4, <3>5 DEF Coherent
    <3> QED BY <1>1, <2>4, <2>5, <2>6, <2>7, <2>8, <3>6, ReaderScreens
  <2> QED BY <2>9, <2>10
<1> QED BY <1>2, <1>3

\* A reader that answers and drops q's slot, once no frame of q is to come.
LEMMA DroppedScreens ==
  ASSUME Inv, Screens, NEW s \in Subs, NEW q \in Panes, NEW m \in Msg,
         SendTo(s, [sub[s] EXCEPT !.slots = DropSlot(@, q)], m, 0),
         GoTo(s, "serving", NoPane), UNCHANGED <<cur, client, pane, watcher>>,
         pane[q].pc # "live" \/ watcher[s][q] = "none"
  PROVE  Screens'
<1> DEFINE t == sub[s].slots
           x == DropSlot(t, q)
<1>1. WholeTable(t) /\ WholeTable(x)
  BY MySub, DropSlotWhole
<1>2. Delivered(s, x, m)
  BY <1>1, SentDelivered
<1>3. \A u \in Subs : ghost'[u].offered = ghost[u].offered
  BY SentOffered
<1>4. (\A p \in Panes : p # q => SameFrame(t, x, p)) /\ ~Has(x, q)
  BY <1>1, DropOthers
<1> HIDE DEF x
<1>5. adp'[s].pc = "serving" /\ \A u \in Subs \ {s} : adp'[u] = adp[u]
  BY GoToFrames
<1>6. ASSUME NEW p \in Panes, p # q PROVE SameFrame(t, x, p) /\ Watches(s, p)
  BY <1>4, <1>5, <1>6 DEF Watches, Holds, Leaves
<1>7. Coherent(s, q)'
  <2>1. sub'[s].slots = x /\ sub'[s].closedPanes = sub[s].closedPanes /\ Coherent(s, q)
    BY <1>2 DEF Delivered, Keeps, Screens
  <2>2. q \in sub'[s].closedPanes => pane'[q].pc # "live"
    BY <2>1 DEF Coherent
  <2>3. ~Leaves(s, q)' /\ ~Holds(s, q)'
    BY <1>5 DEF Leaves, Holds
  <2>4. ~(Serves(s, q)' /\ watcher'[s][q] # "none")
    BY DEF Serves
  <2> QED BY <1>4, <2>1, <2>2, <2>3, <2>4, GoneCoherent
<1> QED BY <1>2, <1>3, <1>5, <1>6, <1>7, SentScreens

LEMMA WatchResolveScreens ==
  ASSUME Inv, Screens, NEW s \in Subs, NEW q \in Panes, WatchResolve(s, q)
  PROVE  Screens'
<1>1. UNCHANGED <<cur, client, pane, watcher>> /\ At(s, "resolve", q)
  BY DEF WatchResolve, readerVars
<1>2. CASE pane[q].pc # "live"
  BY <1>1, <1>2, Messages, DroppedScreens DEF WatchResolve
<1>3. CASE pane[q].pc = "live"
  <2>1. sub' = sub /\ ghost' = ghost /\ GoTo(s, "add", q)
    BY <1>3 DEF WatchResolve
  <2>2. /\ adp'[s].pc = "add" /\ adp'[s].pane = q
        /\ \A t \in Subs \ {s} : adp'[t] = adp[t]
    BY <2>1, GoToFrames
  <2>3. ASSUME NEW p \in Panes PROVE SameFrame(sub[s].slots, sub'[s].slots, p) /\ Watches(s, p)
    BY <1>1, <2>1, <2>2, SameItself DEF Watches, Holds, Leaves, At
  <2>4. Wanes(sub[s], sub'[s])
    BY <2>1 DEF Wanes
  <2> QED BY <1>1, <2>1, <2>2, <2>3, <2>4, ReaderScreens
<1> QED BY <1>2, <1>3

LEMMA WatchAddScreens ==
  ASSUME Inv, Screens, NEW s \in Subs, NEW q \in Panes, WatchAdd(s, q)
  PROVE  Screens'
<1>1. UNCHANGED <<cur, client, pane, sub, ghost>> /\ At(s, "add", q)
  BY DEF WatchAdd, readerVars
<1>2. PICK mode \in {"key", "notify"} : watcher' = [watcher EXCEPT ![s] = [watcher[s] EXCEPT ![q] = mode]]
  BY ReaderTypes DEF WatchAdd
<1>3. /\ adp'[s].pc = "answer" /\ adp'[s].pane = q /\ \A t \in Subs \ {s} : adp'[t] = adp[t]
  BY GoToFrames DEF WatchAdd
<1>4. /\ \A t \in Subs \ {s} : watcher'[t] = watcher[t]
      /\ watcher'[s][q] = mode /\ \A p \in Panes \ {q} : watcher'[s][p] = watcher[s][p]
  BY <1>2, ReaderTypes
<1>5. ASSUME NEW p \in Panes PROVE SameFrame(sub[s].slots, sub'[s].slots, p) /\ Watches(s, p)
  BY <1>1, <1>3, <1>4, SameItself DEF Watches, Holds, Leaves, At
<1>6. Wanes(sub[s], sub'[s])
  BY <1>1 DEF Wanes
<1> QED BY <1>1, <1>3, <1>4, <1>5, <1>6, ReaderScreens

LEMMA UnwatchLeaveScreens ==
  ASSUME Inv, Screens, NEW s \in Subs, NEW q \in Panes, UnwatchLeave(s, q)
  PROVE  Screens'
<1>1. UNCHANGED <<cur, client, pane, sub>>
  BY DEF UnwatchLeave, readerVars
<1>2. watcher' = [watcher EXCEPT ![s] = [watcher[s] EXCEPT ![q] = "none"]]
  BY ReaderTypes DEF UnwatchLeave
<1>3. /\ adp'[s].pc = "unslot" /\ adp'[s].pane = q /\ \A t \in Subs \ {s} : adp'[t] = adp[t]
  BY GoToFrames DEF UnwatchLeave
<1>4. /\ \A t \in Subs \ {s} : watcher'[t] = watcher[t]
      /\ watcher'[s][q] = "none" /\ \A p \in Panes \ {q} : watcher'[s][p] = watcher[s][p]
  BY <1>2, ReaderTypes
<1>5. ASSUME NEW p \in Panes PROVE SameFrame(sub[s].slots, sub'[s].slots, p) /\ Watches(s, p)
  BY <1>1, <1>3, <1>4, SameItself DEF Watches, Holds, Leaves
<1>6. Wanes(sub[s], sub'[s])
  BY <1>1 DEF Wanes
<1>7. \A t \in Subs : ghost'[t].offered = ghost[t].offered
  BY OfferedAside DEF UnwatchLeave
<1> QED BY <1>1, <1>3, <1>4, <1>5, <1>6, <1>7, ReaderScreens

LEMMA UnwatchAnswerScreens ==
  ASSUME Inv, Screens, NEW s \in Subs, NEW q \in Panes, UnwatchAnswer(s, q)
  PROVE  Screens'
<1>1. UNCHANGED <<cur, client, pane, watcher>> /\ At(s, "unslot", q)
  BY DEF UnwatchAnswer, readerVars
<1>2. watcher[s][q] = "none"
  BY <1>1 DEF Screens, Coherent, Leaves, At
<1> QED BY <1>1, <1>2, Messages, DroppedScreens DEF UnwatchAnswer

LEMMA WatchAnswerScreens ==
  ASSUME Inv, Screens, NEW s \in Subs, NEW q \in Panes, WatchAnswer(s, q)
  PROVE  Screens'
<1> DEFINE x == Activate(sub[s].slots, q)
<1>1. UNCHANGED <<cur, client, pane, watcher>>
  BY DEF WatchAnswer, readerVars
<1>2. /\ adp'[s].pc = "serving" /\ \A t \in Subs \ {s} : adp'[t] = adp[t]
  BY GoToFrames DEF WatchAnswer
<1>3. WholeTable(sub[s].slots) /\ WholeTable(x)
  BY MySub, ActivateWhole
<1>4. \A p \in Panes : SameFrame(sub[s].slots, x, p)
  BY <1>3, ActivateSame
<1> HIDE DEF x
<1>5. ASSUME NEW p \in Panes PROVE SameFrame(sub[s].slots, x, p) /\ Watches(s, p)
  BY <1>1, <1>2, <1>4 DEF Watches, Holds, Leaves
<1>6. CASE s \in Silent
  <2> DEFINE r == [[sub[s] EXCEPT !.slots = x] EXCEPT !.wake = TRUE]
  <2>1. sub' = [sub EXCEPT ![s] = r] /\ ghost' = ghost
    BY <1>6 DEF WatchAnswer, x
  <2>2. r.slots = x /\ Wanes(sub[s], r)
    BY StreamTypes DEF SubRec, Wanes, Accepts
  <2> HIDE DEF r
  <2>3. sub'[s] = r /\ \A t \in Subs \ {s} : sub'[t] = sub[t]
    BY <2>1, StreamTypes
  <2> QED BY <1>1, <1>2, <1>5, <2>1, <2>2, <2>3, ReaderScreens
<1>7. CASE s \notin Silent
  <2>1. Delivered(s, x, Watching(q))
    BY <1>3, <1>7, Messages, SentDelivered DEF WatchAnswer, x
  <2>2. \A t \in Subs : ghost'[t].offered = ghost[t].offered
    BY <1>7, SentOffered DEF WatchAnswer
  <2> QED BY <1>1, <1>2, <1>5, <2>1, <2>2, SentScreens
<1> QED BY <1>6, <1>7

\* What a peer shows is a screen.
LEMMA ShownFull ==
  ASSUME NEW m \in Msg, NEW v \in Full
  PROVE  Shown(v, m) \in Full
<1>1. CASE m.kind = "frame" /\ m.key
  <2>1. m.rows \in Lines
    BY <1>1 DEF Msg, PlainMsg, FrameMsg
  <2>2. PICK R \in SUBSET Rows : m.rows \in [R -> Cells]
    BY <2>1, LinesFunction
  <2>3. Shown(v, m) = [r \in Rows |-> IF r \in DOMAIN m.rows THEN m.rows[r] ELSE NoCell]
    BY <1>1 DEF Shown
  <2> QED BY <2>2, <2>3 DEF Full
<1>2. CASE m.kind = "frame" /\ ~m.key
  <2>1. m.rows \in Lines
    BY <1>2 DEF Msg, PlainMsg, FrameMsg
  <2>2. Override(m.rows, v) \in Full
    BY <2>1, OverrideScreen DEF Full
  <2> QED BY <1>2, <2>2 DEF Shown
<1>3. CASE m.kind # "frame"
  BY <1>3 DEF Shown
<1> QED BY <1>1, <1>2, <1>3

LEMMA ScreenTypes ==
  ASSUME Inv, NEW s \in Subs, NEW p \in Panes
  PROVE  /\ client[s].view \in [Panes -> Full] /\ InHand(s, p) \in Full
         /\ ghost[s].offered \in [Panes -> Full] /\ ghost[s].offered[p] \in Full
<1>1. client[s].view \in [Panes -> Full] /\ ghost[s].offered \in [Panes -> Full]
  BY StreamTypes DEF ClientRec, GhostRec, Screen, Full
<1>2. client[s].view[p] \in Full /\ ghost[s].offered[p] \in Full
  BY <1>1
<1>3. Shown(client[s].view[p], cur[s]) \in Full
  BY <1>2, StreamTypes, ShownFull
<1> QED BY <1>1, <1>2, <1>3 DEF InHand

\* An offer leaves a slot tidy, whatever waited in it.
LEMMA OfferTidies ==
  ASSUME NEW t, NEW p, WholeTable(t), Has(t, p), Tidy(t.at[p]), NEW key \in BOOLEAN, NEW lines \in Lines,
         key => DOMAIN lines = Rows, NEW v \in Full, NEW u, u = OfferRows(t, p, key, lines)
  PROVE  Tidy(u.at[p]) /\ ~u.at[p].raw /\ Has(u, p)
<1> DEFINE e == t.at[p]
           new == Override(lines, IF key THEN NoRows ELSE e.rows)
<1>1. e \in Slot
  BY TableParts DEF WholeTable, Has
<1>2. e.key \in BOOLEAN /\ e.rows \in Lines
  BY <1>1 DEF Slot
<1>3. u.at[p].full /\ u.at[p].key = (e.key \/ key) /\ ~u.at[p].raw /\ u.at[p].rows = new /\ Has(u, p)
  BY OfferedSlot
<1>4. (e.key \/ key) => DOMAIN new = Rows
  <2>1. CASE key
    BY <2>1, PaintedWhole
  <2>2. CASE ~key
    <3>1. e.key => DOMAIN e.rows = Rows
      BY DEF Tidy
    <3>2. new = Override(lines, e.rows)
      BY <2>2
    <3> HIDE DEF e, new
    <3>3. e.key => DOMAIN new = Rows
      BY <1>2, <3>1, <3>2, PaintedOver
    <3> QED BY <2>2, <3>3
  <2> QED BY <2>1, <2>2
<1> QED BY <1>3, <1>4 DEF Tidy

\* The rows a framer offers are the ones its peer will show.
LEMMA OfferScreens ==
  ASSUME Inv, Screens, NEW s \in Subs, NEW q \in Panes, NEW lines \in Lines, Offer(s, q, lines)
  PROVE  Screens'
<1> DEFINE t == sub[s].slots
           key == watcher[s][q] = "key"
           o == ghost[s].offered[q]
           scr == [ghost[s].offered EXCEPT ![q] = Override(lines, @)]
           g == [ghost[s] EXCEPT !.offered = scr]
<1>1. UNCHANGED <<cur, client, pane, adp>> /\ watcher[s][q] \in {"key", "sent"}
      /\ (key => DOMAIN lines = Rows)
  BY DEF Offer, readerVars
<1>2. watcher' = [watcher EXCEPT ![s] = [watcher[s] EXCEPT ![q] = "sent"]]
  BY ReaderTypes DEF Offer
<1>3. /\ \A u \in Subs \ {s} : watcher'[u] = watcher[u]
      /\ watcher'[s][q] = "sent" /\ \A p \in Panes \ {q} : watcher'[s][p] = watcher[s][p]
  BY <1>2, ReaderTypes
<1>4. ghost' = [ghost EXCEPT ![s] = g]
  BY DEF Offer
<1>5. /\ scr[q] = Override(lines, o)
      /\ \A p \in Panes \ {q} : scr[p] = ghost[s].offered[p]
  BY ScreenTypes
<1> HIDE DEF scr
<1>6. g.offered = scr
  BY StreamTypes DEF GhostRec
<1> HIDE DEF g
<1>7. ghost'[s] = g /\ \A u \in Subs \ {s} : ghost'[u] = ghost[u]
  BY <1>4, StreamTypes
<1>8. WholeTable(t) /\ Coherent(s, q)
  BY MySub DEF Screens
<1>9. o \in Full /\ InHand(s, q) \in Full /\ InHand(s, q)' = InHand(s, q)
  BY <1>1, ScreenTypes DEF InHand
<1>10. ~Leaves(s, q)'
  BY <1>1, <1>8 DEF Coherent, Leaves
<1>11. CASE Open(sub[s], q) /\ Has(t, q)
  <2> DEFINE x == OfferRows(t, q, key, lines)
             r == [sub[s] EXCEPT !.slots = x, !.wake = TRUE]
  <2>1. sub' = [sub EXCEPT ![s] = r]
    BY <1>11 DEF Offer
  <2>2. /\ \A p \in Panes : p # q => SameFrame(t, x, p)
        /\ Tidy(x.at[q]) /\ ~x.at[q].raw /\ Has(x, q)
    <3>1. key \in BOOLEAN
      OBVIOUS
    <3>2. Tidy(t.at[q])
      BY <1>8, <1>11 DEF Coherent
    <3> HIDE DEF key
    <3>3. \A p : p # q => SameFrame(t, x, p)
      BY <1>8, <1>11, <3>1, OfferedSlot
    <3> HIDE DEF o, t
    <3>4. Tidy(x.at[q]) /\ ~x.at[q].raw /\ Has(x, q)
      BY <1>1, <1>8, <1>9, <1>11, <3>1, <3>2, OfferTidies
    <3> QED BY <3>3, <3>4
  <2>3. ASSUME Follows(s, q) \/ key PROVE Overlaid(InHand(s, q), x, q) = Override(lines, o)
    <3>1. key \in BOOLEAN
      OBVIOUS
    <3>2. Tidy(t.at[q])
      BY <1>8, <1>11 DEF Coherent
    <3>3. ~key => ~t.at[q].raw /\ Overlaid(InHand(s, q), t, q) = o
      BY <1>8, <2>3 DEF Coherent
    <3> HIDE DEF key, t, o
    <3> QED BY <1>1, <1>8, <1>9, <1>11, <3>1, <3>2, <3>3, OfferShows
  <2> HIDE DEF x
  <2>4. r.slots = x /\ Wanes(sub[s], r) /\ r.failed = sub[s].failed
    BY StreamTypes DEF SubRec, Wanes, Accepts
  <2> HIDE DEF r
  <2>5. sub'[s] = r /\ \A u \in Subs \ {s} : sub'[u] = sub[u]
    BY <2>1, StreamTypes
  <2>6. ASSUME NEW p \in Panes, p # q PROVE Coherent(s, p)'
    <3>1. Still(s, p)
      BY <1>1, <1>3, <1>5, <1>6, <1>7, <2>2, <2>4, <2>5, <2>6 DEF Still, Wanes, Watches, Holds, Leaves, InHand
    <3> QED BY <1>1, <3>1, SamePanes, StillCoherent DEF Screens
  <2>7. Coherent(s, q)'
    <3>1. q \in sub'[s].closedPanes => pane'[q].pc # "live"
      BY <1>1, <1>8, <2>4, <2>5 DEF Coherent, Wanes
    <3>2. Follows(s, q)' => Follows(s, q) \/ key
      BY <1>1, <1>11, <2>4, <2>5 DEF Follows, Serves, Wanes
    <3>3. Follows(s, q)' => Overlaid(InHand(s, q)', x, q) = ghost'[s].offered[q]
      BY <1>5, <1>6, <1>7, <1>9, <2>3, <3>2
    <3> HIDE DEF key
    <3> QED BY <1>10, <2>2, <2>4, <2>5, <3>1, <3>3 DEF Coherent
  <2>8. \A u \in Subs \ {s} : Apart(u)
    BY <1>1, <1>3, <1>7, <2>5 DEF Apart
  <2> QED BY <1>1, <2>6, <2>7, <2>8, SamePanes, OneScreens
<1>12. CASE ~(Open(sub[s], q) /\ Has(t, q))
  <2>1. sub' = sub
    BY <1>12 DEF Offer
  <2>2. ASSUME NEW p \in Panes, p # q PROVE Coherent(s, p)'
    <3>1. Still(s, p)
      BY <1>1, <1>3, <1>5, <1>6, <1>7, <2>1, <2>2, SameItself DEF Still, Watches, Holds, Leaves, InHand
    <3> QED BY <1>1, <3>1, SamePanes, StillCoherent DEF Screens
  <2>3. ~Serves(s, q)'
    BY <1>1, <1>8, <1>12, <2>1 DEF Serves, Coherent, Open
  <2>4. Coherent(s, q)'
    BY <1>1, <1>8, <1>10, <2>1, <2>3 DEF Coherent, Follows
  <2>5. \A u \in Subs \ {s} : Apart(u)
    BY <1>1, <1>3, <1>7, <2>1 DEF Apart
  <2> QED BY <1>1, <2>2, <2>4, <2>5, SamePanes, OneScreens
<1> QED BY <1>11, <1>12

\* Notify mode offers no rows: nobody follows that pane.
LEMMA OfferChangedScreens ==
  ASSUME Inv, Screens, NEW s \in Subs, NEW q \in Panes, OfferChanged(s, q)
  PROVE  Screens'
<1>1. UNCHANGED <<cur, client, pane, adp, watcher, ghost>> /\ watcher[s][q] = "notify"
  BY DEF OfferChanged, readerVars
<1>2. CASE Open(sub[s], q) /\ Has(sub[s].slots, q)
  <2> DEFINE t == sub[s].slots
             x == OfferRaw(t, q)
             r == [sub[s] EXCEPT !.slots = x, !.wake = TRUE]
  <2>1. sub' = [sub EXCEPT ![s] = r]
    BY <1>2 DEF OfferChanged
  <2>2. WholeTable(t) /\ Coherent(s, q)
    BY MySub DEF Screens
  <2>3. Tidy(t.at[q])
    BY <1>2, <2>2 DEF Coherent
  <2>4. (\A p \in Panes : p # q => SameFrame(t, x, p)) /\ Has(x, q) /\ Tidy(x.at[q])
    BY <1>2, <2>2, <2>3, OfferedRaw
  <2> HIDE DEF x
  <2>5. r.slots = x /\ Wanes(sub[s], r)
    BY StreamTypes DEF SubRec, Wanes, Accepts
  <2> HIDE DEF r
  <2>6. sub'[s] = r /\ \A u \in Subs \ {s} : sub'[u] = sub[u]
    BY <2>1, StreamTypes
  <2>7. ASSUME NEW p \in Panes, p # q PROVE SameFrame(t, x, p) /\ Watches(s, p)
    BY <1>1, <2>4, <2>7 DEF Watches, Holds, Leaves
  <2>8. Coherent(s, q)'
    BY <1>1, <2>2, <2>4, <2>5, <2>6 DEF Coherent, Follows, Wanes, Leaves
  <2> QED BY <1>1, <2>5, <2>6, <2>7, <2>8, ReaderScreens
<1>3. CASE ~(Open(sub[s], q) /\ Has(sub[s].slots, q))
  <2>1. sub' = sub
    BY <1>3 DEF OfferChanged
  <2> QED BY <1>1, <2>1, SameWatchers, SamePanes, QuietScreens
<1> QED BY <1>2, <1>3

-----------------------------------------------------------------------------
(* Screens, action by action: closes, Finalize and the writer.             *)

LEMMA PaneClosedToScreens ==
  ASSUME Inv, Screens, NEW q \in Panes, NEW s \in Subs, PaneClosedTo(q, s)
  PROVE  Screens'
<1> DEFINE t == sub[s].slots
           x == DropSlot(t, q)
           shut == sub[s].closedPanes \cup {q}
           r == [sub[s] EXCEPT !.closedPanes = shut, !.slots = x]
<1>1. UNCHANGED <<cur, client, adp, watcher, ghost>> /\ sub' = [sub EXCEPT ![s] = r]
  BY StreamTypes DEF PaneClosedTo, closeVars, ForgetPane
<1>2. /\ r.slots = x /\ r.closedPanes = shut /\ r.failed = sub[s].failed
      /\ Accepts(r) => Accepts(sub[s])
  <2> HIDE DEF x, shut
  <2> QED BY StreamTypes DEF SubRec, Accepts
<1> HIDE DEF r
<1>3. sub'[s] = r /\ \A u \in Subs \ {s} : sub'[u] = sub[u]
  BY <1>1, StreamTypes
<1>4. (\A p \in Panes : p # q => SameFrame(t, x, p)) /\ ~Has(x, q)
  BY MySub, DropOthers
<1> HIDE DEF x
<1>5. /\ \A p \in Panes \ {q} : pane'[p] = pane[p]
      /\ pane[q].pc = "telling" /\ pane'[q].pc = "telling"
  BY PubTypes DEF PaneClosedTo, PaneTo
<1>6. PanesOn
  BY <1>5 DEF PanesOn
<1>7. ASSUME NEW p \in Panes, p # q PROVE Coherent(s, p)'
  <2>1. Still(s, p)
    BY <1>1, <1>2, <1>3, <1>4, <1>7 DEF Still, Watches, Holds, Leaves, InHand
  <2> QED BY <1>6, <2>1, StillCoherent DEF Screens
<1>8. Coherent(s, q)'
  <2>1. Coherent(s, q)
    BY DEF Screens
  <2>2. Leaves(s, q)' => watcher'[s][q] = "none"
    BY <1>1, <2>1 DEF Coherent, Leaves
  <2> QED BY <1>2, <1>3, <1>4, <1>5, <2>2, GoneCoherent DEF Serves
<1>9. \A u \in Subs \ {s} : Apart(u)
  BY <1>1, <1>3 DEF Apart
<1> QED BY <1>6, <1>7, <1>8, <1>9, OneScreens

LEMMA FinalizeSubScreens ==
  ASSUME Inv, Screens, NEW s \in Subs, FinalizeSub(s)
  PROVE  Screens'
<1>1. UNCHANGED <<cur, client, watcher, pane, adp, ghost>> /\ sub' = [sub EXCEPT ![s] = Finalized(sub[s])]
  BY DEF FinalizeSub, finVars
<1>2. CASE sub[s].dead \/ sub[s].finalized
  <2>1. sub' = sub
    BY <1>1, <1>2, StreamTypes DEF Finalized
  <2> QED BY <1>1, <2>1, SameWatchers, SamePanes, QuietScreens
<1>3. CASE ~(sub[s].dead \/ sub[s].finalized)
  <2> DEFINE r == [sub[s] EXCEPT !.finalized = TRUE, !.fifo = << >>, !.bytes = 0,
                                 !.slots = NoSlots, !.finals = AllFinals, !.wake = TRUE]
  <2>1. sub' = [sub EXCEPT ![s] = r]
    BY <1>1, <1>3 DEF Finalized
  <2>2. r.slots = NoSlots /\ r.finalized /\ Wanes(sub[s], r)
    BY StreamTypes DEF SubRec, Wanes, Accepts
  <2> HIDE DEF r
  <2>3. sub'[s] = r /\ \A u \in Subs \ {s} : sub'[u] = sub[u]
    BY <2>1, StreamTypes
  <2>4. ASSUME NEW p \in Panes PROVE Coherent(s, p)'
    <3>1. Coherent(s, p) /\ ~Has(NoSlots, p)
      BY LessNone DEF Screens
    <3>2. Leaves(s, p)' => watcher'[s][p] = "none"
      BY <1>1, <3>1 DEF Coherent, Leaves
    <3>3. p \in sub'[s].closedPanes => pane'[p].pc # "live"
      BY <1>1, <2>2, <2>3, <3>1 DEF Coherent, Wanes
    <3>4. ~Serves(s, p)'
      BY <2>2, <2>3 DEF Serves, Accepts
    <3> QED BY <2>2, <2>3, <3>1, <3>2, <3>3, <3>4, GoneCoherent
  <2>5. \A u \in Subs \ {s} : Apart(u)
    BY <1>1, <2>3 DEF Apart
  <2> QED BY <1>1, <2>4, <2>5, SamePanes, OneScreens
<1> QED BY <1>2, <1>3

\* What a writer's step on s leaves of the others.
LEMMA WriterApart ==
  ASSUME Screens, NEW s \in Subs, UNCHANGED <<adp, watcher, pane, ghost>>,
         \A u \in Subs \ {s} : sub'[u] = sub[u] /\ cur'[u] = cur[u] /\ client'[u] = client[u],
         \A p \in Panes : Still(s, p) \/ Coherent(s, p)'
  PROVE  Screens'
<1>1. \A u \in Subs \ {s} : Apart(u)
  BY DEF Apart
<1>2. \A p \in Panes : Coherent(s, p)'
  BY SamePanes, StillCoherent DEF Screens
<1> QED BY <1>1, <1>2, SamePanes, OneScreens

LEMMA HandScreens ==
  ASSUME Inv, NEW s \in Subs, NEW m, NEW q, Hand(s, m, q)
  PROVE  /\ UNCHANGED <<adp, watcher, pane, ghost, client>> /\ sub'[s] = q /\ cur'[s] = m
         /\ \A t \in Subs \ {s} : sub'[t] = sub[t] /\ cur'[t] = cur[t] /\ client'[t] = client[t]
BY HandFrames DEF Hand, takeVars

\* The writer takes a message that is no frame.
LEMMA PlainTakenScreens ==
  ASSUME Inv, Streams, Screens, NEW s \in Subs, NEW m, NEW q, Taking(s), Hand(s, m, q), ~Picture(m),
         q.slots = sub[s].slots, Wanes(sub[s], q)
  PROVE  Screens'
<1>1. /\ UNCHANGED <<adp, watcher, pane, ghost, client>> /\ sub'[s] = q /\ cur'[s] = m
      /\ \A t \in Subs \ {s} : sub'[t] = sub[t] /\ cur'[t] = cur[t] /\ client'[t] = client[t]
  BY HandScreens
<1>2. ~Picture(cur[s])
  BY AtTake, KindsApart
<1>3. ASSUME NEW p \in Panes PROVE Still(s, p)
  BY <1>1, <1>2, SameItself DEF Still, Wanes, Watches, Holds, Leaves, InHand
<1> QED BY <1>1, <1>3, WriterApart

LEMMA TakeHeadScreens ==
  ASSUME Inv, Streams, Screens, NEW s \in Subs, TakeHead(s)
  PROVE  Screens'
<1> DEFINE q == [sub[s] EXCEPT !.head = FALSE]
<1>1. Taking(s) /\ Hand(s, Aggregate, q)
  BY DEF TakeHead
<1>2. q.slots = sub[s].slots /\ Wanes(sub[s], q)
  BY StreamTypes DEF SubRec, Wanes, Accepts
<1> HIDE DEF q
<1> QED BY <1>1, <1>2, KindsApart, PlainTakenScreens

LEMMA TakeFinalScreens ==
  ASSUME Inv, Streams, Screens, NEW s \in Subs, TakeFinal(s)
  PROVE  Screens'
<1> DEFINE rest == Tail(sub[s].finals)
           q == [sub[s] EXCEPT !.finals = rest]
           m == Final(sub[s].finals[1])
<1>1. Taking(s) /\ Hand(s, m, q)
  BY DEF TakeFinal
<1>2. q.slots = sub[s].slots /\ Wanes(sub[s], q)
  <2> HIDE DEF rest
  <2> QED BY StreamTypes DEF SubRec, Wanes, Accepts
<1>3. ~Picture(m)
  BY KindsApart
<1> HIDE DEF q, m
<1> QED BY <1>1, <1>2, <1>3, PlainTakenScreens

LEMMA TakeFifoScreens ==
  ASSUME Inv, Streams, Screens, NEW s \in Subs, TakeFifo(s)
  PROVE  Screens'
<1> DEFINE old == sub[s].fifo
           rest == Tail(old)
           m == old[1]
           q == [sub[s] EXCEPT !.fifo = rest, !.bytes = @ - Size(m)]
<1>1. Taking(s) /\ Hand(s, m, q) /\ old # << >>
  BY DEF TakeFifo, Live
<1>2. q.slots = sub[s].slots /\ Wanes(sub[s], q)
  <2> HIDE DEF rest
  <2> QED BY StreamTypes DEF SubRec, Wanes, Accepts
<1> HIDE DEF q
<1>3. 1 \in 1..Len(old)
  BY <1>1, StreamTypes, TailParts
<1>4. ~Picture(m)
  BY <1>1, <1>3, AtTake DEF OnStream, Hands, QueueKinds, Picture
<1> QED BY <1>1, <1>2, <1>4, PlainTakenScreens

\* A frame that is taken is in hand instead of in its slot.
LEMMA TakeFrameScreens ==
  ASSUME Inv, Streams, Screens, NEW s \in Subs, TakeFrame(s)
  PROVE  Screens'
<1> DEFINE t == sub[s].slots
           x == TakeSlot(t)
           v == Served(t)
           m == FrameOf(t, v)
           q == [sub[s] EXCEPT !.slots = x]
<1>1. Taking(s) /\ Hand(s, m, q) /\ HasPending(t) /\ WholeTable(t)
  BY MySub DEF TakeFrame, Live
<1>2. /\ \A p : p # v => SameFrame(t, x, p)
      /\ Has(t, v) /\ t.at[v].full /\ Has(x, v) /\ ~x.at[v].full /\ ~x.at[v].raw /\ Tidy(x.at[v])
  BY <1>1, TakenSlot
<1>3. Picture(m) /\ m.pane = v
  BY DEF Picture, FrameOf
<1> HIDE DEF x
<1>4. q.slots = x /\ Wanes(sub[s], q) /\ (Accepts(q) => Accepts(sub[s])) /\ q.failed = sub[s].failed
      /\ q.closedPanes = sub[s].closedPanes
  BY StreamTypes DEF SubRec, Wanes, Accepts
<1> HIDE DEF q
<1>5. /\ UNCHANGED <<adp, watcher, pane, ghost, client>> /\ sub'[s] = q /\ cur'[s] = m
      /\ \A u \in Subs \ {s} : sub'[u] = sub[u] /\ cur'[u] = cur[u] /\ client'[u] = client[u]
  BY <1>1, HandScreens
<1>6. ~Picture(cur[s])
  BY <1>1, AtTake, KindsApart
<1>7. ASSUME NEW p \in Panes PROVE Still(s, p) \/ Coherent(s, p)'
  <2>1. CASE p # v
    <3>1. InHand(s, p)' = InHand(s, p)
      BY <1>3, <1>5, <1>6, <2>1 DEF InHand
    <3> HIDE DEF v, m
    <3>2. Still(s, p)
      BY <1>2, <1>4, <1>5, <2>1, <3>1 DEF Still, Wanes, Watches, Holds, Leaves
    <3> QED BY <3>2
  <2>2. CASE p = v
    <3>1. Coherent(s, p)
      BY DEF Screens
    <3>2. /\ InHand(s, p) = client[s].view[p]
          /\ InHand(s, p)' = Shown(client[s].view[p], m)
          /\ Overlaid(client[s].view[p], t, p) = Shown(client[s].view[p], m)
      BY <1>2, <1>3, <1>5, <1>6, <2>2 DEF InHand, Overlaid
    <3> HIDE DEF v, m
    <3>3. Overlaid(InHand(s, p)', x, p) = InHand(s, p)'
      BY <1>2, <2>2 DEF Overlaid
    <3>4. Follows(s, p)' => Follows(s, p)
      BY <1>2, <1>4, <1>5, <2>2 DEF Follows, Serves
    <3>5. Follows(s, p)' => ~x.at[p].raw /\ Overlaid(InHand(s, p)', x, p) = ghost'[s].offered[p]
      BY <1>2, <1>5, <2>2, <3>1, <3>2, <3>3, <3>4 DEF Coherent
    <3>6. Leaves(s, p)' => watcher'[s][p] = "none"
      BY <1>5, <3>1 DEF Coherent, Leaves
    <3>7. p \in sub'[s].closedPanes => pane'[p].pc # "live"
      BY <1>4, <1>5, <3>1 DEF Coherent
    <3>8. Has(sub'[s].slots, p) /\ Tidy(sub'[s].slots.at[p])
      BY <1>2, <1>4, <1>5, <2>2
    <3>9. Coherent(s, p)'
      BY <1>4, <1>5, <3>5, <3>6, <3>7, <3>8 DEF Coherent
    <3> QED BY <3>9
  <2> QED BY <2>1, <2>2
<1> QED BY <1>5, <1>7, WriterApart

\* What was in hand is on the screen.
LEMMA WriteOkScreens ==
  ASSUME Inv, Screens, NEW s \in Subs, WriteOk(s)
  PROVE  Screens'
<1> DEFINE m == cur[s]
           scr == [client[s].view EXCEPT ![m.pane] = Shown(@, m)]
           c == [client[s] EXCEPT !.view = scr]
<1>1. /\ UNCHANGED <<adp, watcher, pane, ghost, sub>> /\ cur' = [cur EXCEPT ![s] = NoMsg]
      /\ client' = [client EXCEPT ![s] = Received(@, m)]
  BY DEF WriteOk, writeVars
<1>2. /\ cur'[s] = NoMsg /\ client'[s] = Received(client[s], m)
      /\ \A u \in Subs \ {s} : cur'[u] = cur[u] /\ client'[u] = client[u]
  BY <1>1, StreamTypes
<1>3. ASSUME NEW p \in Panes PROVE client'[s].view[p] = InHand(s, p)
  <2>1. CASE ~Picture(m)
    <3>1. Received(client[s], m).view = client[s].view
      BY <2>1, StreamTypes DEF Received, Picture, ClientRec
    <3> QED BY <1>2, <2>1, <3>1 DEF InHand
  <2>2. CASE Picture(m)
    <3>1. m.pane \in Panes
      BY <2>2, StreamTypes DEF Msg, FrameMsg, PlainMsg, Picture
    <3>2. client'[s] = c
      BY <1>2, <2>2, StreamTypes DEF Received, Picture, ClientRec
    <3>3. scr[p] = IF p = m.pane THEN Shown(client[s].view[p], m) ELSE client[s].view[p]
      BY <3>1, ScreenTypes
    <3> HIDE DEF scr
    <3>4. c.view = scr
      BY StreamTypes DEF ClientRec
    <3> QED BY <2>2, <3>2, <3>3, <3>4 DEF InHand
  <2> QED BY <2>1, <2>2
<1>4. ASSUME NEW p \in Panes PROVE Still(s, p)
  <2>1. InHand(s, p)' = client'[s].view[p]
    BY <1>2, KindsApart DEF InHand
  <2> QED BY <1>1, <1>3, <2>1, SameItself DEF Still, Watches, Holds, Leaves
<1> QED BY <1>1, <1>2, <1>4, WriterApart

LEMMA WriteFailScreens ==
  ASSUME Inv, Screens, NEW s \in Subs, NEW torn \in BOOLEAN, WriteFail(s, torn)
  PROVE  Screens'
<1> DEFINE q == [sub[s] EXCEPT !.failed = TRUE, !.torn = @ \/ torn]
<1>1. /\ UNCHANGED <<adp, watcher, pane, ghost>> /\ cur' = [cur EXCEPT ![s] = NoMsg]
      /\ sub' = [sub EXCEPT ![s] = q]
      /\ \A u \in Subs \ {s} : client'[u] = client[u]
  BY StreamTypes DEF WriteFail, writeVars
<1>2. q.failed /\ q.slots = sub[s].slots /\ Wanes(sub[s], q)
  BY StreamTypes DEF SubRec, Wanes, Accepts
<1> HIDE DEF q
<1>3. sub'[s] = q /\ \A u \in Subs \ {s} : sub'[u] = sub[u] /\ cur'[u] = cur[u]
  BY <1>1, StreamTypes
<1>4. ASSUME NEW p \in Panes PROVE Still(s, p)
  BY <1>1, <1>2, <1>3, SameItself DEF Still, Wanes, Watches, Holds, Leaves
<1> QED BY <1>1, <1>3, <1>4, WriterApart

-----------------------------------------------------------------------------
LEMMA InitScreens == Init => Screens
<1> SUFFICES ASSUME Init, NEW s \in Subs, NEW p \in Panes PROVE Coherent(s, p)
  BY DEF Screens
<1>1. sub[s] = NewSub /\ watcher[s][p] = "none" /\ adp[s].pc = "none"
  BY DEF Init
<1>2. NewSub.slots = NoSlots /\ NewSub.closedPanes = {} /\ ~Has(NoSlots, p)
  BY LessNone DEF NewSub
<1> QED BY <1>1, <1>2 DEF Coherent, Leaves, Holds, Follows

LEMMA NextScreens == Inv /\ Streams /\ Screens /\ [Next]_vars => Screens'
<1> SUFFICES ASSUME Inv, Streams, Screens, [Next]_vars PROVE Screens'
  OBVIOUS
<1>1. ASSUME NEW s \in Subs, Session(s) \/ Start(s) \/ Send(s) \/ Close(s) PROVE Screens'
  BY <1>1, SessionScreens, StartScreens, SendScreens, CloseScreens
<1>2. ASSUME NEW s \in Subs, Killing(s) PROVE Screens'
  BY <1>2, ReapScreens, DropWatchesScreens DEF Killing
<1>3. ASSUME NEW s \in Subs, Watch(s) PROVE Screens'
  BY <1>3, WatchAddSlotScreens, WatchResolveScreens, WatchAddScreens, WatchAnswerScreens,
     UnwatchLeaveScreens, UnwatchAnswerScreens, ResyncScreens, OfferScreens, OfferChangedScreens
  DEF Watch
<1>4. ASSUME NEW s \in Subs, Writer(s) PROVE Screens'
  BY <1>4, TakeHeadScreens, TakeFinalScreens, TakeFifoScreens, TakeFrameScreens, AsideScreens,
     WakeScreens
  DEF Writer
<1>5. ASSUME NEW s \in Subs, Write(s) PROVE Screens'
  BY <1>5, WriteOkScreens, WriteFailScreens DEF Write
<1>6. ASSUME NEW a \in Actors, PublishEvent(a) \/ Publishing(a) PROVE Screens'
  BY <1>6, AsideScreens, PublishToScreens, PublishKillScreens DEF Publishing
<1>7. ASSUME NEW p \in Panes, ClosePane(p) \/ Closing(p) PROVE Screens'
  BY <1>7, PaneScreens, PaneClosedToScreens DEF Closing
<1>8. CASE FinalizeBegin \/ Finalizing
  BY <1>8, AsideScreens, FinalizeSubScreens, FinalizeKillScreens DEF Finalizing
<1>9. CASE UNCHANGED vars
  BY <1>9, AsideScreens
<1> QED BY <1>1, <1>2, <1>3, <1>4, <1>5, <1>6, <1>7, <1>8, <1>9 DEF Next

LEMMA ScreensSay == Screens => ScreenCoherent
<1> SUFFICES ASSUME Screens, NEW s \in Subs, NEW p \in Panes, Follows(s, p)
             PROVE  WillShow(s, p) = ghost[s].offered[p]
  BY DEF ScreenCoherent, Follows, Serves
<1> QED BY DEF Screens, Coherent, WillShow, Overlaid, InHand

(* Coalescing loses nothing, for any number of subscribers, panes, rows and*)
(* cells, and however offers, takes, writes, watches and closes fall       *)
(* between each other: as long as the session and the pane live, what the  *)
(* peer shows, overlaid with the frame in its writer's hands and the one   *)
(* in its slot, is the screen the framer last offered it.                  *)
THEOREM ScreensCohere == Spec => []ScreenCoherent
BY InitHolds, NextHolds, InitScreens, NextScreens, ScreensSay, PTL DEF Spec, IInv
=============================================================================
