----------------------------- MODULE FrameSlots -----------------------------
(***************************************************************************)
(* The frame side of one subscriber (src/hub/watch.go): one latest-wins    *)
(* slot per watched pane, merged by row, drained round-robin.  A slot      *)
(* table is a record                                                       *)
(*     [at    |-> the slots map, a function on the panes that have a slot, *)
(*      order |-> slotOrder, the panes in the order they were added,       *)
(*      next  |-> slotNext, the index of the last pane served]             *)
(* and every operator returns the table the Go method leaves behind.       *)
(*                                                                         *)
(* Rows and cells are abstracted: a row is a member of Rows and its encoded*)
(* line a member of Cells.  A slot's header travels with its rows, so the  *)
(* fields hdr and raw of the code become one flag, raw: the waiting message*)
(* is notify mode's "this pane changed" and not a frame.                   *)
(***************************************************************************)
EXTENDS Integers, Sequences, FiniteSets, Functions

CONSTANTS
    Panes,    \* pane ids
    Rows,     \* row indices of a pane's screen
    Cells     \* what a row can show

ASSUME SlotSets == IsFiniteSet(Rows) /\ Rows # {} /\ Cells # {}

NoRows == [r \in {} |-> 0]
Lines == UNION { [R -> Cells] : R \in SUBSET Rows }

Override(f, g) ==
    [r \in DOMAIN f \cup DOMAIN g |-> IF r \in DOMAIN f THEN f[r] ELSE g[r]]

Slot == [active : BOOLEAN, full : BOOLEAN, key : BOOLEAN,
         rows : Lines, raw : BOOLEAN]

EmptySlot == [active |-> FALSE, full |-> FALSE, key |-> FALSE,
              rows |-> NoRows, raw |-> FALSE]

SlotTable == [at : UNION { [P -> Slot] : P \in SUBSET Panes },
              order : Seq(Panes),
              next : Nat]

NoSlots == [at |-> [p \in {} |-> EmptySlot], order |-> << >>, next |-> 0]

Has(t, p) == p \in DOMAIN t.at

Pending(t, p) == Has(t, p) /\ t.at[p].active /\ t.at[p].full

HasPending(t) == \E p \in DOMAIN t.at : Pending(t, p)

\* addSlot, once its refusal has been ruled out: an existing slot is kept.
AddSlot(t, p) ==
    IF Has(t, p) THEN t
    ELSE [at    |-> [q \in DOMAIN t.at \cup {p} |->
                        IF q = p THEN EmptySlot ELSE t.at[q]],
          order |-> Append(t.order, p),
          next  |-> t.next]

\* dropSlotLocked: the pane leaves the rotation at its first place in it;
\* slotNext stays where it was.
Without(q, i) == [k \in 1..(Len(q) - 1) |-> IF k < i THEN q[k] ELSE q[k + 1]]

PlaceOf(q, p) == CHOOSE i \in 1..Len(q) : q[i] = p

\* Mutant: the pane stays in the rotation.
DropSlotOnly(t, p) ==
    IF Has(t, p) THEN [t EXCEPT !.at = Restrict(@, DOMAIN @ \ {p})] ELSE t

DropSlot(t, p) ==
    IF Has(t, p)
    THEN [at    |-> Restrict(t.at, DOMAIN t.at \ {p}),
          order |-> Without(t.order, PlaceOf(t.order, p)),
          next  |-> t.next]
    ELSE t

Activate(t, p) ==
    IF Has(t, p) THEN [t EXCEPT !.at[p].active = TRUE] ELSE t

\* Offer with rows = nil: notify mode's whole message waits in the slot.
OfferRaw(t, p) ==
    [t EXCEPT !.at[p] = [@ EXCEPT !.raw = TRUE, !.full = TRUE]]

\* Mutant: a delta replaces the rows that wait.
OfferRowsLatest(t, p, key, lines) ==
    [t EXCEPT !.at[p] = [active |-> @.active, full |-> TRUE, key |-> @.key \/ key,
                         raw |-> FALSE, rows |-> lines]]

\* Offer with rows: a keyframe supersedes what waits, a delta merges into it.
\* The key flag is sticky either way.
OfferRows(t, p, key, lines) ==
    LET old == IF key THEN NoRows ELSE t.at[p].rows
    IN  [t EXCEPT !.at[p] = [active |-> @.active, full |-> TRUE,
                              key |-> @.key \/ key, raw |-> FALSE,
                              rows |-> Override(lines, old)]]

\* The pane takeSlotLocked serves: the first one after slotNext, round and
\* round, whose slot is pending.  A slotNext past the end wraps to index 0.
Turn(t, i) ==
    LET n == Len(t.order)
        from == IF t.next >= n THEN n - 1 ELSE t.next
    IN  IF from + i < n THEN from + i ELSE from + i - n

ReadyTurns(t) == {i \in 1..Len(t.order) : Pending(t, t.order[Turn(t, i) + 1])}

ServedIndex(t) ==
    Turn(t, CHOOSE i \in ReadyTurns(t) : \A j \in ReadyTurns(t) : i <= j)

Served(t) == t.order[ServedIndex(t) + 1]

\* assemble, and the slot left empty but active.
FrameOf(t, p) ==
    [kind |-> IF t.at[p].raw THEN "changed" ELSE "frame", pane |-> p,
     key  |-> ~t.at[p].raw /\ t.at[p].key,
     rows |-> IF t.at[p].raw THEN NoRows ELSE t.at[p].rows]

TakeSlot(t) ==
    [t EXCEPT !.at[Served(t)] = [EmptySlot EXCEPT !.active = t.at[Served(t)].active],
              !.next = ServedIndex(t)]

\* The rotation and the map agree: order lists the panes that have a slot, each
\* once.  Otherwise hasSlotLocked could see a frame takeSlotLocked never finds.
InRotation(t) ==
    /\ \A i \in 1..Len(t.order) : t.order[i] \in DOMAIN t.at
    /\ \A p \in DOMAIN t.at : \E i \in 1..Len(t.order) : t.order[i] = p
    /\ \A i, j \in 1..Len(t.order) : t.order[i] = t.order[j] => i = j
=============================================================================
