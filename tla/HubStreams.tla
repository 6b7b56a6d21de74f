----------------------------- MODULE HubStreams -----------------------------
(***************************************************************************)
(* HubBus implements MessageStream: the mapping from the Sub, its writer   *)
(* and the publishers under way to the stream one peer is promised.        *)
(***************************************************************************)
EXTENDS HubBus

(* What s reads is the stream MessageStream promises: nothing accepted is  *)
(* lost, doubled or reordered, finals end it, and it is cut short only for *)
(* a reason; a byte count that drifts would be none.  (Session, enqueue,   *)
(* take, finalize, kill.)                                                  *)
Phase(r, w) ==
    IF r.dead \/ r.torn \/ w \in {"stopped", "ended"} THEN "over"
    ELSE IF r.finalized THEN "final"
    ELSE IF r.failed THEN "failed"
    ELSE IF r.closed THEN "left"
    ELSE "open"

Queue(r) ==
    (IF r.started /\ ~r.head THEN << >> ELSE << Aggregate >>)
      \o (IF r.finalized THEN [i \in 1..Len(r.finals) |-> Final(r.finals[i])] ELSE r.fifo)

\* A Publish that found no room for its event has still to close s.
Lags(s) == \E a \in Actors : s \in pub[a].over

\* A Sub r, with its writer at w and c in hand, the peer having read wire.
View(r, w, c, wire, lags) ==
    [read |-> wire,
     hand |-> IF c = NoMsg THEN << >> ELSE << c >>,
     owed |-> IF Phase(r, w) \in {"failed", "over"} THEN << >> ELSE Queue(r),
     phase |-> Phase(r, w),
     behind |-> Phase(r, w) \in {"open", "left"} /\ lags]

StreamOf(s) == View(sub[s], wpc[s], cur[s], client[s].wire, Lags(s))

\* The bytes of a queue: a unit for each message, and another for a reply (Size).
Units(q) == Len(q) + Cardinality({i \in DOMAIN q : q[i].kind = "reply"})
HasRoom(q, m) == Len(q) + 1 <= FifoMax /\ Units(q) + Size(m) <= BytesMax
Sendable == {Event(i) : i \in 1..MaxEvents} \cup {Reply(i) : i \in 1..MaxRequests}
    \cup {Plain(kind, 0, p) :
              kind \in {"pane_closed", "watching", "refused", "left"}, p \in Panes}
PeerStreams == [s \in Subs |-> StreamOf(s)]
Bus == INSTANCE MessageStream WITH
    Readers <- Subs, First <- Aggregate, Last <- [i \in 1..NFinals |-> Final(i)],
    Messages <- Sendable, Pictures <- FrameMsg, Fits <- HasRoom, stream <- PeerStreams
ImplementsMessageStream == Bus!StreamSpec
=============================================================================
