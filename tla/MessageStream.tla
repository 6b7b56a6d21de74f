--------------------------- MODULE MessageStream ---------------------------
(***************************************************************************)
(* What the hub's bus promises one peer (the comments on Sub, Send and     *)
(* Finalize in hub/sub.go and hub/hub.go), with no lock, goroutine or flag *)
(* of it: a stream that begins with the aggregate, goes on with whatever   *)
(* was accepted for it, in that order, and ends with the finals or short;  *)
(* pictures only in its gaps; and a reason for every stream cut short.     *)
(***************************************************************************)
EXTENDS Naturals, Sequences

CONSTANTS Readers,       \* the peers
          First, Last,   \* the first message of a stream, the sequence that ends one
          Messages,      \* what may be accepted
          Pictures,      \* what fills the gaps
          Fits(_, _)     \* Fits(q, m): a backlog of q has room for m

VARIABLE stream

\* read is what the peer has read, hand what is being written, owed what was accepted
\* and is neither, behind that a message was dropped for want of room.
Stream(read, hand, owed, phase, behind) ==
    [read |-> read, hand |-> hand, owed |-> owed, phase |-> phase, behind |-> behind]

NewStream == Stream(<<>>, <<>>, <<First>>, "open", FALSE)

StreamInit == stream = [r \in Readers |-> NewStream]

Becomes(r, f) == stream' = [stream EXCEPT ![r] = f]
Begins(q) == q # <<>> /\ Head(q) = First
Backlog(q) == IF Begins(q) THEN Tail(q) ELSE q
Full(q) == \E m \in Messages : ~Fits(Backlog(q), m)

\* A message is accepted while there is room for it.
Owe(r) ==
    LET s == stream[r] IN
    /\ s.phase = "open"
    /\ \E m \in Messages :
          /\ Fits(Backlog(s.owed), m)
          /\ Becomes(r, Stream(s.read, s.hand, Append(s.owed, m), "open", s.behind))

\* One for which there was none dooms the stream.
FallBehind(r) ==
    LET s == stream[r] IN
    /\ s.phase = "open" /\ Full(s.owed)
    /\ Becomes(r, Stream(s.read, s.hand, s.owed, "open", TRUE))

Hold(r) ==
    LET s == stream[r] IN
    /\ s.phase \in {"open", "left", "final"} /\ s.hand = <<>> /\ s.owed # <<>>
    /\ Becomes(r, Stream(s.read, <<Head(s.owed)>>, Tail(s.owed), s.phase, s.behind))

HoldPicture(r) ==
    LET s == stream[r] IN
    /\ s.phase \in {"open", "left"} /\ s.hand = <<>> /\ s.owed = <<>>
    /\ \E p \in Pictures : Becomes(r, Stream(s.read, <<p>>, <<>>, s.phase, s.behind))

Deliver(r) ==
    LET s == stream[r] IN
    /\ s.hand # <<>>
    /\ LET read == IF s.hand[1] \in Pictures THEN s.read ELSE s.read \o s.hand IN
       Becomes(r, Stream(read, <<>>, s.owed, s.phase, s.behind))

\* A write fails; only one that left nothing behind it lets the finals still be sent.
Fail(r) ==
    LET s == stream[r] IN
    /\ s.hand # <<>>
    /\ \/ s.phase = "final" /\ Becomes(r, Stream(s.read, <<>>, s.owed, "final", s.behind))
       \/ /\ s.phase \in {"open", "left"}
          /\ Becomes(r, Stream(s.read, <<>>, <<>>, "failed", FALSE))
       \/ Becomes(r, Stream(s.read, <<>>, <<>>, "over", FALSE))

Leave(r) ==
    LET s == stream[r] IN
    s.phase = "open" /\ Becomes(r, Stream(s.read, s.hand, s.owed, "left", s.behind))

\* The session ends: of what was owed only the finals are left, after the first message.
Finish(r) ==
    LET s == stream[r] IN
    /\ s.phase \in {"open", "left", "failed"}
    /\ LET first == IF Begins(s.owed) THEN <<First>> ELSE <<>> IN
       Becomes(r, Stream(s.read, s.hand, first \o Last, "final", FALSE))

\* The reasons a stream may be over: it fell behind, the reader left before it began
\* or once it had everything, it failed, or the session has ended.
Reason(s) ==
    \/ s.behind
    \/ s.phase = "open" /\ Full(s.owed)
    \/ s.phase = "open" /\ s.hand = <<>> /\ s.read = <<>>
    \/ s.phase = "left" /\ s.hand = <<>> /\ s.owed = <<>>
    \/ s.phase \in {"failed", "final"}

End(r) ==
    LET s == stream[r] IN
    Reason(s) /\ Becomes(r, Stream(s.read, s.hand, <<>>, "over", FALSE))

StreamNext ==
    \E r \in Readers :
        \/ Owe(r) \/ FallBehind(r) \/ Hold(r) \/ HoldPicture(r) \/ Deliver(r)
        \/ Fail(r) \/ Leave(r) \/ Finish(r) \/ End(r)

StreamSpec == StreamInit /\ [][StreamNext]_stream
=============================================================================
