-------------------------- MODULE HubStreamsProofs --------------------------
(***************************************************************************)
(* HubBus implements MessageStream, for any number of subscribers,         *)
(* publishers and panes and every limit: each step of the bus is, for one  *)
(* peer, a step of the stream it is promised, or none that it could see.   *)
(*                                                                         *)
(* The invariant is that of HubBusProofs (Inv, Streams) and the Books: the *)
(* byte count of a Sub is that of its queue (Tallied), whoever Finalize    *)
(* kills has its finals or is dead (Swept), and nobody is behind without a *)
(* Publish to close it (InLoops).  A step is calm for every peer it does   *)
(* not touch (Calm); for the one it does, View says what it sees before    *)
(* and after, and a lemma for each action of MessageStream what that takes.*)
(***************************************************************************)
EXTENDS HubStreams, HubBusProofs, SequenceTheorems

-----------------------------------------------------------------------------
(* The bytes of a queue.                                                   *)

Replies(q) == {i \in 1..Len(q) : q[i].kind = "reply"}

LEMMA UnitsAre ==
  ASSUME NEW q \in Seq(Msg)
  PROVE  /\ IsFiniteSet(Replies(q)) /\ Cardinality(Replies(q)) \in Nat
         /\ Units(q) = Len(q) + Cardinality(Replies(q))
<1>1. DOMAIN q = 1..Len(q) /\ Len(q) \in Nat
  OBVIOUS
<1>2. IsFiniteSet(1..Len(q)) /\ Replies(q) \subseteq 1..Len(q)
  BY <1>1, FS_Interval DEF Replies
<1>3. IsFiniteSet(Replies(q))
  BY <1>2, FS_Subset
<1>4. Cardinality(Replies(q)) \in Nat
  BY <1>3, FS_CardinalityType
<1>5. Replies(q) = {i \in DOMAIN q : q[i].kind = "reply"}
  BY <1>1 DEF Replies
<1> QED BY <1>3, <1>4, <1>5 DEF Units

LEMMA UnitsNone == Units(<< >>) = 0
<1> SUFFICES ASSUME NEW q, q = << >> PROVE Units(q) = 0
  OBVIOUS
<1>1. q \in Seq(Msg) /\ Len(q) = 0
  OBVIOUS
<1>2. Replies(q) = {}
  BY <1>1 DEF Replies
<1>3. Units(q) = Len(q) + Cardinality(Replies(q))
  BY <1>1, UnitsAre
<1> QED BY <1>1, <1>2, <1>3, FS_EmptySet

LEMMA UnitsAppend ==
  ASSUME NEW q \in Seq(Msg), NEW m \in Msg
  PROVE  Units(Append(q, m)) = Units(q) + Size(m)
<1> DEFINE a == Append(q, m)
           k == Len(q) + 1
<1>1. /\ a \in Seq(Msg) /\ Len(a) = k /\ Len(q) \in Nat /\ a[k] = m
      /\ \A i \in 1..Len(q) : a[i] = q[i]
  BY AppendTo
<1> HIDE DEF a
<1>2. /\ Units(a) = k + Cardinality(Replies(a)) /\ IsFiniteSet(Replies(q))
      /\ Units(q) = Len(q) + Cardinality(Replies(q)) /\ Cardinality(Replies(q)) \in Nat
  BY <1>1, UnitsAre
<1>3. k \notin Replies(q)
  BY <1>1 DEF Replies
<1>4. CASE m.kind = "reply"
  <2>1. Replies(a) = Replies(q) \cup {k}
    BY <1>1, <1>4 DEF Replies
  <2>2. Cardinality(Replies(a)) = Cardinality(Replies(q)) + 1
    BY <1>2, <1>3, <2>1, FS_AddElement
  <2> QED BY <1>1, <1>2, <1>4, <2>2 DEF Size, a
<1>5. CASE m.kind # "reply"
  <2>1. Replies(a) = Replies(q)
    BY <1>1, <1>5 DEF Replies
  <2> QED BY <1>1, <1>2, <1>5, <2>1 DEF Size, a
<1> QED BY <1>4, <1>5

LEMMA UnitsTail ==
  ASSUME NEW q \in Seq(Msg), q # << >>
  PROVE  Units(Tail(q)) = Units(q) - Size(q[1])
<1> DEFINE t == Tail(q)
           R == Replies(q) \ {1}
           f == [i \in Replies(t) |-> i + 1]
<1>1. /\ t \in Seq(Msg) /\ Len(q) \in Nat \ {0} /\ Len(t) = Len(q) - 1
      /\ \A i \in 1..Len(t) : t[i] = q[i + 1]
  BY TailParts
<1> HIDE DEF t
<1>2. /\ Units(t) = Len(t) + Cardinality(Replies(t)) /\ Cardinality(Replies(t)) \in Nat
      /\ Units(q) = Len(q) + Cardinality(Replies(q)) /\ Cardinality(Replies(q)) \in Nat
      /\ IsFiniteSet(Replies(q)) /\ IsFiniteSet(Replies(t))
  BY <1>1, UnitsAre
<1>3. Cardinality(R) = Cardinality(Replies(t))
  <2>1. f \in [Replies(t) -> R]
    BY <1>1 DEF Replies
  <2>2. \A i, j \in Replies(t) : f[i] = f[j] => i = j
    BY DEF Replies
  <2>3. \A j \in R : \E i \in Replies(t) : f[i] = j
    <3> SUFFICES ASSUME NEW j \in R PROVE \E i \in Replies(t) : f[i] = j
      OBVIOUS
    <3>1. j - 1 \in Replies(t)
      BY <1>1 DEF Replies
    <3> QED BY <3>1 DEF Replies
  <2> HIDE DEF f
  <2>4. f \in Bijection(Replies(t), R)
    BY <2>1, <2>2, <2>3 DEF Bijection, Injection, Surjection, IsInjective
  <2>5. ExistsBijection(Replies(t), R)
    BY <2>4 DEF ExistsBijection
  <2> HIDE DEF R
  <2> QED BY <1>2, <2>5, FS_Bijection
<1>4. Cardinality(R) = IF 1 \in Replies(q) THEN Cardinality(Replies(q)) - 1
                       ELSE Cardinality(Replies(q))
  BY <1>2, FS_RemoveElement
<1>5. 1 \in Replies(q) <=> q[1].kind = "reply"
  BY <1>1 DEF Replies
<1> HIDE DEF R
<1>6. CASE q[1].kind = "reply"
  BY <1>1, <1>2, <1>3, <1>4, <1>5, <1>6 DEF Size, t
<1>7. CASE q[1].kind # "reply"
  BY <1>1, <1>2, <1>3, <1>4, <1>5, <1>7 DEF Size, t
<1> QED BY <1>6, <1>7

-----------------------------------------------------------------------------
(* One step of one stream.                                                 *)

\* No stream but s's changes.
Beside(s) == \A t \in Subs \ {s} : StreamOf(t)' = StreamOf(t)

LEMMA BecomesIt ==
  ASSUME NEW s \in Subs, NEW f, Beside(s), StreamOf(s)' = f
  PROVE  PeerStreams[s] = StreamOf(s) /\ Bus!Becomes(s, f)
<1>1. PeerStreams' = [PeerStreams EXCEPT ![s] = f]
  BY DEF PeerStreams, Beside
<1> QED BY <1>1 DEF Bus!Becomes, PeerStreams

LEMMA StaysStreams ==
  ASSUME \A t \in Subs : StreamOf(t)' = StreamOf(t)
  PROVE  PeerStreams' = PeerStreams
BY DEF PeerStreams

LEMMA Fields ==
  ASSUME NEW s \in Subs, NEW a, NEW b, NEW c, NEW d, NEW e, StreamOf(s) = Bus!Stream(a, b, c, d, e)
  PROVE  /\ PeerStreams[s].read = a /\ PeerStreams[s].hand = b /\ PeerStreams[s].owed = c
         /\ PeerStreams[s].phase = d /\ PeerStreams[s].behind = e
BY DEF Bus!Stream, PeerStreams

LEMMA ItOwes ==
  ASSUME NEW s \in Subs, Beside(s), NEW a, NEW b, NEW c, NEW e, NEW m \in Sendable,
         StreamOf(s) = Bus!Stream(a, b, c, "open", e), HasRoom(Bus!Backlog(c), m),
         StreamOf(s)' = Bus!Stream(a, b, Append(c, m), "open", e)
  PROVE  Bus!StreamNext
<1>1. Bus!Owe(s)
  BY Fields, BecomesIt DEF Bus!Owe
<1> QED BY <1>1 DEF Bus!StreamNext

LEMMA ItFallsBehind ==
  ASSUME NEW s \in Subs, Beside(s), NEW a, NEW b, NEW c, NEW e,
         StreamOf(s) = Bus!Stream(a, b, c, "open", e), Bus!Full(c),
         StreamOf(s)' = Bus!Stream(a, b, c, "open", TRUE)
  PROVE  Bus!StreamNext
<1> DEFINE x == PeerStreams[s]
<1>1. x.read = a /\ x.hand = b /\ x.owed = c /\ x.phase = "open" /\ x.behind = e
  BY Fields
<1> HIDE DEF x
<1>2. Bus!Becomes(s, Bus!Stream(x.read, x.hand, x.owed, "open", TRUE))
  BY <1>1, BecomesIt, Zenon
<1>3. Bus!FallBehind(s)
  BY <1>1, <1>2, Zenon DEF Bus!FallBehind, x
<1> QED BY <1>3 DEF Bus!StreamNext

LEMMA ItHolds ==
  ASSUME NEW s \in Subs, Beside(s), NEW a, NEW c, NEW d \in {"open", "left", "final"}, NEW e,
         StreamOf(s) = Bus!Stream(a, << >>, c, d, e), c # << >>,
         StreamOf(s)' = Bus!Stream(a, << Head(c) >>, Tail(c), d, e)
  PROVE  Bus!StreamNext
<1>1. Bus!Hold(s)
  BY Fields, BecomesIt DEF Bus!Hold
<1> QED BY <1>1 DEF Bus!StreamNext

LEMMA ItHoldsPicture ==
  ASSUME NEW s \in Subs, Beside(s), NEW a, NEW d \in {"open", "left"}, NEW e, NEW p \in FrameMsg,
         StreamOf(s) = Bus!Stream(a, << >>, << >>, d, e),
         StreamOf(s)' = Bus!Stream(a, << p >>, << >>, d, e)
  PROVE  Bus!StreamNext
<1>1. Bus!HoldPicture(s)
  BY Fields, BecomesIt DEF Bus!HoldPicture
<1> QED BY <1>1 DEF Bus!StreamNext

LEMMA ItReads ==
  ASSUME NEW s \in Subs, Beside(s), NEW a, NEW m, NEW c, NEW d, NEW e, NEW w,
         w = IF m \in FrameMsg THEN a ELSE a \o << m >>,
         StreamOf(s) = Bus!Stream(a, << m >>, c, d, e),
         StreamOf(s)' = Bus!Stream(w, << >>, c, d, e)
  PROVE  Bus!StreamNext
<1>1. << m >>[1] = m /\ << m >> # << >>
  OBVIOUS
<1>2. Bus!Deliver(s)
  BY <1>1, Fields, BecomesIt DEF Bus!Deliver
<1> QED BY <1>2 DEF Bus!StreamNext

LEMMA ItFails ==
  ASSUME NEW s \in Subs, Beside(s), NEW a, NEW b, b # << >>, NEW c, NEW d, NEW e,
         StreamOf(s) = Bus!Stream(a, b, c, d, e),
         \/ d = "final" /\ StreamOf(s)' = Bus!Stream(a, << >>, c, d, e)
         \/ d \in {"open", "left"} /\ StreamOf(s)' = Bus!Stream(a, << >>, << >>, "failed", FALSE)
         \/ StreamOf(s)' = Bus!Stream(a, << >>, << >>, "over", FALSE)
  PROVE  Bus!StreamNext
<1> DEFINE x == PeerStreams[s]
<1>1. x.read = a /\ x.hand = b /\ x.owed = c /\ x.phase = d /\ x.behind = e
  BY Fields
<1> HIDE DEF x
<1>2. \/ d = "final" /\ Bus!Becomes(s, Bus!Stream(x.read, << >>, x.owed, "final", x.behind))
      \/ /\ d \in {"open", "left"}
         /\ Bus!Becomes(s, Bus!Stream(x.read, << >>, << >>, "failed", FALSE))
      \/ Bus!Becomes(s, Bus!Stream(x.read, << >>, << >>, "over", FALSE))
  BY <1>1, BecomesIt, Zenon
<1>3. Bus!Fail(s)
  BY <1>1, <1>2, Zenon DEF Bus!Fail, x
<1> QED BY <1>3 DEF Bus!StreamNext

LEMMA ItLeaves ==
  ASSUME NEW s \in Subs, Beside(s), NEW a, NEW b, NEW c, NEW e,
         StreamOf(s) = Bus!Stream(a, b, c, "open", e), StreamOf(s)' = Bus!Stream(a, b, c, "left", e)
  PROVE  Bus!StreamNext
<1>1. Bus!Leave(s)
  BY Fields, BecomesIt DEF Bus!Leave
<1> QED BY <1>1 DEF Bus!StreamNext

TheFinals == [i \in 1..NFinals |-> Final(i)]

LEMMA ItFinishes ==
  ASSUME NEW s \in Subs, Beside(s), NEW a, NEW b, NEW c, NEW d \in {"open", "left", "failed"}, NEW e,
         NEW o, o = (IF Bus!Begins(c) THEN << Aggregate >> ELSE << >>) \o TheFinals,
         StreamOf(s) = Bus!Stream(a, b, c, d, e), StreamOf(s)' = Bus!Stream(a, b, o, "final", FALSE)
  PROVE  Bus!StreamNext
<1> DEFINE x == PeerStreams[s]
<1>1. x.read = a /\ x.hand = b /\ x.owed = c /\ x.phase = d /\ x.behind = e
  BY Fields
<1> HIDE DEF x
<1>2. Bus!Becomes(s, Bus!Stream(x.read, x.hand,
                     (IF Bus!Begins(x.owed) THEN << Aggregate >> ELSE << >>) \o TheFinals, "final", FALSE))
  BY <1>1, BecomesIt, Zenon
<1>3. Bus!Finish(s)
  BY <1>1, <1>2, Zenon DEF Bus!Finish, TheFinals, x
<1> QED BY <1>3 DEF Bus!StreamNext

\* The reasons there are for the stream of these fields to be over.
Due(a, b, c, d, e) ==
    \/ e
    \/ d = "open" /\ Bus!Full(c)
    \/ d = "open" /\ b = << >> /\ a = << >>
    \/ d = "left" /\ b = << >> /\ c = << >>
    \/ d \in {"failed", "final"}

LEMMA ItEnds ==
  ASSUME NEW s \in Subs, Beside(s), NEW a, NEW b, NEW c, NEW d, NEW e,
         StreamOf(s) = Bus!Stream(a, b, c, d, e), Due(a, b, c, d, e),
         StreamOf(s)' = Bus!Stream(a, b, << >>, "over", FALSE)
  PROVE  Bus!StreamNext
<1>1. Bus!Reason(PeerStreams[s])
  BY Fields DEF Bus!Reason, Due
<1>2. PeerStreams[s].read = a /\ PeerStreams[s].hand = b
  BY Fields
<1>3. Bus!Becomes(s, Bus!Stream(PeerStreams[s].read, PeerStreams[s].hand, << >>, "over", FALSE))
  BY <1>2, BecomesIt, Zenon
<1>4. Bus!End(s)
  BY <1>1, <1>3, Zenon DEF Bus!End
<1> QED BY <1>4 DEF Bus!StreamNext

-----------------------------------------------------------------------------
(* What the mapping needs beyond IInv.                                     *)

\* The byte count of a Sub is that of its queue, and its writer fails only once it
\* is past the aggregate.
Tallied(r) ==
    /\ r.bytes = Units(r.fifo)
    /\ r.failed => r.started /\ ~r.head
    /\ r.head => r.started

Tallies == \A s \in Subs : Tallied(sub[s])

Ended(r) == r.finalized \/ r.dead

\* Whoever Finalize saw is still to be given its finals, has them, or is dead.
Swept ==
    /\ fin.todo \subseteq fin.snap /\ (fin.pc = "idle" => fin.snap = {})
    /\ \A s \in fin.snap : (fin.pc = "each" /\ s \in fin.todo) \/ Ended(sub[s])

\* Nobody lags without a Publish to close it.
InLoops ==
    \A a \in Actors : /\ pub[a].pc = "idle" => pub[a].over = {}
                      /\ pub[a].pc = "loop" => pub[a].msg \in Sendable

Books == Tallies /\ Swept /\ InLoops

\* No step of the bus takes back what the finals of a Sub are, or loses count.
OnBooks(r, q) == (Tallied(r) => Tallied(q)) /\ (Ended(r) => Ended(q))
Booked == \A t \in Subs : OnBooks(sub[t], sub'[t])

LEMMA TalliesKeep == ASSUME Tallies, Booked PROVE Tallies'
BY DEF Tallies, Booked, OnBooks

LEMMA SweptKeeps == ASSUME Inv, Swept, Booked, fin' = fin PROVE Swept'
<1>1. fin.snap \subseteq Subs
  BY DEF Inv, TypeOK, HubType
<1> QED BY <1>1 DEF Swept, Booked, OnBooks

LEMMA InLoopsKeeps == ASSUME InLoops, pub' = pub PROVE InLoops'
BY DEF InLoops

LEMMA BooksKeep == ASSUME Inv, Books, Booked, fin' = fin, pub' = pub PROVE Books'
BY TalliesKeep, SweptKeeps, InLoopsKeeps DEF Books

-----------------------------------------------------------------------------
(* What a step does to what a peer is promised.                            *)

Holding(c) == IF c = NoMsg THEN << >> ELSE << c >>
Owing(r, w) == IF Phase(r, w) \in {"failed", "over"} THEN << >> ELSE Queue(r)
Lagging(r, w, lags) == Phase(r, w) \in {"open", "left"} /\ lags

LEMMA ViewIs ==
  ASSUME NEW s
  PROVE  StreamOf(s) = Bus!Stream(client[s].wire, Holding(cur[s]), Owing(sub[s], wpc[s]),
                                  Phase(sub[s], wpc[s]), Lagging(sub[s], wpc[s], Lags(s)))
BY Zenon DEF StreamOf, View, Bus!Stream, Holding, Owing, Lagging

LEMMA ViewNext ==
  ASSUME NEW s, NEW r, NEW w, NEW c, NEW x, NEW l,
         sub'[s] = r, wpc'[s] = w, cur'[s] = c, client'[s].wire = x, Lags(s)' = l
  PROVE  StreamOf(s)' = Bus!Stream(x, Holding(c), Owing(r, w), Phase(r, w), Lagging(r, w, l))
BY Zenon DEF StreamOf, View, Bus!Stream, Holding, Owing, Lagging

\* The fields of a Sub that a peer can tell apart.
Alike(r, q) ==
    /\ q.dead = r.dead /\ q.torn = r.torn /\ q.finalized = r.finalized /\ q.failed = r.failed
    /\ q.closed = r.closed /\ q.started = r.started /\ q.head = r.head
    /\ q.fifo = r.fifo /\ q.finals = r.finals

LEMMA AlikeShows ==
  ASSUME NEW r, NEW q, Alike(r, q), NEW w
  PROVE  /\ Phase(q, w) = Phase(r, w) /\ Queue(q) = Queue(r) /\ Owing(q, w) = Owing(r, w)
         /\ q.bytes = r.bytes => OnBooks(r, q)
<1>1. Phase(q, w) = Phase(r, w)
  BY DEF Phase, Alike
<1>2. Queue(q) = Queue(r)
  BY DEF Queue, Alike
<1>3. q.bytes = r.bytes => OnBooks(r, q)
  BY DEF Alike, OnBooks, Tallied, Ended
<1> QED BY <1>1, <1>2, <1>3 DEF Owing

\* Nothing t's peer could see has changed.
Calm(t) ==
    /\ Alike(sub[t], sub'[t]) /\ sub'[t].bytes = sub[t].bytes
    /\ wpc'[t] = wpc[t] /\ cur'[t] = cur[t] /\ client'[t] = client[t] /\ Lags(t)' = Lags(t)

LEMMA CalmView ==
  ASSUME NEW t, Calm(t)
  PROVE  StreamOf(t)' = StreamOf(t) /\ OnBooks(sub[t], sub'[t])
<1>1. /\ Phase(sub'[t], wpc[t]) = Phase(sub[t], wpc[t]) /\ OnBooks(sub[t], sub'[t])
      /\ Owing(sub'[t], wpc[t]) = Owing(sub[t], wpc[t])
  BY AlikeShows DEF Calm
<1>2. StreamOf(t)' = Bus!Stream(client[t].wire, Holding(cur[t]), Owing(sub'[t], wpc[t]),
                                Phase(sub'[t], wpc[t]), Lagging(sub'[t], wpc[t], Lags(t)))
  BY ViewNext DEF Calm
<1>3. Lagging(sub'[t], wpc[t], Lags(t)) = Lagging(sub[t], wpc[t], Lags(t))
  BY <1>1 DEF Lagging
<1> QED BY <1>1, <1>2, <1>3, ViewIs

StreamStep == Bus!StreamNext \/ PeerStreams' = PeerStreams

\* The step is seen by nobody.
LEMMA AllCalm ==
  ASSUME \A t \in Subs : Calm(t)
  PROVE  Booked /\ StreamStep
BY CalmView, StaysStreams DEF Booked, StreamStep

\* The step is seen by s alone.
LEMMA OneNot ==
  ASSUME NEW s \in Subs, \A t \in Subs \ {s} : Calm(t), OnBooks(sub[s], sub'[s])
  PROVE  Booked /\ Beside(s) /\ (StreamOf(s)' = StreamOf(s) => StreamStep)
<1>1. \A t \in Subs \ {s} : StreamOf(t)' = StreamOf(t) /\ OnBooks(sub[t], sub'[t])
  BY CalmView
<1> QED BY <1>1, StaysStreams DEF Booked, Beside, StreamStep

LEMMA SameCalm ==
  ASSUME NEW t, sub'[t] = sub[t], wpc'[t] = wpc[t], cur'[t] = cur[t], client'[t] = client[t],
         Lags(t)' = Lags(t)
  PROVE  Calm(t)
BY DEF Calm, Alike

LEMMA SamePub == ASSUME NEW t, pub' = pub PROVE Lags(t)' = Lags(t)
BY DEF Lags

\* Neither a queue nor a writer is touched.
LEMMA UntouchedStep ==
  ASSUME Inv, Books, UNCHANGED <<sub, wpc, cur, client, pub, fin>>
  PROVE  Books' /\ StreamStep
<1>1. \A t \in Subs : Calm(t)
  BY SameCalm, SamePub
<1> QED BY <1>1, AllCalm, BooksKeep

\* Only what a peer cannot tell apart of s's record changes.
LEMMA SoftStep ==
  ASSUME Inv, Books, NEW s \in Subs, NEW r, sub' = [sub EXCEPT ![s] = r], Alike(sub[s], r),
         r.bytes = sub[s].bytes, UNCHANGED <<wpc, cur, client, pub, fin>>
  PROVE  Books' /\ StreamStep
<1>1. sub'[s] = r /\ \A t \in Subs \ {s} : sub'[t] = sub[t]
  BY DEF Inv, TypeOK, SubType
<1>2. \A t \in Subs \ {s} : Calm(t)
  BY <1>1, SameCalm, SamePub
<1>3. Calm(s)
  BY <1>1, SamePub DEF Calm
<1> QED BY <1>2, <1>3, AllCalm, BooksKeep

-----------------------------------------------------------------------------
(* A message is queued, dropped, or its reader is killed.                  *)

LEMMA SendableAre == \A m \in Sendable : m \in Msg /\ m.kind \in QueueKinds
<1>1. \A i \in 1..MaxEvents : i \in Nat
  OBVIOUS
<1>2. \A i \in 1..MaxRequests : i \in Nat
  OBVIOUS
<1> QED BY <1>1, <1>2 DEF Sendable, Event, Reply, Plain, Msg, PlainMsg, QueueKinds

\* The aggregate is never among the messages that are queued.
LEMMA BacklogIs ==
  ASSUME NEW r \in SubRec, Kinds(r), ~r.finalized
  PROVE  /\ Bus!Backlog(Queue(r)) = r.fifo
         /\ Bus!Begins(Queue(r)) <=> ~(r.started /\ ~r.head)
<1>1. r.fifo \in Seq(Msg) /\ Aggregate.kind = "head"
  BY DEF SubRec, Aggregate, Plain
<1>2. CASE r.started /\ ~r.head
  <2>1. Queue(r) = r.fifo
    BY <1>1, <1>2 DEF Queue
  <2>2. r.fifo # << >> => Head(r.fifo) # Aggregate
    <3>1. r.fifo # << >> => Head(r.fifo) = r.fifo[1] /\ 1 \in 1..Len(r.fifo)
      BY <1>1
    <3> QED BY <1>1, <3>1 DEF Kinds, QueueKinds
  <2> QED BY <1>2, <2>1, <2>2 DEF Bus!Backlog, Bus!Begins
<1>3. CASE ~(r.started /\ ~r.head)
  <2>1. Queue(r) = << Aggregate >> \o r.fifo
    BY <1>3 DEF Queue
  <2>2. << Aggregate >> \in Seq(Msg) /\ Aggregate \in Msg
    BY Messages
  <2>3. Queue(r) # << >> /\ Head(Queue(r)) = Aggregate /\ Tail(Queue(r)) = r.fifo
    BY <1>1, <2>1, <2>2
  <2> QED BY <1>3, <2>3 DEF Bus!Backlog, Bus!Begins
<1> QED BY <1>2, <1>3

LEMMA QueuedBooks ==
  ASSUME NEW r \in SubRec, NEW m \in Msg
  PROVE  OnBooks(r, Queued(r, m))
<1>1. r.fifo \in Seq(Msg)
  BY DEF SubRec
<1>2. Units(Append(r.fifo, m)) = Units(r.fifo) + Size(m)
  BY <1>1, UnitsAppend
<1>3. CASE Accepts(r) /\ Fits(r, m)
  <2>1. /\ Queued(r, m).fifo = Append(r.fifo, m) /\ Queued(r, m).bytes = r.bytes + Size(m)
        /\ Queued(r, m).failed = r.failed /\ Queued(r, m).started = r.started
        /\ Queued(r, m).head = r.head
    BY <1>3 DEF Queued, SubRec
  <2>2. Ended(r) => FALSE
    BY <1>3 DEF Ended, Accepts
  <2> QED BY <1>2, <2>1, <2>2 DEF OnBooks, Tallied
<1>4. CASE ~(Accepts(r) /\ Fits(r, m))
  BY <1>4 DEF Queued, OnBooks
<1> QED BY <1>3, <1>4

LEMMA RoomIs ==
  ASSUME NEW r \in SubRec, Kinds(r), Tallied(r), ~r.finalized, NEW w, Phase(r, w) = "open", NEW m
  PROVE  HasRoom(Bus!Backlog(Owing(r, w)), m) <=> Fits(r, m)
<1>1. Bus!Backlog(Owing(r, w)) = r.fifo
  BY BacklogIs DEF Owing
<1> QED BY <1>1 DEF HasRoom, Fits, Tallied

LEMMA QueuedShows ==
  ASSUME NEW r \in SubRec, NEW m \in Msg, Accepts(r), Fits(r, m), NEW w
  PROVE  /\ Phase(Queued(r, m), w) = Phase(r, w)
         /\ Phase(r, w) = "open" => Owing(Queued(r, m), w) = Append(Owing(r, w), m)
         /\ Phase(r, w) \in {"open", "failed", "over"}
<1> DEFINE q == Queued(r, m)
<1>1. /\ q.fifo = Append(r.fifo, m) /\ q.dead = r.dead /\ q.torn = r.torn
      /\ q.finalized = r.finalized /\ q.failed = r.failed /\ q.closed = r.closed
      /\ q.started = r.started /\ q.head = r.head
  BY DEF Queued, SubRec
<1> HIDE DEF q
<1>2. Phase(q, w) = Phase(r, w) /\ Phase(r, w) \in {"open", "failed", "over"}
  BY <1>1 DEF Phase, Accepts
<1>3. Queue(q) = Append(Queue(r), m)
  <2>1. r.fifo \in Seq(Msg) /\ << >> \in Seq(Msg) /\ << Aggregate >> \in Seq(Msg)
    BY Messages DEF SubRec
  <2>2. ~r.finalized
    BY DEF Accepts
  <2>3. /\ << >> \o Append(r.fifo, m) = Append(<< >> \o r.fifo, m)
        /\ << Aggregate >> \o Append(r.fifo, m) = Append(<< Aggregate >> \o r.fifo, m)
    BY <2>1
  <2> QED BY <1>1, <2>2, <2>3 DEF Queue
<1>4. Phase(r, w) = "open" => Owing(q, w) = Append(Owing(r, w), m)
  BY <1>2, <1>3 DEF Owing
<1> QED BY <1>2, <1>4 DEF q

\* s, whose record is r with the message m in it or nothing new, and nobody else.
LEMMA QueuedStep ==
  ASSUME Inv, Books, NEW s \in Subs, OnStream(s), NEW r \in SubRec, Alike(sub[s], r),
         r.bytes = sub[s].bytes, NEW m \in Sendable, sub'[s] = Queued(r, m),
         \A t \in Subs \ {s} : Calm(t), wpc'[s] = wpc[s], cur'[s] = cur[s],
         client'[s] = client[s], Lags(s)' = Lags(s)
  PROVE  Booked /\ StreamStep
<1>1. Tallied(sub[s]) /\ Tallied(r) /\ OnBooks(sub[s], r) /\ Kinds(r)
  <2>1. OnBooks(sub[s], r) /\ Tallied(sub[s])
    BY AlikeShows DEF Books, Tallies
  <2> QED BY <2>1 DEF OnBooks, Kinds, OnStream, Hands, Alike
<1>2. OnBooks(sub[s], sub'[s])
  BY <1>1, QueuedBooks, SendableAre DEF OnBooks
<1>3. CASE Accepts(r) /\ Fits(r, m) /\ Phase(r, wpc[s]) = "open"
  <2>1. Phase(sub[s], wpc[s]) = "open" /\ Owing(sub[s], wpc[s]) = Owing(r, wpc[s])
    BY <1>3, AlikeShows
  <2>2. /\ Phase(sub'[s], wpc[s]) = "open"
        /\ Owing(sub'[s], wpc[s]) = Append(Owing(sub[s], wpc[s]), m)
    BY <1>3, <2>1, QueuedShows, SendableAre
  <2>3. HasRoom(Bus!Backlog(Owing(sub[s], wpc[s])), m)
    BY <1>1, <1>3, <2>1, RoomIs DEF Accepts
  <2>4. Lagging(sub'[s], wpc[s], Lags(s)) = Lagging(sub[s], wpc[s], Lags(s))
    BY <2>1, <2>2 DEF Lagging
  <2>5. StreamOf(s)' = Bus!Stream(client[s].wire, Holding(cur[s]), Append(Owing(sub[s], wpc[s]), m),
                                  "open", Lagging(sub[s], wpc[s], Lags(s)))
    BY <2>2, <2>4, ViewNext
  <2>6. StreamOf(s) = Bus!Stream(client[s].wire, Holding(cur[s]), Owing(sub[s], wpc[s]),
                                 "open", Lagging(sub[s], wpc[s], Lags(s)))
    BY <2>1, ViewIs
  <2> QED BY <1>2, <2>3, <2>5, <2>6, OneNot, ItOwes DEF StreamStep
<1>4. CASE ~(Accepts(r) /\ Fits(r, m) /\ Phase(r, wpc[s]) = "open")
  <2>1. /\ Phase(sub'[s], wpc[s]) = Phase(sub[s], wpc[s])
        /\ Owing(sub'[s], wpc[s]) = Owing(sub[s], wpc[s])
    <3>1. CASE Accepts(r) /\ Fits(r, m)
      BY <1>4, <3>1, AlikeShows, QueuedShows, SendableAre DEF Owing
    <3>2. CASE ~(Accepts(r) /\ Fits(r, m))
      BY <3>2, AlikeShows DEF Queued
    <3> QED BY <3>1, <3>2
  <2>2. Lagging(sub'[s], wpc[s], Lags(s)) = Lagging(sub[s], wpc[s], Lags(s))
    BY <2>1 DEF Lagging
  <2>3. StreamOf(s)' = StreamOf(s)
    BY <2>1, <2>2, ViewIs, ViewNext
  <2> QED BY <1>2, <2>3, OneNot
<1> QED BY <1>3, <1>4

\* s is dead, and its stream with it, which it was already or had a reason to be.
LEMMA DeadStep ==
  ASSUME NEW s \in Subs, \A t \in Subs \ {s} : Calm(t), OnBooks(sub[s], sub'[s]), sub'[s].dead,
         wpc'[s] = wpc[s], cur'[s] = cur[s], client'[s] = client[s],
         \/ Phase(sub[s], wpc[s]) = "over"
         \/ Due(client[s].wire, Holding(cur[s]), Owing(sub[s], wpc[s]), Phase(sub[s], wpc[s]),
                Lagging(sub[s], wpc[s], Lags(s)))
  PROVE  Booked /\ StreamStep
<1>1. /\ Phase(sub'[s], wpc[s]) = "over" /\ Owing(sub'[s], wpc[s]) = << >>
      /\ Lagging(sub'[s], wpc[s], Lags(s)') = FALSE
  BY DEF Phase, Owing, Lagging
<1>2. StreamOf(s)' = Bus!Stream(client[s].wire, Holding(cur[s]), Owing(sub'[s], wpc[s]),
                                Phase(sub'[s], wpc[s]), Lagging(sub'[s], wpc[s], Lags(s)'))
  BY ViewNext
<1>3. StreamOf(s)' = Bus!Stream(client[s].wire, Holding(cur[s]), << >>, "over", FALSE)
  BY <1>1, <1>2, Zenon
<1>4. CASE Phase(sub[s], wpc[s]) = "over"
  <2>1. Owing(sub[s], wpc[s]) = << >> /\ Lagging(sub[s], wpc[s], Lags(s)) = FALSE
    BY <1>4 DEF Owing, Lagging
  <2>2. StreamOf(s) = Bus!Stream(client[s].wire, Holding(cur[s]), << >>, "over", FALSE)
    BY <1>4, <2>1, ViewIs, Zenon
  <2> QED BY <1>3, <2>2, OneNot
<1>5. CASE Due(client[s].wire, Holding(cur[s]), Owing(sub[s], wpc[s]), Phase(sub[s], wpc[s]),
               Lagging(sub[s], wpc[s], Lags(s)))
  <2>1. Bus!StreamNext
    <3>1. Beside(s)
      BY OneNot
    <3> QED BY <1>3, <1>5, <3>1, ViewIs, ItEnds, Zenon
  <2> QED BY <2>1, OneNot DEF StreamStep
<1> QED BY <1>4, <1>5

-----------------------------------------------------------------------------
(* The adapter's calls, the watches and the frames.                        *)

LEMMA NoRoomEnds ==
  ASSUME NEW r \in SubRec, Kinds(r), Tallied(r), NEW m \in Sendable, Overflows(r, m), NEW w,
         NEW a, NEW b, NEW e
  PROVE  Phase(r, w) = "over" \/ Due(a, b, Owing(r, w), Phase(r, w), e)
<1>1. Phase(r, w) \in {"open", "failed", "over"}
  BY DEF Overflows, Accepts, Phase
<1>2. Phase(r, w) = "open" => Bus!Full(Owing(r, w))
  BY RoomIs DEF Overflows, Accepts, Bus!Full
<1> QED BY <1>1, <1>2 DEF Due

\* kill's first step on s, whose record the step has made r.
LEMMA KillMarkIs ==
  ASSUME Inv, NEW s \in Subs, NEW r, GoodRec(r), r.dead = sub[s].dead,
         KillMark(s, [sub EXCEPT ![s] = r])
  PROVE  /\ sub'[s].dead /\ \A t \in Subs \ {s} : sub'[t] = sub[t]
         /\ OnBooks(r, sub'[s])
         /\ r.dead => sub'[s] = r
<1> DEFINE q == [r EXCEPT !.dead = TRUE]
<1>1. /\ q.dead /\ q.bytes = r.bytes /\ q.fifo = r.fifo /\ q.failed = r.failed
      /\ q.started = r.started /\ q.head = r.head /\ q.finalized = r.finalized
  BY DEF GoodRec, SubRec
<1>2. OnBooks(r, q)
  BY <1>1 DEF OnBooks, Tallied, Ended
<1>3. sub \in [Subs -> SubRec]
  BY DEF Inv, TypeOK, SubType
<1>4. CASE sub[s].dead
  <2>1. sub' = [sub EXCEPT ![s] = r]
    BY <1>4 DEF KillMark
  <2> QED BY <1>3, <1>4, <2>1 DEF OnBooks
<1>5. CASE ~sub[s].dead
  <2>1. sub' = [sub EXCEPT ![s] = q]
    BY <1>3, <1>5 DEF KillMark
  <2> HIDE DEF q
  <2>2. sub'[s] = q /\ \A t \in Subs \ {s} : sub'[t] = sub[t]
    BY <1>3, <2>1
  <2> QED BY <1>1, <1>2, <1>5, <2>2
<1> QED BY <1>4, <1>5

LEMMA MyBooks ==
  ASSUME Inv, Books, Streams, NEW s \in Subs
  PROVE  /\ sub[s] \in SubRec /\ GoodRec(sub[s]) /\ Kinds(sub[s]) /\ Tallied(sub[s]) /\ OnStream(s)
         /\ sub \in [Subs -> SubRec]
BY MySub DEF Streams, OnStream, Hands, Kinds, Books, Tallies, GoodRec, Inv, TypeOK, SubType

LEMMA SendStep ==
  ASSUME Inv, Books, Streams, NEW s \in Subs, NEW r, GoodRec(r), Alike(sub[s], r),
         r.bytes = sub[s].bytes, NEW m \in Sendable, NEW n, SendTo(s, r, m, n),
         UNCHANGED <<wpc, cur, client, pub, fin>>
  PROVE  Books' /\ StreamStep
<1>1. /\ r \in SubRec /\ Kinds(r) /\ Tallied(r) /\ OnBooks(sub[s], r) /\ r.dead = sub[s].dead
      /\ OnStream(s) /\ sub \in [Subs -> SubRec]
  <2>1. OnBooks(sub[s], r) /\ Tallied(sub[s]) /\ Kinds(sub[s])
    BY MyBooks, AlikeShows
  <2> QED BY <2>1, MyBooks DEF OnBooks, Kinds, Alike, GoodRec
<1>2. CASE Overflows(r, m)
  <2>1. KillMark(s, [sub EXCEPT ![s] = r])
    BY <1>2 DEF SendTo
  <2>2. /\ sub'[s].dead /\ \A t \in Subs \ {s} : sub'[t] = sub[t]
        /\ OnBooks(r, sub'[s])
    BY <1>1, <2>1, KillMarkIs
  <2>3. \A t \in Subs \ {s} : Calm(t)
    BY <2>2, SameCalm, SamePub
  <2>4. OnBooks(sub[s], sub'[s])
    BY <1>1, <2>2 DEF OnBooks
  <2>5. Phase(r, wpc[s]) = Phase(sub[s], wpc[s]) /\ Owing(r, wpc[s]) = Owing(sub[s], wpc[s])
    BY AlikeShows
  <2>6. \/ Phase(sub[s], wpc[s]) = "over"
        \/ Due(client[s].wire, Holding(cur[s]), Owing(sub[s], wpc[s]), Phase(sub[s], wpc[s]),
               Lagging(sub[s], wpc[s], Lags(s)))
    BY <1>1, <1>2, <2>5, NoRoomEnds
  <2>7. Booked /\ StreamStep
    BY <2>2, <2>3, <2>4, <2>6, DeadStep
  <2> QED BY <2>7, BooksKeep
<1>3. CASE ~Overflows(r, m)
  <2>1. sub' = [sub EXCEPT ![s] = Queued(r, m)]
    BY <1>3 DEF SendTo
  <2>2. sub'[s] = Queued(r, m) /\ \A t \in Subs \ {s} : sub'[t] = sub[t]
    BY <1>1, <2>1
  <2>3. \A t \in Subs \ {s} : Calm(t)
    BY <2>2, SameCalm, SamePub
  <2>4. Booked /\ StreamStep
    BY <1>1, <2>2, <2>3, QueuedStep, SamePub
  <2> QED BY <2>4, BooksKeep
<1> QED BY <1>2, <1>3

LEMMA RepliesSendable ==
  ASSUME Inv, NEW s \in Subs, MayAsk(s)
  PROVE  Reply(ghost[s].requests + 1) \in Sendable
<1>1. ghost[s].requests \in Nat /\ MaxRequests \in Nat
  BY BusBounds DEF Inv, TypeOK, HistoryType, GhostRec
<1>2. ghost[s].requests + 1 \in 1..MaxRequests
  BY <1>1 DEF MayAsk
<1> QED BY <1>2 DEF Sendable

LEMMA AnswersSendable ==
  \A p \in Panes : Watching(p) \in Sendable /\ Refused(p) \in Sendable /\ Left(p) \in Sendable
                   /\ ClosedEv(p) \in Sendable
BY DEF Sendable, Watching, Refused, Left, ClosedEv

LEMMA AlikeItself == ASSUME NEW r PROVE Alike(r, r)
BY DEF Alike

LEMMA NewSlots ==
  ASSUME NEW r, GoodRec(r), NEW t, WholeTable(t)
  PROVE  /\ GoodRec([r EXCEPT !.slots = t]) /\ Alike(r, [r EXCEPT !.slots = t])
         /\ [r EXCEPT !.slots = t].bytes = r.bytes
BY GoodSlots DEF GoodRec, SubRec, Alike

LEMMA SendReply ==
  ASSUME Inv, Books, Streams, NEW s \in Subs, Send(s)
  PROVE  Books' /\ StreamStep
BY RepliesSendable, MyBooks, AlikeItself, SendStep DEF Send

LEMMA ResyncReply ==
  ASSUME Inv, Books, Streams, NEW s \in Subs, NEW p \in Panes, Resync(s, p)
  PROVE  Books' /\ StreamStep
BY RepliesSendable, MyBooks, AlikeItself, SendStep DEF Resync, readerVars

LEMMA WatchAddSlotStep ==
  ASSUME Inv, Books, Streams, NEW s \in Subs, NEW p \in Panes, WatchAddSlot(s, p)
  PROVE  Books' /\ StreamStep
<1>1. CASE Open(sub[s], p)
  <2> DEFINE r == [sub[s] EXCEPT !.slots = AddSlot(sub[s].slots, p)]
  <2>1. Alike(sub[s], r) /\ r.bytes = sub[s].bytes
    BY MyBooks DEF SubRec, Alike
  <2>2. sub' = [sub EXCEPT ![s] = r] /\ UNCHANGED <<wpc, cur, client, pub, fin>>
    BY <1>1, MyBooks DEF WatchAddSlot, readerVars
  <2> HIDE DEF r
  <2> QED BY <2>1, <2>2, SoftStep
<1>2. CASE ~Open(sub[s], p)
  <2>1. SendTo(s, sub[s], Refused(p), 1) /\ UNCHANGED <<wpc, cur, client, pub, fin>>
    BY <1>2 DEF WatchAddSlot, readerVars
  <2> QED BY <2>1, AnswersSendable, MyBooks, AlikeItself, SendStep
<1> QED BY <1>1, <1>2

\* An answer sent on the record with s's slot of p dropped.
LEMMA DroppedStep ==
  ASSUME Inv, Books, Streams, NEW s \in Subs, NEW p \in Panes, NEW m \in Sendable,
         SendTo(s, [sub[s] EXCEPT !.slots = DropSlot(@, p)], m, 0),
         UNCHANGED <<wpc, cur, client, pub, fin>>
  PROVE  Books' /\ StreamStep
<1> DEFINE t == DropSlot(sub[s].slots, p)
           r == [sub[s] EXCEPT !.slots = t]
<1>1. WholeTable(t)
  BY MySub, DropSlotWhole
<1>2. SendTo(s, r, m, 0)
  OBVIOUS
<1> HIDE DEF t
<1>3. GoodRec(r) /\ Alike(sub[s], r) /\ r.bytes = sub[s].bytes
  BY <1>1, MySub, NewSlots
<1> HIDE DEF r
<1> QED BY <1>2, <1>3, SendStep

LEMMA WatchResolveStep ==
  ASSUME Inv, Books, Streams, NEW s \in Subs, NEW p \in Panes, WatchResolve(s, p)
  PROVE  Books' /\ StreamStep
<1>1. UNCHANGED <<wpc, cur, client, pub, fin>>
  BY DEF WatchResolve, readerVars
<1>2. CASE pane[p].pc = "live"
  BY <1>1, <1>2, UntouchedStep DEF WatchResolve
<1>3. CASE pane[p].pc # "live"
  <2>1. SendTo(s, [sub[s] EXCEPT !.slots = DropSlot(@, p)], Refused(p), 0)
    BY <1>3 DEF WatchResolve
  <2> QED BY <1>1, <2>1, AnswersSendable, DroppedStep
<1> QED BY <1>2, <1>3

LEMMA UnwatchAnswerStep ==
  ASSUME Inv, Books, Streams, NEW s \in Subs, NEW p \in Panes, UnwatchAnswer(s, p)
  PROVE  Books' /\ StreamStep
<1>1. SendTo(s, [sub[s] EXCEPT !.slots = DropSlot(@, p)], Left(p), 0)
  BY DEF UnwatchAnswer
<1>2. UNCHANGED <<wpc, cur, client, pub, fin>>
  BY DEF UnwatchAnswer, readerVars
<1> QED BY <1>1, <1>2, AnswersSendable, DroppedStep

LEMMA WatchAnswerStep ==
  ASSUME Inv, Books, Streams, NEW s \in Subs, NEW p \in Panes, WatchAnswer(s, p)
  PROVE  Books' /\ StreamStep
<1> DEFINE t == Activate(sub[s].slots, p)
           r == [sub[s] EXCEPT !.slots = t]
           q == [r EXCEPT !.wake = TRUE]
<1>1. WholeTable(t)
  BY MySub, ActivateWhole
<1>2. UNCHANGED <<wpc, cur, client, pub, fin>>
  BY DEF WatchAnswer, readerVars
<1>3. IF s \in Silent THEN sub' = [sub EXCEPT ![s] = q] ELSE SendTo(s, r, Watching(p), 0)
  BY DEF WatchAnswer
<1> HIDE DEF t
<1>4. GoodRec(r) /\ Alike(sub[s], r) /\ r.bytes = sub[s].bytes
  BY <1>1, MySub, NewSlots
<1> HIDE DEF r
<1>5. Alike(sub[s], q) /\ q.bytes = sub[s].bytes
  BY <1>4 DEF GoodRec, SubRec, Alike
<1> HIDE DEF q
<1>6. CASE s \in Silent
  BY <1>2, <1>3, <1>5, <1>6, SoftStep
<1>7. CASE s \notin Silent
  BY <1>2, <1>3, <1>4, <1>7, AnswersSendable, SendStep
<1> QED BY <1>6, <1>7

LEMMA OfferStep ==
  ASSUME Inv, Books, Streams, NEW s \in Subs, NEW p \in Panes, NEW lines \in Lines, Offer(s, p, lines)
  PROVE  Books' /\ StreamStep
<1> DEFINE t == OfferRows(sub[s].slots, p, watcher[s][p] = "key", lines)
           r == [sub[s] EXCEPT !.slots = t, !.wake = TRUE]
<1>1. UNCHANGED <<wpc, cur, client, pub, fin>>
  BY DEF Offer, readerVars
<1>2. CASE Open(sub[s], p) /\ Has(sub[s].slots, p)
  <2>1. sub' = [sub EXCEPT ![s] = r]
    BY <1>2, MyBooks DEF Offer
  <2>2. Alike(sub[s], r) /\ r.bytes = sub[s].bytes
    <3> HIDE DEF t
    <3> QED BY MyBooks DEF SubRec, Alike
  <2> HIDE DEF r
  <2> QED BY <1>1, <2>1, <2>2, SoftStep
<1>3. CASE ~(Open(sub[s], p) /\ Has(sub[s].slots, p))
  BY <1>1, <1>3, UntouchedStep DEF Offer
<1> QED BY <1>2, <1>3

LEMMA OfferChangedStep ==
  ASSUME Inv, Books, Streams, NEW s \in Subs, NEW p \in Panes, OfferChanged(s, p)
  PROVE  Books' /\ StreamStep
<1> DEFINE t == OfferRaw(sub[s].slots, p)
           r == [sub[s] EXCEPT !.slots = t, !.wake = TRUE]
<1>1. UNCHANGED <<wpc, cur, client, pub, fin>>
  BY DEF OfferChanged, readerVars
<1>2. CASE Open(sub[s], p) /\ Has(sub[s].slots, p)
  <2>1. sub' = [sub EXCEPT ![s] = r]
    BY <1>2, MyBooks DEF OfferChanged
  <2>2. Alike(sub[s], r) /\ r.bytes = sub[s].bytes
    <3> HIDE DEF t
    <3> QED BY MyBooks DEF SubRec, Alike
  <2> HIDE DEF r
  <2> QED BY <1>1, <2>1, <2>2, SoftStep
<1>3. CASE ~(Open(sub[s], p) /\ Has(sub[s].slots, p))
  BY <1>1, <1>3, UntouchedStep DEF OfferChanged
<1> QED BY <1>2, <1>3

LEMMA PaneClosedToStep ==
  ASSUME Inv, Books, Streams, NEW p \in Panes, NEW s \in Subs, PaneClosedTo(p, s)
  PROVE  Books' /\ StreamStep
<1> DEFINE r == ForgetPane(sub[s], p)
<1>1. UNCHANGED <<wpc, cur, client, pub, fin>> /\ sub' = [sub EXCEPT ![s] = r]
  BY MyBooks DEF PaneClosedTo, closeVars
<1>2. Alike(sub[s], r) /\ r.bytes = sub[s].bytes
  BY MyBooks DEF SubRec, Alike, ForgetPane
<1> HIDE DEF r
<1> QED BY <1>1, <1>2, SoftStep

LEMMA ReapStep ==
  ASSUME Inv, Books, Streams, NEW s \in Subs, Reap(s)
  PROVE  Books' /\ StreamStep
<1> DEFINE r == [sub[s] EXCEPT !.wake = TRUE]
<1>1. UNCHANGED <<wpc, cur, client, pub, fin>>
  BY DEF Reap
<1>2. CASE sub[s].started
  <2>1. sub' = [sub EXCEPT ![s] = r]
    BY <1>2, MyBooks DEF Reap
  <2>2. Alike(sub[s], r) /\ r.bytes = sub[s].bytes
    BY MyBooks DEF SubRec, Alike
  <2> HIDE DEF r
  <2> QED BY <1>1, <2>1, <2>2, SoftStep
<1>3. CASE ~sub[s].started
  BY <1>1, <1>3, UntouchedStep DEF Reap
<1> QED BY <1>2, <1>3

-----------------------------------------------------------------------------
(* Publish, the kills and Finalize.                                        *)

LEMMA PubHas ==
  ASSUME Inv, NEW a \in Actors
  PROVE  /\ pub \in [Actors -> PubRec] /\ pub[a] \in PubRec /\ pub[a].over \subseteq Subs
         /\ pub[a].pc \in {"idle", "loop", "kill"} /\ pub[a].msg \in Msg
BY DEF Inv, TypeOK, HubType, PubRec

LEMMA BeginStep ==
  ASSUME Inv, Books, NEW a \in Actors, NEW m \in Sendable, PublishBegin(a, m)
  PROVE  Books' /\ StreamStep
<1> DEFINE r == [pc |-> "loop", msg |-> m, todo |-> subs, over |-> {}]
<1>1. pub[a].pc = "idle" /\ pub' = [pub EXCEPT ![a] = r] /\ UNCHANGED <<sub, wpc, cur, client, fin>>
  BY DEF PublishBegin
<1>2. r.over = {} /\ r.pc = "loop" /\ r.msg = m
  OBVIOUS
<1> HIDE DEF r
<1>3. pub'[a] = r /\ \A b \in Actors \ {a} : pub'[b] = pub[b]
  BY <1>1, PubHas
<1>4. pub[a].over = {}
  BY <1>1 DEF Books, InLoops
<1>5. \A t : Lags(t)' = Lags(t)
  BY <1>2, <1>3, <1>4 DEF Lags
<1>6. \A t \in Subs : Calm(t)
  BY <1>1, <1>5, SameCalm
<1>7. InLoops'
  BY <1>2, <1>3 DEF Books, InLoops
<1>8. Booked /\ StreamStep
  BY <1>6, AllCalm
<1> QED BY <1>1, <1>7, <1>8, TalliesKeep, SweptKeeps DEF Books

LEMMA PublishEventStep ==
  ASSUME Inv, Books, NEW a \in Actors, PublishEvent(a)
  PROVE  Books' /\ StreamStep
<1>1. published \in Nat /\ MaxEvents \in Nat
  BY BusBounds DEF Inv, TypeOK, ReaderType
<1>2. published + 1 \in 1..MaxEvents
  BY <1>1 DEF PublishEvent
<1>3. Event(published + 1) \in Sendable
  BY <1>2 DEF Sendable
<1> QED BY <1>3, BeginStep DEF PublishEvent

LEMMA AnnounceClosedStep ==
  ASSUME Inv, Books, NEW p \in Panes, AnnounceClosed(p)
  PROVE  Books' /\ StreamStep
<1>1. p \in Actors
  BY DEF Actors
<1> QED BY <1>1, AnswersSendable, BeginStep DEF AnnounceClosed

LEMMA PublishUnlockStep ==
  ASSUME Inv, Books, NEW a \in Actors, PublishUnlock(a)
  PROVE  Books' /\ StreamStep
<1> DEFINE r == [pub[a] EXCEPT !.pc = IF pub[a].over = {} THEN "idle" ELSE "kill"]
<1>1. pub' = [pub EXCEPT ![a] = r] /\ UNCHANGED <<sub, wpc, cur, client, fin>>
  BY PubHas DEF PublishUnlock
<1>2. r.over = pub[a].over /\ (r.pc = "idle" => r.over = {}) /\ r.pc # "loop"
  BY PubHas DEF PubRec
<1> HIDE DEF r
<1>3. pub'[a] = r /\ \A b \in Actors \ {a} : pub'[b] = pub[b]
  BY <1>1, PubHas
<1>4. \A t : Lags(t)' = Lags(t)
  BY <1>2, <1>3 DEF Lags
<1>5. \A t \in Subs : Calm(t)
  BY <1>1, <1>4, SameCalm
<1>6. InLoops'
  BY <1>2, <1>3 DEF Books, InLoops
<1>7. Booked /\ StreamStep
  BY <1>5, AllCalm
<1> QED BY <1>1, <1>6, <1>7, TalliesKeep, SweptKeeps DEF Books

LEMMA PublishToStep ==
  ASSUME Inv, Books, Streams, NEW a \in Actors, NEW s \in Subs, PublishTo(a, s)
  PROVE  Books' /\ StreamStep
<1> DEFINE m == pub[a].msg
           late == Overflows(sub[s], m)
           n == IF late THEN pub[a].over \cup {s} ELSE pub[a].over
           r == [pub[a] EXCEPT !.todo = pub[a].todo \ {s}, !.over = n]
<1>1. /\ pub[a].pc = "loop" /\ pub' = [pub EXCEPT ![a] = r]
      /\ sub' = [sub EXCEPT ![s] = Queued(sub[s], m)] /\ UNCHANGED <<wpc, cur, client, fin>>
  BY PubHas, MyBooks DEF PublishTo, Reaches
<1>2. r.over = n /\ r.pc = "loop" /\ r.msg = m
  <2> HIDE DEF n
  <2> QED BY <1>1, PubHas DEF PubRec
<1>3. m \in Sendable
  BY <1>1 DEF Books, InLoops
<1> HIDE DEF r
<1>4. pub'[a] = r /\ \A b \in Actors \ {a} : pub'[b] = pub[b]
  BY <1>1, PubHas
<1>5. sub'[s] = Queued(sub[s], m) /\ \A t \in Subs \ {s} : sub'[t] = sub[t]
  BY <1>1, MyBooks
<1>6. \A t \in Subs \ {s} : Lags(t)' = Lags(t)
  BY <1>2, <1>4 DEF Lags
<1>7. \A t \in Subs \ {s} : Calm(t)
  BY <1>1, <1>5, <1>6, SameCalm
<1>8. InLoops'
  BY <1>2, <1>3, <1>4 DEF Books, InLoops
<1>9. Booked /\ StreamStep
  <2>1. CASE ~late
    <3>1. Lags(s)' = Lags(s)
      BY <1>2, <1>4, <2>1 DEF Lags
    <3> QED BY <1>1, <1>3, <1>5, <1>7, <3>1, MyBooks, AlikeItself, QueuedStep
  <2>2. CASE late
    <3>1. sub'[s] = sub[s]
      BY <1>5, <2>2 DEF Overflows, Queued
    <3>2. Lags(s)'
      BY <1>2, <1>4, <2>2 DEF Lags
    <3>3. OnBooks(sub[s], sub'[s])
      BY <3>1 DEF OnBooks
    <3>4. Phase(sub[s], wpc[s]) \in {"open", "failed", "over"}
      BY <2>2 DEF Overflows, Accepts, Phase
    <3>5. StreamOf(s)' = Bus!Stream(client[s].wire, Holding(cur[s]), Owing(sub[s], wpc[s]),
                                    Phase(sub[s], wpc[s]), Lagging(sub[s], wpc[s], Lags(s)'))
      BY <1>1, <3>1, ViewNext
    <3>6. CASE Phase(sub[s], wpc[s]) = "open"
      <4>1. Lagging(sub[s], wpc[s], Lags(s)') = TRUE
        BY <3>2, <3>6 DEF Lagging
      <4>2. StreamOf(s)' = Bus!Stream(client[s].wire, Holding(cur[s]), Owing(sub[s], wpc[s]),
                                      "open", TRUE)
        BY <3>5, <3>6, <4>1, Zenon
      <4>3. Bus!Full(Owing(sub[s], wpc[s]))
        BY <1>3, <2>2, <3>6, MyBooks, RoomIs DEF Overflows, Accepts, Bus!Full
      <4>4. Beside(s)
        BY <1>7, <3>3, OneNot
      <4>5. StreamOf(s) = Bus!Stream(client[s].wire, Holding(cur[s]), Owing(sub[s], wpc[s]), "open",
                                     Lagging(sub[s], wpc[s], Lags(s)))
        BY <3>6, ViewIs
      <4>6. Bus!StreamNext
        BY <4>2, <4>3, <4>4, <4>5, ItFallsBehind, Zenon
      <4> QED BY <1>7, <3>3, <4>6, OneNot DEF StreamStep
    <3>7. CASE Phase(sub[s], wpc[s]) # "open"
      <4>1. Lagging(sub[s], wpc[s], Lags(s)') = Lagging(sub[s], wpc[s], Lags(s))
        BY <3>4, <3>7 DEF Lagging
      <4> QED BY <1>7, <3>3, <3>5, <4>1, ViewIs, OneNot
    <3> QED BY <3>6, <3>7
  <2> QED BY <2>1, <2>2
<1> QED BY <1>1, <1>8, <1>9, TalliesKeep, SweptKeeps DEF Books

\* A kill of s by someone with a reason: its stream is over, or may be.
LEMMA KillStep ==
  ASSUME Inv, Books, Streams, NEW s \in Subs, NEW r, GoodRec(r), OnBooks(sub[s], r),
         r.dead = sub[s].dead, KillMark(s, [sub EXCEPT ![s] = r]),
         UNCHANGED <<wpc, cur, client>>, \A t \in Subs \ {s} : Lags(t)' = Lags(t),
         \/ Phase(sub[s], wpc[s]) = "over"
         \/ Due(client[s].wire, Holding(cur[s]), Owing(sub[s], wpc[s]), Phase(sub[s], wpc[s]),
                Lagging(sub[s], wpc[s], Lags(s)))
  PROVE  Booked /\ StreamStep
<1>1. sub'[s].dead /\ (\A t \in Subs \ {s} : sub'[t] = sub[t]) /\ OnBooks(r, sub'[s])
  BY KillMarkIs
<1>2. OnBooks(sub[s], sub'[s])
  BY <1>1 DEF OnBooks
<1>3. \A t \in Subs \ {s} : Calm(t)
  BY <1>1, SameCalm
<1> QED BY <1>1, <1>2, <1>3, DeadStep

LEMMA KeepsRecord ==
  ASSUME Inv, NEW s \in Subs, KillMark(s, sub)
  PROVE  KillMark(s, [sub EXCEPT ![s] = sub[s]])
<1>1. [sub EXCEPT ![s] = sub[s]] = sub
  BY DEF Inv, TypeOK, SubType
<1> QED BY <1>1 DEF KillMark

LEMMA PublishKillStep ==
  ASSUME Inv, Books, Streams, NEW a \in Actors, NEW s \in Subs, PublishKill(a, s)
  PROVE  Books' /\ StreamStep
<1> DEFINE r == [pub[a] EXCEPT !.over = pub[a].over \ {s},
                               !.pc = IF pub[a].over = {s} THEN "idle" ELSE "kill"]
<1>1. /\ s \in pub[a].over /\ pub' = [pub EXCEPT ![a] = r] /\ KillMark(s, sub)
      /\ UNCHANGED <<wpc, cur, client, fin>>
  BY PubHas DEF PublishKill
<1>2. r.over = pub[a].over \ {s} /\ (r.pc = "idle" => r.over = {}) /\ r.pc # "loop"
  BY <1>1, PubHas DEF PubRec
<1> HIDE DEF r
<1>3. pub'[a] = r /\ \A b \in Actors \ {a} : pub'[b] = pub[b]
  BY <1>1, PubHas
<1>4. \A t \in Subs \ {s} : Lags(t)' = Lags(t)
  BY <1>2, <1>3 DEF Lags
<1>5. InLoops'
  BY <1>2, <1>3 DEF Books, InLoops
<1>6. Lags(s) /\ Phase(sub[s], wpc[s]) \in {"open", "left", "failed", "final", "over"}
  BY <1>1 DEF Lags, Phase
<1>7. \/ Phase(sub[s], wpc[s]) = "over"
      \/ Due(client[s].wire, Holding(cur[s]), Owing(sub[s], wpc[s]), Phase(sub[s], wpc[s]),
             Lagging(sub[s], wpc[s], Lags(s)))
  BY <1>6 DEF Due, Lagging
<1>8. OnBooks(sub[s], sub[s])
  BY DEF OnBooks
<1>9. Booked /\ StreamStep
  BY <1>1, <1>4, <1>7, <1>8, MyBooks, KeepsRecord, KillStep
<1> QED BY <1>1, <1>5, <1>9, TalliesKeep, SweptKeeps DEF Books

LEMMA CloseStep ==
  ASSUME Inv, Books, Streams, NEW s \in Subs, Close(s)
  PROVE  Books' /\ StreamStep
<1> DEFINE r == [sub[s] EXCEPT !.closed = TRUE]
           q == [sub[s] EXCEPT !.closed = TRUE, !.wake = TRUE]
<1>1. UNCHANGED <<wpc, cur, client, pub, fin>>
  BY DEF Close
<1>2. CASE sub[s].closed \/ sub[s].dead
  BY <1>1, <1>2, UntouchedStep DEF Close
<1>3. CASE ~(sub[s].closed \/ sub[s].dead) /\ sub[s].started
  <2>1. sub' = [sub EXCEPT ![s] = q]
    BY <1>3, MyBooks DEF Close
  <2>2. /\ q.dead = sub[s].dead /\ q.torn = sub[s].torn /\ q.finalized = sub[s].finalized
        /\ q.failed = sub[s].failed /\ q.closed /\ q.started = sub[s].started
        /\ q.head = sub[s].head /\ q.fifo = sub[s].fifo /\ q.finals = sub[s].finals
        /\ q.bytes = sub[s].bytes
    BY MyBooks DEF SubRec
  <2> HIDE DEF q
  <2>3. sub'[s] = q /\ \A t \in Subs \ {s} : sub'[t] = sub[t]
    BY <2>1, MyBooks
  <2>4. \A t \in Subs \ {s} : Calm(t)
    BY <1>1, <2>3, SameCalm, SamePub
  <2>5. OnBooks(sub[s], q)
    BY <2>2 DEF OnBooks, Tallied, Ended
  <2>6. Queue(q) = Queue(sub[s])
    BY <2>2 DEF Queue
  <2>7. IF Phase(sub[s], wpc[s]) = "open" THEN Phase(q, wpc[s]) = "left"
        ELSE Phase(q, wpc[s]) = Phase(sub[s], wpc[s])
    BY <1>3, <2>2 DEF Phase
  <2>8. Owing(q, wpc[s]) = Owing(sub[s], wpc[s])
    BY <2>6, <2>7 DEF Owing
  <2>9. Lagging(q, wpc[s], Lags(s)) = Lagging(sub[s], wpc[s], Lags(s))
    BY <2>7 DEF Lagging
  <2>10. StreamOf(s)' = Bus!Stream(client[s].wire, Holding(cur[s]), Owing(sub[s], wpc[s]),
                                   Phase(q, wpc[s]), Lagging(sub[s], wpc[s], Lags(s)))
    BY <1>1, <2>3, <2>8, <2>9, SamePub, ViewNext
  <2>11. Booked /\ Beside(s) /\ (StreamOf(s)' = StreamOf(s) => StreamStep)
    BY <2>3, <2>4, <2>5, OneNot
  <2>12. StreamStep
    BY <2>7, <2>10, <2>11, ViewIs, ItLeaves DEF StreamStep
  <2> QED BY <1>1, <2>11, <2>12, BooksKeep
<1>4. CASE ~(sub[s].closed \/ sub[s].dead) /\ ~sub[s].started
  <2>1. KillMark(s, [sub EXCEPT ![s] = r])
    BY <1>4, MyBooks DEF Close
  <2>2. GoodRec(r) /\ r.dead = sub[s].dead /\ OnBooks(sub[s], r)
    BY MyBooks DEF GoodRec, SubRec, OnBooks, Tallied, Ended
  <2> HIDE DEF r
  <2>3. client[s].wire = << >> /\ Holding(cur[s]) = << >>
    BY <1>4, MyBooks DEF OnStream, Wire, Holding
  <2>4. Phase(sub[s], wpc[s]) \in {"open", "failed", "final", "over"}
    BY <1>4 DEF Phase
  <2>5. \/ Phase(sub[s], wpc[s]) = "over"
        \/ Due(client[s].wire, Holding(cur[s]), Owing(sub[s], wpc[s]), Phase(sub[s], wpc[s]),
               Lagging(sub[s], wpc[s], Lags(s)))
    BY <2>3, <2>4 DEF Due
  <2>6. Booked /\ StreamStep
    BY <1>1, <2>1, <2>2, <2>5, SamePub, KillStep
  <2> QED BY <1>1, <2>6, BooksKeep
<1> QED BY <1>2, <1>3, <1>4

-----------------------------------------------------------------------------
(* The session begins, and ends.                                           *)

LEMMA FinalsAre ==
  ASSUME NEW r \in SubRec, r.finalized, r.finals = AllFinals
  PROVE  Queue(r) = (IF r.started /\ ~r.head THEN << >> ELSE << Aggregate >>) \o TheFinals
<1>1. NFinals \in Nat
  BY BusBounds
<1>2. Len(AllFinals) = NFinals /\ \A i \in 1..NFinals : AllFinals[i] = i
  BY <1>1 DEF AllFinals
<1>3. [i \in 1..Len(r.finals) |-> Final(r.finals[i])] = TheFinals
  BY <1>2 DEF TheFinals
<1> QED BY <1>3 DEF Queue

\* s is given its finals, and all that was queued for it is dropped.
LEMMA FinishStep ==
  ASSUME Inv, Books, Streams, NEW s \in Subs, NEW q \in SubRec, sub'[s] = q,
         ~sub[s].finalized, q.finalized, q.finals = AllFinals, q.dead = sub[s].dead,
         q.torn = sub[s].torn, q.failed = sub[s].failed, q.started = sub[s].started,
         q.head = sub[s].head, OnBooks(sub[s], q), \A t \in Subs \ {s} : Calm(t),
         wpc'[s] = wpc[s], cur'[s] = cur[s], client'[s] = client[s]
  PROVE  Booked /\ StreamStep
<1> DEFINE r == sub[s]
           w == wpc[s]
<1>1. Booked /\ Beside(s) /\ (StreamOf(s)' = StreamOf(s) => StreamStep)
  BY OneNot
<1>2. r \in SubRec /\ Kinds(r) /\ Tallied(r)
  BY MyBooks
<1>3. StreamOf(s)' = Bus!Stream(client[s].wire, Holding(cur[s]), Owing(q, w), Phase(q, w),
                                Lagging(q, w, Lags(s)'))
  BY ViewNext
<1>4. CASE Phase(r, w) = "over"
  <2>1. Phase(q, w) = "over"
    BY <1>4 DEF Phase
  <2>2. Owing(q, w) = Owing(r, w) /\ Lagging(q, w, Lags(s)') = Lagging(r, w, Lags(s))
    BY <1>4, <2>1 DEF Owing, Lagging
  <2> QED BY <1>1, <1>3, <1>4, <2>1, <2>2, ViewIs
<1>5. CASE Phase(r, w) # "over"
  <2>1. Phase(r, w) \in {"open", "left", "failed"} /\ Phase(q, w) = "final"
    BY <1>5 DEF Phase
  <2>2. Phase(r, w) = "failed" => r.started /\ ~r.head /\ Owing(r, w) = << >>
    BY <1>2 DEF Tallied, Phase, Owing
  <2>3. Phase(r, w) # "failed" => Owing(r, w) = Queue(r)
    BY <2>1 DEF Owing
  <2>4. ~Bus!Begins(<< >>)
    BY DEF Bus!Begins
  <2>5. Bus!Begins(Owing(r, w)) <=> ~(r.started /\ ~r.head)
    <3>1. CASE Phase(r, w) = "failed"
      BY <2>2, <2>4, <3>1
    <3>2. CASE Phase(r, w) # "failed"
      BY <1>2, <2>3, <3>2, BacklogIs
    <3> QED BY <3>1, <3>2
  <2>6. Owing(q, w) = Queue(q)
    BY <2>1 DEF Owing
  <2>7. Owing(q, w) = (IF Bus!Begins(Owing(r, w)) THEN << Aggregate >> ELSE << >>) \o TheFinals
    BY <2>5, <2>6, FinalsAre
  <2>8. Lagging(q, w, Lags(s)') = FALSE
    BY <2>1 DEF Lagging
  <2>9. StreamOf(s)' = Bus!Stream(client[s].wire, Holding(cur[s]), Owing(q, w), "final", FALSE)
    BY <1>3, <2>1, <2>8, Zenon
  <2>10. Bus!StreamNext
    <3> DEFINE o == Owing(q, w)
               d == Phase(r, w)
               e == Lagging(r, w, Lags(s))
    <3>1. d \in {"open", "left", "failed"}
      BY <2>1
    <3>2. StreamOf(s) = Bus!Stream(client[s].wire, Holding(cur[s]), Owing(r, w), d, e)
      BY ViewIs
    <3>3. o = (IF Bus!Begins(Owing(r, w)) THEN << Aggregate >> ELSE << >>) \o TheFinals
      BY <2>7
    <3>4. StreamOf(s)' = Bus!Stream(client[s].wire, Holding(cur[s]), o, "final", FALSE)
      BY <2>9
    <3> HIDE DEF o, d, e
    <3> QED BY <1>1, <3>1, <3>2, <3>3, <3>4, ItFinishes
  <2> QED BY <1>1, <2>10 DEF StreamStep
<1> QED BY <1>4, <1>5

LEMMA SessionStep ==
  ASSUME Inv, Books, Streams, NEW s \in Subs, Session(s)
  PROVE  Books' /\ StreamStep
<1> DEFINE r == sub[s]
           q == [sub[s] EXCEPT !.finalized = TRUE, !.finals = AllFinals]
<1>1. UNCHANGED <<wpc, cur, client, pub, fin>>
  BY DEF Session
<1>2. CASE ~Late
  BY <1>1, <1>2, UntouchedStep DEF Session
<1>3. CASE Late
  <2>1. sub' = [sub EXCEPT ![s] = q] /\ r \in SubRec
    BY <1>3, MyBooks DEF Session
  <2>2. /\ q.dead = r.dead /\ q.torn = r.torn /\ q.finalized /\ q.finals = AllFinals
        /\ q.failed = r.failed /\ q.closed = r.closed /\ q.started = r.started
        /\ q.head = r.head /\ q.fifo = r.fifo /\ q.bytes = r.bytes
    BY MyBooks DEF SubRec
  <2>3. AllFinals \in Seq(1..NFinals)
    BY BusBounds DEF AllFinals
  <2>4. q \in SubRec
    BY <2>1, <2>3 DEF SubRec
  <2> HIDE DEF q
  <2>5. sub'[s] = q /\ \A t \in Subs \ {s} : sub'[t] = sub[t]
    BY <2>1, MyBooks
  <2>6. OnBooks(r, q)
    BY <2>2 DEF OnBooks, Tallied, Ended
  <2>7. \A t \in Subs \ {s} : Calm(t)
    BY <1>1, <2>5, SameCalm, SamePub
  <2>8. Booked /\ StreamStep
    <3>1. CASE ~r.finalized
      BY <1>1, <2>2, <2>4, <2>5, <2>6, <2>7, <3>1, FinishStep
    <3>2. CASE r.finalized
      <4>1. ~r.started
        BY MyBooks DEF Session, OnStream, Hands
      <4>2. Len(r.finals) = NFinals /\ \A i \in 1..NFinals : r.finals[i] = i
        <5>1. Wire(s)
          BY MyBooks DEF OnStream
        <5>2. Len(r.finals) = NFinals
          BY <3>2, <4>1, <5>1 DEF Wire
        <5>3. \A i \in 1..Len(r.finals) : r.finals[i] = NFinals - Len(r.finals) + i
          BY <5>1 DEF Wire, FinalsLeft
        <5> QED BY <5>2, <5>3, BusBounds
      <4>3. r.finals = AllFinals
        BY <2>1, <4>2, BusBounds DEF AllFinals, SubRec
      <4>4. Alike(r, q) /\ q.bytes = r.bytes
        BY <2>2, <3>2, <4>3, MyBooks DEF Alike, SubRec
      <4>5. Calm(s)
        BY <1>1, <2>5, <4>4, SamePub DEF Calm
      <4> QED BY <2>7, <4>5, AllCalm
    <3> QED BY <3>1, <3>2
  <2> QED BY <1>1, <2>8, BooksKeep
<1> QED BY <1>2, <1>3

\* What s's peer can tell apart is as it was, though its writer may have moved.
LEMMA PlaceStep ==
  ASSUME Inv, Books, NEW s \in Subs, NEW q, sub'[s] = q, OnBooks(sub[s], q),
         Queue(q) = Queue(sub[s]), Phase(q, wpc'[s]) = Phase(sub[s], wpc[s]),
         \A t \in Subs \ {s} : sub'[t] = sub[t] /\ wpc'[t] = wpc[t],
         UNCHANGED <<cur, client, pub, fin>>
  PROVE  Books' /\ StreamStep
<1>1. \A t \in Subs \ {s} : Calm(t)
  BY SameCalm, SamePub
<1>2. Owing(q, wpc'[s]) = Owing(sub[s], wpc[s])
  BY DEF Owing
<1>3. Lagging(q, wpc'[s], Lags(s)) = Lagging(sub[s], wpc[s], Lags(s))
  BY DEF Lagging
<1>4. StreamOf(s)' = Bus!Stream(client[s].wire, Holding(cur[s]), Owing(q, wpc'[s]),
                                Phase(q, wpc'[s]), Lagging(q, wpc'[s], Lags(s)))
  BY SamePub, ViewNext
<1>5. StreamOf(s)' = StreamOf(s)
  BY <1>2, <1>3, <1>4, ViewIs
<1> QED BY <1>1, <1>5, OneNot, BooksKeep

LEMMA StartStep ==
  ASSUME Inv, Books, Streams, NEW s \in Subs, Start(s)
  PROVE  Books' /\ StreamStep
<1> DEFINE r == sub[s]
           q == [sub[s] EXCEPT !.started = TRUE, !.head = TRUE]
<1>1. UNCHANGED <<cur, client, pub, fin>>
  BY DEF Start
<1>2. CASE r.started \/ r.dead
  BY <1>1, <1>2, UntouchedStep DEF Start
<1>3. CASE ~(r.started \/ r.dead)
  <2>1. sub' = [sub EXCEPT ![s] = q] /\ wpc' = [wpc EXCEPT ![s] = "take"]
    BY <1>3, MyBooks DEF Start
  <2>2. /\ q.dead = r.dead /\ q.torn = r.torn /\ q.finalized = r.finalized
        /\ q.failed = r.failed /\ q.closed = r.closed /\ q.started /\ q.head
        /\ q.fifo = r.fifo /\ q.finals = r.finals /\ q.bytes = r.bytes
    BY MyBooks DEF SubRec
  <2> HIDE DEF q
  <2>3. wpc \in [Subs -> {"none", "take", "wait", "write", "stopped", "ended"}]
    BY DEF Inv, TypeOK, WriterType
  <2>4. /\ sub'[s] = q /\ wpc'[s] = "take"
        /\ \A t \in Subs \ {s} : sub'[t] = sub[t] /\ wpc'[t] = wpc[t]
    BY <2>1, <2>3, MyBooks
  <2>5. wpc[s] = "none"
    BY <1>3, <2>3, MyBooks DEF OnStream, Hands
  <2>6. OnBooks(r, q)
    BY <1>3, <2>2 DEF OnBooks, Tallied, Ended
  <2>7. Queue(q) = Queue(r)
    BY <1>3, <2>2 DEF Queue
  <2>8. Phase(q, "take") = Phase(r, wpc[s])
    BY <2>2, <2>5 DEF Phase
  <2> QED BY <1>1, <2>4, <2>6, <2>7, <2>8, PlaceStep
<1> QED BY <1>2, <1>3

LEMMA FinalizeBeginStep ==
  ASSUME Inv, Books, FinalizeBegin
  PROVE  Books' /\ StreamStep
<1> DEFINE f == [pc |-> "each", todo |-> subs, snap |-> subs]
<1>1. UNCHANGED <<sub, wpc, cur, client, pub>> /\ fin' = f
  BY DEF FinalizeBegin, finVars
<1>2. f.pc = "each" /\ f.todo = subs /\ f.snap = subs
  OBVIOUS
<1> HIDE DEF f
<1>3. Swept'
  BY <1>1, <1>2 DEF Swept
<1>4. \A t \in Subs : Calm(t)
  BY <1>1, SameCalm, SamePub
<1>5. Booked /\ StreamStep
  BY <1>4, AllCalm
<1> QED BY <1>1, <1>3, <1>5, TalliesKeep, InLoopsKeeps DEF Books

LEMMA FinalizeOnStep ==
  ASSUME Inv, Books, FinalizeAwait \/ FinalizeCut \/ FinalizeReturn
  PROVE  Books' /\ StreamStep
<1>1. UNCHANGED <<sub, wpc, cur, client, pub>>
  BY DEF FinalizeAwait, FinalizeCut, FinalizeReturn, finVars
<1>2. fin \in [pc : {"idle", "each", "await", "kill", "done"}, todo : SUBSET Subs, snap : SUBSET Subs]
  BY DEF Inv, TypeOK, HubType
<1>3. Swept'
  <2>1. fin.pc = "each" => fin.todo = {}
    BY DEF FinalizeAwait, FinalizeCut, FinalizeReturn, CutDue
  <2>2. \A s \in fin.snap : Ended(sub[s])
    BY <2>1 DEF Books, Swept
  <2>3. fin'.snap = fin.snap /\ fin'.pc \notin {"idle", "each"}
    BY <1>2 DEF FinalizeAwait, FinalizeCut, FinalizeReturn
  <2>4. fin'.todo \subseteq fin'.snap
    BY <1>2 DEF FinalizeAwait, FinalizeCut, FinalizeReturn, Books, Swept
  <2> QED BY <1>1, <2>2, <2>3, <2>4 DEF Swept
<1>4. \A t \in Subs : Calm(t)
  BY <1>1, SameCalm, SamePub
<1>5. Booked /\ StreamStep
  BY <1>4, AllCalm
<1> QED BY <1>1, <1>3, <1>5, TalliesKeep, InLoopsKeeps DEF Books

LEMMA FinHas ==
  ASSUME Inv
  PROVE  /\ fin \in [pc : {"idle", "each", "await", "kill", "done"},
                     todo : SUBSET Subs, snap : SUBSET Subs]
         /\ fin.snap \subseteq Subs
BY DEF Inv, TypeOK, HubType

LEMMA FinalizeSubStep ==
  ASSUME Inv, Books, Streams, NEW s \in Subs, FinalizeSub(s)
  PROVE  Books' /\ StreamStep
<1> DEFINE r == sub[s]
           q == Finalized(sub[s])
           f == [fin EXCEPT !.todo = fin.todo \ {s}]
<1>1. UNCHANGED <<wpc, cur, client, pub>> /\ sub' = [sub EXCEPT ![s] = q] /\ fin' = f
  BY MyBooks, FinHas DEF FinalizeSub, finVars
<1>2. f.pc = fin.pc /\ f.todo = fin.todo \ {s} /\ f.snap = fin.snap
  BY FinHas
<1>3. Ended(q)
  BY MyBooks DEF Finalized, Ended, SubRec
<1>4. r \in SubRec /\ (r.dead \/ r.finalized => q = r)
  BY MyBooks DEF Finalized
<1>5. ~(r.dead \/ r.finalized) =>
         /\ q \in SubRec /\ q.finalized /\ q.finals = AllFinals /\ q.dead = r.dead
         /\ q.torn = r.torn /\ q.failed = r.failed /\ q.started = r.started /\ q.head = r.head
         /\ q.fifo = << >> /\ q.bytes = 0
  <2> SUFFICES ASSUME ~(r.dead \/ r.finalized)
               PROVE  /\ q \in SubRec /\ q.finalized /\ q.finals = AllFinals /\ q.dead = r.dead
                      /\ q.torn = r.torn /\ q.failed = r.failed /\ q.started = r.started
                      /\ q.head = r.head /\ q.fifo = << >> /\ q.bytes = 0
    OBVIOUS
  <2> DEFINE slots == NoSlots
             finals == AllFinals
  <2>3. q = [r EXCEPT !.finalized = TRUE, !.fifo = << >>, !.bytes = 0,
                      !.slots = slots, !.finals = finals, !.wake = TRUE]
    BY DEF Finalized
  <2> HIDE DEF slots, finals, q
  <2>4. /\ q.finalized /\ q.finals = finals /\ q.dead = r.dead
        /\ q.torn = r.torn /\ q.failed = r.failed /\ q.started = r.started
        /\ q.head = r.head /\ q.fifo = << >> /\ q.bytes = 0
    BY <1>4, <2>3 DEF SubRec
  <2>5. GoodRec(q)
    BY MyBooks, GoodFinalized DEF q
  <2> QED BY <2>4, <2>5 DEF GoodRec, finals
<1> HIDE DEF q, f
<1>6. sub'[s] = q /\ \A t \in Subs \ {s} : sub'[t] = sub[t]
  BY <1>1, MyBooks
<1>7. \A t \in Subs \ {s} : Calm(t)
  BY <1>1, <1>6, SameCalm, SamePub
<1>8. Booked /\ StreamStep
  <2>1. CASE r.dead \/ r.finalized
    <3>1. Calm(s)
      BY <1>1, <1>4, <1>6, <2>1, SameCalm, SamePub
    <3> QED BY <1>7, <3>1, AllCalm
  <2>2. CASE ~(r.dead \/ r.finalized)
    <3>1. OnBooks(r, q)
      BY <1>5, <2>2, UnitsNone DEF OnBooks, Tallied, Ended
    <3> QED BY <1>1, <1>5, <1>6, <1>7, <2>2, <3>1, FinishStep
  <2> QED BY <2>1, <2>2
<1>9. Swept'
  <2>1. \A t \in Subs : Ended(sub[t]) => Ended(sub'[t])
    BY <1>8 DEF Booked, OnBooks
  <2>2. fin'.pc = fin.pc /\ fin'.todo = fin.todo \ {s} /\ fin'.snap = fin.snap
    BY <1>1, <1>2
  <2> QED BY <1>3, <1>6, <2>1, <2>2, FinHas DEF Swept, Books
<1> QED BY <1>1, <1>8, <1>9, TalliesKeep, InLoopsKeeps DEF Books

LEMMA FinalizeKillStep ==
  ASSUME Inv, Books, Streams, NEW s \in Subs, FinalizeKill(s)
  PROVE  Books' /\ StreamStep
<1> DEFINE f == [fin EXCEPT !.todo = fin.todo \ {s}]
<1>1. UNCHANGED <<wpc, cur, client, pub>> /\ KillMark(s, sub) /\ fin' = f
  BY FinHas DEF FinalizeKill, finVars
<1>2. f.pc = fin.pc /\ f.todo = fin.todo \ {s} /\ f.snap = fin.snap
  BY FinHas
<1> HIDE DEF f
<1>3. Ended(sub[s])
  BY DEF FinalizeKill, Books, Swept
<1>4. Phase(sub[s], wpc[s]) \in {"final", "over"}
  BY <1>3 DEF Ended, Phase
<1>5. \/ Phase(sub[s], wpc[s]) = "over"
      \/ Due(client[s].wire, Holding(cur[s]), Owing(sub[s], wpc[s]), Phase(sub[s], wpc[s]),
             Lagging(sub[s], wpc[s], Lags(s)))
  BY <1>4 DEF Due
<1>6. OnBooks(sub[s], sub[s])
  BY DEF OnBooks
<1>7. Booked /\ StreamStep
  BY <1>1, <1>5, <1>6, MyBooks, KeepsRecord, SamePub, KillStep
<1>8. Swept'
  <2>1. \A t \in Subs : Ended(sub[t]) => Ended(sub'[t])
    BY <1>7 DEF Booked, OnBooks
  <2>2. fin'.pc = fin.pc /\ fin'.todo = fin.todo \ {s} /\ fin'.snap = fin.snap
    BY <1>1, <1>2
  <2>3. fin.pc = "kill"
    BY DEF FinalizeKill
  <2> QED BY <2>1, <2>2, <2>3, FinHas DEF Swept, Books
<1> QED BY <1>1, <1>7, <1>8, TalliesKeep, InLoopsKeeps DEF Books

-----------------------------------------------------------------------------
(* The writer takes a message, and writes it.                              *)

LEMMA TakingIs ==
  ASSUME Inv, Books, Streams, NEW s \in Subs, Taking(s)
  PROVE  /\ Phase(sub[s], wpc[s]) \in {"open", "left", "final"} /\ cur[s] = NoMsg
         /\ sub[s].started /\ Phase(sub[s], "write") = Phase(sub[s], wpc[s])
         /\ wpc \in [Subs -> {"none", "take", "wait", "write", "stopped", "ended"}]
         /\ cur \in [Subs -> Msg]
<1>1. Phase(sub[s], wpc[s]) \in {"open", "left", "final"}
  BY DEF Taking, Dying, Phase
<1>2. Phase(sub[s], "write") = Phase(sub[s], wpc[s])
  BY DEF Taking, Phase
<1>3. cur[s] = NoMsg /\ sub[s].started
  BY MyBooks DEF Taking, OnStream, Hands
<1> QED BY <1>1, <1>2, <1>3 DEF Inv, TypeOK, WriterType

\* The record r is what taking the message m has left of s.
LEMMA TakenStep ==
  ASSUME Inv, Books, Streams, NEW s \in Subs, Taking(s), NEW m, m # NoMsg, NEW r,
         Hand(s, m, r), OnBooks(sub[s], r), r.dead = sub[s].dead, r.torn = sub[s].torn,
         r.finalized = sub[s].finalized, r.failed = sub[s].failed, r.closed = sub[s].closed,
         \/ Queue(sub[s]) # << >> /\ m = Head(Queue(sub[s])) /\ Queue(r) = Tail(Queue(sub[s]))
         \/ /\ Phase(sub[s], wpc[s]) # "final" /\ Queue(sub[s]) = << >> /\ Queue(r) = << >>
            /\ m \in FrameMsg
  PROVE  Books' /\ StreamStep
<1> DEFINE d == Phase(sub[s], wpc[s])
           e == Lagging(sub[s], wpc[s], Lags(s))
<1>1. /\ d \in {"open", "left", "final"} /\ cur[s] = NoMsg
      /\ Phase(r, "write") = d
  BY TakingIs DEF Phase
<1>2. /\ sub'[s] = r /\ wpc'[s] = "write" /\ cur'[s] = m
      /\ \A t \in Subs \ {s} : sub'[t] = sub[t] /\ wpc'[t] = wpc[t] /\ cur'[t] = cur[t]
      /\ UNCHANGED <<client, pub, fin>>
  BY TakingIs, MyBooks DEF Hand, takeVars
<1>3. \A t \in Subs \ {s} : Calm(t)
  BY <1>2, SameCalm, SamePub
<1>4. Booked /\ Beside(s)
  BY <1>2, <1>3, OneNot
<1>5. /\ Owing(sub[s], wpc[s]) = Queue(sub[s]) /\ Owing(r, "write") = Queue(r)
      /\ Lagging(r, "write", Lags(s)) = e
  BY <1>1 DEF Owing, Lagging
<1>6. Holding(m) = << m >> /\ Holding(cur[s]) = << >>
  BY <1>1 DEF Holding
<1>7. StreamOf(s)' = Bus!Stream(client[s].wire, Holding(m), Owing(r, "write"), Phase(r, "write"),
                                Lagging(r, "write", Lags(s)))
  BY <1>2, SamePub, ViewNext
<1> HIDE DEF d, e
<1>8. StreamOf(s)' = Bus!Stream(client[s].wire, << m >>, Queue(r), d, e)
  BY <1>1, <1>5, <1>6, <1>7
<1>9. StreamOf(s) = Bus!Stream(client[s].wire, << >>, Queue(sub[s]), d, e)
  BY <1>5, <1>6, ViewIs DEF d, e
<1>10. Bus!StreamNext
  <2>1. CASE Queue(sub[s]) # << >> /\ m = Head(Queue(sub[s])) /\ Queue(r) = Tail(Queue(sub[s]))
    BY <1>1, <1>4, <1>8, <1>9, <2>1, ItHolds
  <2>2. CASE /\ d # "final" /\ Queue(sub[s]) = << >> /\ Queue(r) = << >> /\ m \in FrameMsg
    <3>1. d \in {"open", "left"}
      BY <1>1, <2>2
    <3> QED BY <1>4, <1>8, <1>9, <2>2, <3>1, ItHoldsPicture
  <2> QED BY <2>1, <2>2 DEF d
<1> QED BY <1>2, <1>4, <1>10, BooksKeep DEF StreamStep

LEMMA TakeHeadStep ==
  ASSUME Inv, Books, Streams, NEW s \in Subs, TakeHead(s)
  PROVE  Books' /\ StreamStep
<1> DEFINE r == sub[s]
           q == [sub[s] EXCEPT !.head = FALSE]
           rest == IF r.finalized THEN [i \in 1..Len(r.finals) |-> Final(r.finals[i])] ELSE r.fifo
<1>1. Taking(s) /\ r.head /\ Hand(s, Aggregate, q) /\ r \in SubRec
  BY MyBooks DEF TakeHead
<1>2. /\ q.dead = r.dead /\ q.torn = r.torn /\ q.finalized = r.finalized
      /\ q.failed = r.failed /\ q.closed = r.closed /\ q.started = r.started
      /\ ~q.head /\ q.fifo = r.fifo /\ q.finals = r.finals /\ q.bytes = r.bytes
  BY <1>1 DEF SubRec
<1> HIDE DEF q
<1>3. OnBooks(r, q)
  BY <1>2 DEF OnBooks, Tallied, Ended
<1>4. rest \in Seq(Msg)
  <2>1. CASE r.finalized
    <3>1. Len(r.finals) \in Nat /\ \A i \in 1..Len(r.finals) : r.finals[i] \in Nat
      BY <1>1, BusBounds DEF SubRec
    <3>2. \A i \in 1..Len(r.finals) : Final(r.finals[i]) \in Msg
      BY <3>1, Messages
    <3> QED BY <2>1, <3>1, <3>2
  <2>2. CASE ~r.finalized
    BY <1>1, <2>2 DEF SubRec
  <2> QED BY <2>1, <2>2
<1>5. Queue(r) = << Aggregate >> \o rest /\ Queue(q) = << >> \o rest
  BY <1>1, <1>2, TakingIs DEF Queue
<1> HIDE DEF rest
<1>6. Queue(r) # << >> /\ Head(Queue(r)) = Aggregate /\ Queue(q) = Tail(Queue(r))
  <2>1. << Aggregate >> \in Seq(Msg) /\ Aggregate \in Msg
    BY Messages
  <2> QED BY <1>4, <1>5, <2>1
<1>7. Aggregate # NoMsg
  BY DEF Aggregate, NoMsg, Plain
<1> QED BY <1>1, <1>2, <1>3, <1>6, <1>7, TakenStep

LEMMA TakeFinalStep ==
  ASSUME Inv, Books, Streams, NEW s \in Subs, TakeFinal(s)
  PROVE  Books' /\ StreamStep
<1> DEFINE r == sub[s]
           f == r.finals
           q == [sub[s] EXCEPT !.finals = Tail(f)]
           a == [i \in 1..Len(f) |-> Final(f[i])]
           b == [i \in 1..Len(Tail(f)) |-> Final(Tail(f)[i])]
           m == Final(f[1])
<1>1. Taking(s) /\ ~r.head /\ r.finalized /\ f # << >> /\ Hand(s, m, q) /\ r \in SubRec
  BY MyBooks DEF TakeFinal
<1>2. f \in Seq(1..NFinals) /\ \A i \in 1..Len(f) : f[i] \in Nat
  BY <1>1, BusBounds DEF SubRec
<1>3. /\ q.dead = r.dead /\ q.torn = r.torn /\ q.finalized = r.finalized
      /\ q.failed = r.failed /\ q.closed = r.closed /\ q.started = r.started
      /\ q.head = r.head /\ q.fifo = r.fifo /\ q.finals = Tail(f) /\ q.bytes = r.bytes
  <2> HIDE DEF f
  <2> QED BY <1>1 DEF SubRec, f
<1> HIDE DEF q
<1>4. OnBooks(r, q)
  BY <1>3 DEF OnBooks, Tallied, Ended
<1>5. /\ Len(f) \in Nat \ {0} /\ Len(Tail(f)) = Len(f) - 1
      /\ \A i \in 1..Len(Tail(f)) : Tail(f)[i] = f[i + 1]
  BY <1>1, <1>2
<1>6. a \in Seq(Msg) /\ b \in Seq(Msg) /\ Len(a) = Len(f) /\ Len(b) = Len(f) - 1
  <2>1. \A i \in 1..Len(f) : Final(f[i]) \in Msg
    BY <1>2, Messages
  <2>2. \A i \in 1..Len(Tail(f)) : Final(Tail(f)[i]) \in Msg
    BY <1>2, <1>5, Messages
  <2> QED BY <1>5, <2>1, <2>2
<1>7. a # << >> /\ Head(a) = m /\ Tail(a) = b
  <2>1. a[1] = m /\ \A i \in 1..Len(b) : b[i] = a[i + 1]
    BY <1>5, <1>6
  <2>2. Tail(a) \in Seq(Msg) /\ Len(Tail(a)) = Len(b) /\ \A i \in 1..Len(b) : Tail(a)[i] = a[i + 1]
    <3> HIDE DEF a, b
    <3> QED BY <1>5, <1>6
  <2> HIDE DEF a, b
  <2>3. Tail(a) = b
    BY <1>6, <2>1, <2>2, SeqEqual
  <2> QED BY <1>5, <1>6, <2>1, <2>3
<1>8. Queue(r) = << >> \o a /\ Queue(q) = << >> \o b
  BY <1>1, <1>3, TakingIs DEF Queue
<1>9. m # NoMsg
  BY DEF Final, NoMsg, Plain
<1> HIDE DEF a, b, m
<1>10. Queue(r) = a /\ Queue(q) = b
  BY <1>6, <1>8
<1> QED BY <1>1, <1>3, <1>4, <1>7, <1>9, <1>10, TakenStep

LEMMA LiveQueue ==
  ASSUME Inv, Books, Streams, NEW s \in Subs, Live(s), NEW q, q.started = sub[s].started,
         q.head = sub[s].head, q.finalized = sub[s].finalized, q.fifo \in Seq(Msg)
  PROVE  Queue(q) = q.fifo /\ Queue(sub[s]) = sub[s].fifo
<1>1. sub[s].fifo \in Seq(Msg)
  BY MyBooks DEF SubRec
<1>2. Taking(s) /\ ~sub[s].head /\ ~sub[s].finalized
  BY DEF Live
<1>3. Queue(q) = << >> \o q.fifo /\ Queue(sub[s]) = << >> \o sub[s].fifo
  BY <1>2, TakingIs DEF Queue
<1> QED BY <1>1, <1>3

LEMMA TakeFifoStep ==
  ASSUME Inv, Books, Streams, NEW s \in Subs, TakeFifo(s)
  PROVE  Books' /\ StreamStep
<1> DEFINE r == sub[s]
           f == r.fifo
           m == f[1]
           n == r.bytes - Size(m)
           q == [sub[s] EXCEPT !.fifo = Tail(f), !.bytes = n]
<1>1. Live(s) /\ f # << >> /\ Hand(s, m, q) /\ r \in SubRec
  BY MyBooks DEF TakeFifo
<1>2. f \in Seq(Msg)
  BY <1>1 DEF SubRec
<1>3. /\ q.dead = r.dead /\ q.torn = r.torn /\ q.finalized = r.finalized
      /\ q.failed = r.failed /\ q.closed = r.closed /\ q.started = r.started
      /\ q.head = r.head /\ q.fifo = Tail(f) /\ q.finals = r.finals /\ q.bytes = n
  <2> HIDE DEF f, n
  <2> QED BY <1>1 DEF SubRec
<1> HIDE DEF q
<1>4. OnBooks(r, q)
  <2>1. Units(Tail(f)) = Units(f) - Size(m)
    BY <1>1, <1>2, UnitsTail
  <2> QED BY <1>3, <2>1 DEF OnBooks, Tallied, Ended
<1>5. Queue(q) = Tail(f) /\ Queue(r) = f
  <2>1. Tail(f) \in Seq(Msg)
    BY <1>1, <1>2
  <2> HIDE DEF f
  <2> QED BY <1>1, <1>3, <2>1, LiveQueue DEF f
<1>6. Head(f) = m /\ m # NoMsg
  <2>1. m.kind \in QueueKinds
    BY <1>1, <1>2, MyBooks, TailParts DEF Kinds
  <2> QED BY <1>1, <1>2, <2>1 DEF QueueKinds, NoMsg, Plain
<1> HIDE DEF m, f
<1> QED BY <1>1, <1>3, <1>4, <1>5, <1>6, TakenStep DEF Live

LEMMA TakeFrameStep ==
  ASSUME Inv, Books, Streams, NEW s \in Subs, TakeFrame(s)
  PROVE  Books' /\ StreamStep
<1> DEFINE r == sub[s]
           t == TakeSlot(r.slots)
           m == FrameOf(r.slots, Served(r.slots))
           q == [sub[s] EXCEPT !.slots = t]
<1>1. /\ Live(s) /\ r.fifo = << >> /\ HasPending(r.slots) /\ Hand(s, m, q) /\ r \in SubRec
  BY MyBooks DEF TakeFrame
<1> HIDE DEF t
<1>2. Alike(r, q) /\ q.bytes = r.bytes
  BY <1>1 DEF SubRec, Alike
<1> HIDE DEF q
<1>3. OnBooks(r, q)
  BY <1>2, AlikeShows
<1>4. Queue(q) = << >> /\ Queue(r) = << >>
  BY <1>1, <1>2, LiveQueue DEF Alike, SubRec
<1>5. m \in FrameMsg
  <2>1. WholeTable(r.slots)
    BY MySub
  <2>2. Has(r.slots, Served(r.slots))
    BY <1>1, <2>1, ServedIsPending DEF Pending
  <2> QED BY <2>1, <2>2, FrameOfType DEF FrameMsg
<1>6. m # NoMsg
  BY <1>5 DEF FrameMsg, NoMsg, Plain
<1>7. Phase(r, wpc[s]) # "final"
  BY <1>1 DEF Live, Phase
<1> HIDE DEF m
<1> QED BY <1>1, <1>2, <1>3, <1>4, <1>5, <1>6, <1>7, TakenStep DEF Alike, Live

LEMMA ParkStep ==
  ASSUME Inv, Books, Streams, NEW s \in Subs, Park(s)
  PROVE  Books' /\ StreamStep
<1>1. UNCHANGED <<sub, cur, client, pub, fin>> /\ wpc' = [wpc EXCEPT ![s] = "wait"] /\ Taking(s)
  BY DEF Park, takeVars, Starved, Live
<1>2. wpc'[s] = "wait" /\ \A t \in Subs \ {s} : wpc'[t] = wpc[t]
  BY <1>1, TakingIs
<1>3. Phase(sub[s], "wait") = Phase(sub[s], wpc[s])
  BY <1>1 DEF Taking, Phase
<1>4. OnBooks(sub[s], sub[s])
  BY DEF OnBooks
<1> QED BY <1>1, <1>2, <1>3, <1>4, PlaceStep

LEMMA WakeStep ==
  ASSUME Inv, Books, Streams, NEW s \in Subs, Wake(s)
  PROVE  Books' /\ StreamStep
<1> DEFINE q == [sub[s] EXCEPT !.wake = FALSE]
<1>1. /\ UNCHANGED <<cur, client, pub, fin>> /\ wpc' = [wpc EXCEPT ![s] = "take"]
      /\ sub' = [sub EXCEPT ![s] = q] /\ wpc[s] = "wait"
  BY MyBooks DEF Wake, takeVars
<1>2. Alike(sub[s], q) /\ q.bytes = sub[s].bytes
  BY MyBooks DEF SubRec, Alike
<1> HIDE DEF q
<1>3. /\ wpc'[s] = "take" /\ sub'[s] = q
      /\ \A t \in Subs \ {s} : wpc'[t] = wpc[t] /\ sub'[t] = sub[t]
  BY <1>1, MyBooks DEF Inv, TypeOK, WriterType
<1>4. OnBooks(sub[s], q) /\ Queue(q) = Queue(sub[s]) /\ Phase(q, "take") = Phase(sub[s], "take")
  BY <1>2, AlikeShows
<1>5. Phase(sub[s], "take") = Phase(sub[s], wpc[s])
  BY <1>1 DEF Phase
<1> QED BY <1>1, <1>3, <1>4, <1>5, PlaceStep

LEMMA ExitStep ==
  ASSUME Inv, Books, Streams, NEW s \in Subs, Exit(s)
  PROVE  Books' /\ StreamStep
<1>1. UNCHANGED <<sub, cur, client, pub, fin>> /\ wpc' = [wpc EXCEPT ![s] = "ended"]
  BY DEF Exit
<1>2. wpc'[s] = "ended" /\ \A t \in Subs \ {s} : wpc'[t] = wpc[t]
  BY <1>1 DEF Inv, TypeOK, WriterType
<1>3. Phase(sub[s], "ended") = Phase(sub[s], wpc[s])
  BY DEF Exit, Phase
<1>4. OnBooks(sub[s], sub[s])
  BY DEF OnBooks
<1> QED BY <1>1, <1>2, <1>3, <1>4, PlaceStep

LEMMA StopStep ==
  ASSUME Inv, Books, Streams, NEW s \in Subs, Stop(s)
  PROVE  Books' /\ StreamStep
<1> DEFINE r == sub[s]
           d == Phase(r, "take")
           e == Lagging(r, "take", Lags(s))
<1>1. /\ UNCHANGED <<sub, cur, client, pub, fin>> /\ wpc' = [wpc EXCEPT ![s] = "stopped"]
      /\ wpc[s] = "take" /\ r \in SubRec
  BY MyBooks DEF Stop
<1>2. wpc'[s] = "stopped" /\ \A t \in Subs \ {s} : wpc'[t] = wpc[t]
  BY <1>1 DEF Inv, TypeOK, WriterType
<1>3. \A t \in Subs \ {s} : Calm(t)
  BY <1>1, <1>2, SameCalm, SamePub
<1>4. OnBooks(r, sub'[s])
  BY <1>1 DEF OnBooks
<1>5. Booked /\ Beside(s) /\ (StreamOf(s)' = StreamOf(s) => StreamStep)
  BY <1>3, <1>4, OneNot
<1>6. /\ Phase(r, "stopped") = "over" /\ Owing(r, "stopped") = << >>
      /\ Lagging(r, "stopped", Lags(s)) = FALSE
  BY DEF Phase, Owing, Lagging
<1>7. StreamOf(s)' = Bus!Stream(client[s].wire, Holding(cur[s]), Owing(r, "stopped"),
                                Phase(r, "stopped"), Lagging(r, "stopped", Lags(s)))
  BY <1>1, <1>2, SamePub, ViewNext
<1>8. StreamOf(s)' = Bus!Stream(client[s].wire, Holding(cur[s]), << >>, "over", FALSE)
  BY <1>6, <1>7, Zenon
<1>9. StreamOf(s) = Bus!Stream(client[s].wire, Holding(cur[s]), Owing(r, "take"), d, e)
  BY <1>1, ViewIs
<1>10. CASE d = "over"
  <2>1. Owing(r, "take") = << >> /\ e = FALSE
    BY <1>10 DEF Owing, Lagging
  <2>2. StreamOf(s) = Bus!Stream(client[s].wire, Holding(cur[s]), << >>, "over", FALSE)
    BY <1>9, <1>10, <2>1, Zenon
  <2> QED BY <1>1, <1>5, <1>8, <2>2, BooksKeep
<1>11. CASE d # "over"
  <2>1. Holding(cur[s]) = << >> /\ r.started
    BY <1>1, MyBooks DEF OnStream, Hands, Holding
  <2>2. d \in {"failed", "final"} \/ (d = "left" /\ Owing(r, "take") = << >>)
    <3>1. CASE Dying(r)
      BY <1>11, <3>1 DEF Dying, Phase
    <3>2. CASE Taking(s) /\ ~r.head /\ r.finalized /\ r.finals = << >>
      BY <1>11, <3>2 DEF Phase
    <3>3. CASE Starved(s) /\ r.closed
      <4>1. Queue(r) = << >>
        BY <1>1, <3>3, LiveQueue DEF Starved, SubRec
      <4>2. d = "left"
        BY <1>11, <3>3 DEF Starved, Live, Taking, Dying, Phase
      <4> QED BY <4>1, <4>2 DEF Owing
    <3> QED BY <3>1, <3>2, <3>3 DEF Stop
  <2>3. Due(client[s].wire, Holding(cur[s]), Owing(r, "take"), d, e)
    BY <2>1, <2>2 DEF Due
  <2> HIDE DEF d, e
  <2>4. Bus!StreamNext
    BY <1>5, <1>8, <1>9, <2>3, ItEnds
  <2> QED BY <1>1, <1>5, <2>4, BooksKeep DEF StreamStep
<1> QED BY <1>10, <1>11

LEMMA WriteOkStep ==
  ASSUME Inv, Books, Streams, NEW s \in Subs, WriteOk(s)
  PROVE  Books' /\ StreamStep
<1> DEFINE r == sub[s]
           m == cur[s]
           a == client[s].wire
           x == Received(client[s], m)
           d == Phase(r, "write")
           e == Lagging(r, "write", Lags(s))
<1>1. /\ UNCHANGED <<sub, pub, fin>> /\ wpc' = [wpc EXCEPT ![s] = "take"]
      /\ cur' = [cur EXCEPT ![s] = NoMsg] /\ client' = [client EXCEPT ![s] = x]
      /\ wpc[s] = "write" /\ r \in SubRec
  BY MyBooks DEF WriteOk, writeVars, Inv, TypeOK, HistoryType
<1>2. m \in Msg /\ m # NoMsg /\ client[s] \in ClientRec /\ a \in Seq(Msg)
  <2>1. m.kind # "none"
    BY <1>1, MyBooks DEF OnStream, Hands
  <2> QED BY <2>1 DEF Inv, TypeOK, HistoryType, WriterType, ClientRec, NoMsg, Plain
<1> HIDE DEF x
<1>3. /\ wpc'[s] = "take" /\ cur'[s] = NoMsg /\ client'[s] = x
      /\ \A t \in Subs \ {s} : wpc'[t] = wpc[t] /\ cur'[t] = cur[t] /\ client'[t] = client[t]
  BY <1>1 DEF Inv, TypeOK, WriterType, HistoryType
<1>4. x.wire = IF m \in FrameMsg THEN a ELSE a \o << m >>
  <2>1. m \in FrameMsg <=> m.kind \in {"frame", "changed"}
    BY <1>2 DEF Msg, FrameMsg, PlainMsg
  <2>2. CASE m \in FrameMsg
    <3>1. x = [client[s] EXCEPT !.view[m.pane] = Shown(client[s].view[m.pane], m)]
      BY <2>1, <2>2 DEF x, Received
    <3> DEFINE v == [client[s].view EXCEPT ![m.pane] = Shown(client[s].view[m.pane], m)]
    <3>2. x = [client[s] EXCEPT !.view = v]
      BY <3>1
    <3> HIDE DEF v
    <3> QED BY <1>2, <2>2, <3>2 DEF ClientRec
  <2>3. CASE m \notin FrameMsg
    <3> DEFINE u == Append(a, m)
               v == Told(client[s].told, m)
    <3>1. x = [client[s] EXCEPT !.wire = u, !.told = v]
      BY <2>1, <2>3 DEF x, Received
    <3>2. u = a \o << m >>
      BY <1>2, AppendIsConcat
    <3> HIDE DEF u, v
    <3>3. x.wire = u
      BY <1>2, <3>1 DEF ClientRec
    <3> QED BY <2>3, <3>2, <3>3
  <2> QED BY <2>2, <2>3
<1>5. \A t \in Subs \ {s} : Calm(t)
  BY <1>1, <1>3, SameCalm, SamePub
<1>6. OnBooks(r, sub'[s])
  BY <1>1 DEF OnBooks
<1>7. Booked /\ Beside(s)
  BY <1>5, <1>6, OneNot
<1>8. Phase(r, "take") = d /\ Owing(r, "take") = Owing(r, "write") /\ Lagging(r, "take", Lags(s)) = e
  BY DEF Phase, Owing, Lagging
<1>9. Holding(m) = << m >> /\ Holding(NoMsg) = << >>
  BY <1>2 DEF Holding
<1>10. StreamOf(s)' = Bus!Stream(x.wire, Holding(NoMsg), Owing(r, "take"), Phase(r, "take"),
                                 Lagging(r, "take", Lags(s)))
  BY <1>1, <1>3, SamePub, ViewNext
<1>11. StreamOf(s) = Bus!Stream(a, Holding(m), Owing(r, "write"), d, e)
  BY <1>1, ViewIs
<1> HIDE DEF d, e
<1>12. StreamOf(s)' = Bus!Stream(x.wire, << >>, Owing(r, "write"), d, e)
  BY <1>8, <1>9, <1>10
<1>13. StreamOf(s) = Bus!Stream(a, << m >>, Owing(r, "write"), d, e)
  BY <1>9, <1>11
<1>14. Bus!StreamNext
  BY <1>4, <1>7, <1>12, <1>13, ItReads
<1> QED BY <1>1, <1>7, <1>14, BooksKeep DEF StreamStep

\* A stream that has failed is not being written to.
Rested == \A s \in Subs : PeerStreams[s].phase = "failed" => PeerStreams[s].hand = << >>

LEMMA WriteFailStep ==
  ASSUME Inv, Books, Streams, Rested, NEW s \in Subs, NEW torn \in BOOLEAN, WriteFail(s, torn)
  PROVE  Books' /\ StreamStep
<1> DEFINE r == sub[s]
           m == cur[s]
           a == client[s].wire
           k == r.torn \/ torn
           q == [sub[s] EXCEPT !.failed = TRUE, !.torn = k]
           j == client[s].torn \/ torn
           x == [client[s] EXCEPT !.torn = j]
           d == Phase(r, "write")
           e == Lagging(r, "write", Lags(s))
<1>1. /\ UNCHANGED <<pub, fin>> /\ wpc' = [wpc EXCEPT ![s] = "take"]
      /\ cur' = [cur EXCEPT ![s] = NoMsg] /\ client' = [client EXCEPT ![s] = x]
      /\ sub' = [sub EXCEPT ![s] = q] /\ wpc[s] = "write" /\ r \in SubRec
  BY MyBooks DEF WriteFail, writeVars, Inv, TypeOK, HistoryType
<1>2. m # NoMsg /\ client[s] \in ClientRec
  <2>1. m.kind # "none"
    BY <1>1, MyBooks DEF OnStream, Hands
  <2> QED BY <2>1 DEF Inv, TypeOK, HistoryType, NoMsg, Plain
<1>3. x.wire = a
  <2> HIDE DEF j
  <2> QED BY <1>2 DEF ClientRec
<1>4. /\ q.failed /\ q.torn = k /\ q.dead = r.dead /\ q.finalized = r.finalized
      /\ q.closed = r.closed /\ q.started = r.started /\ q.head = r.head /\ q.fifo = r.fifo
      /\ q.finals = r.finals /\ q.bytes = r.bytes
  <2> HIDE DEF k
  <2> QED BY <1>1 DEF SubRec
<1> HIDE DEF x, q
<1>5. /\ wpc'[s] = "take" /\ cur'[s] = NoMsg /\ client'[s] = x /\ sub'[s] = q
      /\ \A t \in Subs \ {s} : /\ wpc'[t] = wpc[t] /\ cur'[t] = cur[t]
                               /\ client'[t] = client[t] /\ sub'[t] = sub[t]
  BY <1>1 DEF Inv, TypeOK, WriterType, HistoryType, SubType
<1>6. r.started /\ ~r.head
  BY <1>1, <1>2, MyBooks DEF OnStream, Hands, Wire
<1>7. \A t \in Subs \ {s} : Calm(t)
  BY <1>1, <1>5, SameCalm, SamePub
<1>8. OnBooks(r, q)
  BY <1>4, <1>6 DEF OnBooks, Tallied, Ended
<1>9. Booked /\ Beside(s)
  BY <1>5, <1>7, <1>8, OneNot
<1>10. StreamOf(s)' = Bus!Stream(a, Holding(NoMsg), Owing(q, "take"), Phase(q, "take"),
                                 Lagging(q, "take", Lags(s)))
  BY <1>1, <1>3, <1>5, SamePub, ViewNext
<1>11. StreamOf(s) = Bus!Stream(a, Holding(m), Owing(r, "write"), d, e)
  BY <1>1, ViewIs
<1>12. Holding(m) = << m >> /\ Holding(NoMsg) = << >> /\ << m >> # << >>
  BY <1>2 DEF Holding
<1>13. d # "failed"
  <2>1. d = PeerStreams[s].phase /\ Holding(m) = PeerStreams[s].hand
    BY <1>11, Fields
  <2> QED BY <1>12, <2>1 DEF Rested
<1>14. \/ /\ d = "final" /\ Phase(q, "take") = "final" /\ Owing(q, "take") = Owing(r, "write")
          /\ Lagging(q, "take", Lags(s)) = e
       \/ /\ d \in {"open", "left"} /\ Phase(q, "take") = "failed" /\ Owing(q, "take") = << >>
          /\ Lagging(q, "take", Lags(s)) = FALSE
       \/ /\ Phase(q, "take") = "over" /\ Owing(q, "take") = << >>
          /\ Lagging(q, "take", Lags(s)) = FALSE
  <2>1. Queue(q) = Queue(r)
    BY <1>4 DEF Queue
  <2>2. CASE Phase(q, "take") = "over"
    BY <2>2 DEF Owing, Lagging
  <2>3. CASE Phase(q, "take") # "over" /\ r.finalized
    <3>1. Phase(q, "take") = "final" /\ d = "final"
      BY <1>4, <2>3 DEF Phase
    <3> QED BY <2>1, <3>1 DEF Owing, Lagging
  <2>4. CASE Phase(q, "take") # "over" /\ ~r.finalized
    <3>1. Phase(q, "take") = "failed" /\ d \in {"open", "left"}
      BY <1>4, <1>13, <2>4 DEF Phase
    <3> QED BY <3>1 DEF Owing, Lagging
  <2> QED BY <2>2, <2>3, <2>4
<1> HIDE DEF d, e
<1>15. \/ d = "final" /\ StreamOf(s)' = Bus!Stream(a, << >>, Owing(r, "write"), d, e)
       \/ d \in {"open", "left"} /\ StreamOf(s)' = Bus!Stream(a, << >>, << >>, "failed", FALSE)
       \/ StreamOf(s)' = Bus!Stream(a, << >>, << >>, "over", FALSE)
  BY <1>10, <1>12, <1>14, Zenon
<1>16. StreamOf(s) = Bus!Stream(a, << m >>, Owing(r, "write"), d, e)
  BY <1>11, <1>12
<1>17. Bus!StreamNext
  BY <1>9, <1>12, <1>15, <1>16, ItFails
<1> QED BY <1>1, <1>9, <1>17, BooksKeep DEF StreamStep

-----------------------------------------------------------------------------
(* The refinement.                                                         *)

\* Whatever a stream does, it holds nothing once it has failed.
LEMMA RestedKeeps ==
  ASSUME Rested, StreamStep
  PROVE  Rested'
<1>1. CASE PeerStreams' = PeerStreams
  BY <1>1 DEF Rested
<1>2. ASSUME NEW s \in Subs, NEW f, Bus!Becomes(s, f), f.phase = "failed" => f.hand = << >>
      PROVE  Rested'
  <2>1. PeerStreams' = [PeerStreams EXCEPT ![s] = f] /\ DOMAIN PeerStreams = Subs
    BY <1>2 DEF Bus!Becomes, PeerStreams
  <2>2. PeerStreams'[s] = f /\ \A t \in Subs \ {s} : PeerStreams'[t] = PeerStreams[t]
    BY <2>1
  <2> QED BY <1>2, <2>2 DEF Rested
<1>3. \A a, b, c, d, e : /\ Bus!Stream(a, b, c, d, e).phase = d
                         /\ Bus!Stream(a, b, c, d, e).hand = b
  BY DEF Bus!Stream
<1>4. ASSUME NEW s \in Subs, NEW a, NEW b, NEW c, NEW d, NEW e,
             Bus!Becomes(s, Bus!Stream(a, b, c, d, e)), d = "failed" => b = << >>
      PROVE  Rested'
  BY <1>2, <1>3, <1>4
<1>5. CASE Bus!StreamNext
  <2>1. PICK s \in Subs :
           \/ Bus!Owe(s) \/ Bus!FallBehind(s) \/ Bus!Hold(s) \/ Bus!HoldPicture(s)
           \/ Bus!Deliver(s) \/ Bus!Fail(s) \/ Bus!Leave(s) \/ Bus!Finish(s) \/ Bus!End(s)
    BY <1>5, Zenon DEF Bus!StreamNext
  <2> DEFINE x == PeerStreams[s]
  <2>2. x.phase = "failed" => x.hand = << >>
    BY DEF Rested
  <2>3. CASE Bus!Owe(s)
    BY <1>4, <2>3 DEF Bus!Owe
  <2>9. CASE Bus!FallBehind(s)
    <3>1. Bus!Becomes(s, Bus!Stream(x.read, x.hand, x.owed, "open", TRUE))
      BY <2>9, Zenon DEF Bus!FallBehind
    <3> DEFINE f == Bus!Stream(x.read, x.hand, x.owed, "open", TRUE)
    <3>2. f.phase # "failed"
      BY DEF Bus!Stream
    <3>3. Bus!Becomes(s, f)
      BY <3>1
    <3> HIDE DEF f
    <3> QED BY <1>2, <3>2, <3>3
  <2>10. CASE Bus!Leave(s)
    BY <1>4, <2>10 DEF Bus!Leave
  <2>4. CASE Bus!Hold(s)
    BY <1>4, <2>4 DEF Bus!Hold
  <2>5. CASE Bus!HoldPicture(s)
    BY <1>4, <2>5 DEF Bus!HoldPicture
  <2>6. CASE Bus!Deliver(s)
    BY <1>4, <2>6 DEF Bus!Deliver
  <2>7. CASE Bus!Fail(s)
    BY <1>4, <2>7 DEF Bus!Fail
  <2>8. CASE Bus!Finish(s)
    <3>1. PICK o : Bus!Becomes(s, Bus!Stream(x.read, x.hand, o, "final", FALSE))
      BY <2>8, Zenon DEF Bus!Finish
    <3> DEFINE f == Bus!Stream(x.read, x.hand, o, "final", FALSE)
    <3>2. f.phase # "failed"
      BY DEF Bus!Stream
    <3>3. Bus!Becomes(s, f)
      BY <3>1
    <3> HIDE DEF f
    <3> QED BY <1>2, <3>2, <3>3
  <2>11. CASE Bus!End(s)
    <3>1. Bus!Becomes(s, Bus!Stream(x.read, x.hand, << >>, "over", FALSE))
      BY <2>11, Zenon DEF Bus!End
    <3> DEFINE f == Bus!Stream(x.read, x.hand, << >>, "over", FALSE)
    <3>2. f.phase # "failed"
      BY DEF Bus!Stream
    <3>3. Bus!Becomes(s, f)
      BY <3>1
    <3> HIDE DEF f
    <3> QED BY <1>2, <3>2, <3>3
  <2> QED BY <2>1, <2>3, <2>4, <2>5, <2>6, <2>7, <2>8, <2>9, <2>10, <2>11
<1> QED BY <1>1, <1>5 DEF StreamStep

LEMMA InitBooks == Init => Books /\ Rested /\ Bus!StreamInit
<1> SUFFICES ASSUME Init PROVE Books /\ Rested /\ Bus!StreamInit
  OBVIOUS
<1>1. Tallies
  <2>1. NewSub.bytes = Units(NewSub.fifo) /\ ~NewSub.failed /\ ~NewSub.head
    BY UnitsNone DEF NewSub
  <2> QED BY <2>1 DEF Init, Tallies, Tallied
<1>2. Swept
  BY DEF Init, Swept
<1>3. InLoops
  BY DEF Init, InLoops, NoPub
<1>4. ASSUME NEW s \in Subs PROVE StreamOf(s) = Bus!NewStream
  <2>1. Phase(NewSub, "none") = "open" /\ Queue(NewSub) = << Aggregate >> \o << >>
    BY DEF Phase, Queue, NewSub
  <2>2. << Aggregate >> \o << >> = << Aggregate >>
    <3>1. << Aggregate >> \in Seq(Msg)
      BY Messages
    <3> QED BY <3>1
  <2>3. Lags(s) = FALSE
    BY DEF Init, Lags, NoPub
  <2>4. /\ sub[s] = NewSub /\ wpc[s] = "none" /\ cur[s] = NoMsg /\ client[s].wire = << >>
    BY DEF Init
  <2>5. Holding(cur[s]) = << >> /\ Owing(sub[s], wpc[s]) = << Aggregate >>
        /\ Lagging(sub[s], wpc[s], Lags(s)) = FALSE
    BY <2>1, <2>2, <2>3, <2>4 DEF Holding, Owing, Lagging
  <2> QED BY <2>1, <2>4, <2>5, ViewIs DEF Bus!NewStream
<1>5. Bus!StreamInit
  BY <1>4 DEF Bus!StreamInit, PeerStreams
<1>6. Rested
  <2>1. Bus!NewStream.phase = "open"
    BY DEF Bus!NewStream, Bus!Stream
  <2> QED BY <1>4, <2>1 DEF Rested, PeerStreams
<1> QED BY <1>1, <1>2, <1>3, <1>5, <1>6 DEF Books

LEMMA NextBooks ==
  Inv /\ Streams /\ Books /\ Rested /\ [Next]_vars => Books' /\ StreamStep
<1> SUFFICES ASSUME Inv, Streams, Books, Rested, [Next]_vars PROVE Books' /\ StreamStep
  OBVIOUS
<1>1. ASSUME NEW s \in Subs, Session(s) \/ Start(s) \/ Send(s) \/ Close(s) \/ Reap(s)
      PROVE  Books' /\ StreamStep
  BY <1>1, SessionStep, StartStep, SendReply, CloseStep, ReapStep
<1>2. ASSUME NEW s \in Subs, DropWatches(s) PROVE Books' /\ StreamStep
  BY <1>2, UntouchedStep DEF DropWatches
<1>3. ASSUME NEW s \in Subs, Watch(s) PROVE Books' /\ StreamStep
  <2>1. ASSUME NEW p \in Panes, WatchAdd(s, p) \/ UnwatchLeave(s, p)
        PROVE  Books' /\ StreamStep
    BY <2>1, UntouchedStep DEF WatchAdd, UnwatchLeave, readerVars
  <2> QED BY <1>3, <2>1, WatchAddSlotStep, WatchResolveStep, WatchAnswerStep, UnwatchAnswerStep,
             ResyncReply, OfferStep, OfferChangedStep DEF Watch
<1>4. ASSUME NEW s \in Subs, Writer(s) PROVE Books' /\ StreamStep
  BY <1>4, TakeHeadStep, TakeFinalStep, TakeFifoStep, TakeFrameStep, ParkStep, WakeStep, StopStep,
     ExitStep DEF Writer
<1>5. ASSUME NEW s \in Subs, Write(s) PROVE Books' /\ StreamStep
  BY <1>5, WriteOkStep, WriteFailStep DEF Write
<1>6. ASSUME NEW a \in Actors, PublishEvent(a) \/ Publishing(a) PROVE Books' /\ StreamStep
  BY <1>6, PublishEventStep, PublishUnlockStep, PublishToStep, PublishKillStep DEF Publishing
<1>7. ASSUME NEW p \in Panes, ClosePane(p) \/ PaneClosed(p) \/ FramerStop(p)
      PROVE  Books' /\ StreamStep
  BY <1>7, UntouchedStep DEF ClosePane, PaneClosed, FramerStop, closeVars
<1>8. ASSUME NEW p \in Panes, Closing(p) PROVE Books' /\ StreamStep
  BY <1>7, <1>8, AnnounceClosedStep, PaneClosedToStep DEF Closing
<1>9. CASE FinalizeBegin \/ Finalizing
  BY <1>9, FinalizeBeginStep, FinalizeOnStep, FinalizeSubStep, FinalizeKillStep DEF Finalizing
<1>10. CASE UNCHANGED vars
  BY <1>10, UntouchedStep DEF vars
<1> QED BY <1>1, <1>2, <1>3, <1>4, <1>5, <1>6, <1>7, <1>8, <1>9, <1>10 DEF Next, Killing

\* What each peer reads is the stream MessageStream promises it, for every set of
\* subscribers, publishers and panes and every limit: begun by the aggregate, in the
\* order accepted, ended by the finals or cut short for a reason (enqueue, take, run,
\* finalize, kill).
THEOREM StreamsAreKept == Spec => ImplementsMessageStream
<1> DEFINE I == Inv /\ Streams /\ Books /\ Rested
<1>1. Init => I /\ Bus!StreamInit
  BY InitInv, InitStreams, InitBooks
<1>2. I /\ [Next]_vars => I' /\ [Bus!StreamNext]_PeerStreams
  <2> SUFFICES ASSUME I, [Next]_vars PROVE I' /\ [Bus!StreamNext]_PeerStreams
    OBVIOUS
  <2>1. Inv' /\ Streams'
    BY NextInv, NextStreams
  <2>2. Books' /\ StreamStep
    BY NextBooks
  <2>3. Rested'
    BY <2>2, RestedKeeps
  <2> QED BY <2>1, <2>2, <2>3 DEF StreamStep
<1> QED BY <1>1, <1>2, PTL DEF Spec, ImplementsMessageStream, Bus!StreamSpec
=============================================================================
