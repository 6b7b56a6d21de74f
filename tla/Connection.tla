----------------------------- MODULE Connection -----------------------------
(***************************************************************************)
(* One client connection and the goroutines that share it: the sinks of    *)
(* src/mux/sockconn.go, src/transport/httpapi/events.go and wsapi.go under *)
(* the hub's writer, src/hub/sub.go.                                       *)
(*                                                                         *)
(* The writer is the only goroutine that sends the hub's messages, but it  *)
(* does not have the connection to itself: the reader (an HTTP handler for *)
(* a stream) ends with it, on a WebSocket the reader and the pinger write  *)
(* control frames, and whoever publishes may have to close the sink while  *)
(* the writer is stuck in a write. The connection starts registered, its   *)
(* aggregate in the head: what comes before is module HubBus.              *)
(*                                                                         *)
(* External: the kernel. A peer that reads takes a write whole; one that   *)
(* does not holds it up with part of it sent, or none, until it reads      *)
(* again, goes away or the write deadline passes.                          *)
(***************************************************************************)
EXTENDS Integers, Sequences

CONSTANTS
    Kinds,      \* transports: "socket", "stream" (server-sent events), "ws"
    FifoMax,    \* fifoMaxMsgs
    MaxEvents,  \* bound: events published
    MaxSent     \* bound: messages the peer sends and pings it is sent

ASSUME ConnectionBounds ==
    /\ Kinds \subseteq {"socket", "stream", "ws"}
    /\ FifoMax \in Nat \ {0} /\ MaxEvents \in Nat /\ MaxSent \in Nat

VARIABLES
    kind,   \* the transport
    peer,   \* the client: "reads", "stalls" (reads nothing, answers nothing), "gone"
    inbox,  \* what the client has sent and nobody has read
    sent,   \* how much it has sent, the pings sent to it included
    part,   \* the last of the hub's messages on the wire is cut short
    spliced,  \* another followed it
    late,   \* the write deadline last set has passed
    fd,     \* the connection: "open", "half" (write side shut), "closed"
    lock,   \* who holds the sink's write lock: sseSink.mu, ws.Conn.wmu
    sub,    \* the Sub
    sink,   \* the sink's own state
    go,     \* where each goroutine stands
    events  \* published so far

vars == <<kind, peer, inbox, sent, part, spliced, late, fd, lock, sub, sink, go, events>>

\* The goroutines: the Sub's writer, the connection's reader or handler, the
\* WebSocket's pinger, whoever holds a Publish or Finalize, and the body of the
\* sink's Close, which runs once, on the goroutine that came first.
Threads == {"writer", "reader", "pinger", "hub", "closer"}
Nobody  == "nobody"

At(t, pc) == go[t].pc = pc
Goes(t, pc) == go' = [go EXCEPT ![t].pc = pc]

Control == {"ping", "pong", "close", "echo"}

Init ==
    /\ kind \in Kinds
    /\ peer = "reads" /\ inbox = <<>> /\ sent = 0
    /\ part = FALSE /\ spliced = FALSE /\ late = FALSE /\ fd = "open" /\ lock = Nobody
    /\ sub = [head |-> TRUE, fifo |-> 0, finals |-> <<>>, finalized |-> FALSE,
              closed |-> FALSE, dead |-> FALSE, torn |-> FALSE, failed |-> FALSE,
              reason |-> "", done |-> FALSE]
    /\ sink = [closed |-> FALSE, reason |-> "", peerGone |-> FALSE, readerDone |-> FALSE,
               gotClose |-> FALSE]
    /\ go = [t \in Threads |->
                [pc |-> CASE t = "writer" -> "take"
                          [] t = "reader" -> "read"
                          [] t = "pinger" /\ kind = "ws" -> "tick"
                          [] OTHER -> "idle",
                 msg |-> "", part |-> FALSE]]
    /\ events = 0

-----------------------------------------------------------------------------
(* The client and the clock.                                               *)

Stall == peer = "reads" /\ fd = "open" /\ peer' = "stalls"
         /\ UNCHANGED <<kind, inbox, sent, part, spliced, late, fd, lock, sub, sink, go, events>>
Resume == peer = "stalls" /\ fd = "open" /\ peer' = "reads"
          /\ UNCHANGED <<kind, inbox, sent, part, spliced, late, fd, lock, sub, sink, go, events>>
Leave == peer # "gone" /\ peer' = "gone"
         /\ UNCHANGED <<kind, inbox, sent, part, spliced, late, fd, lock, sub, sink, go, events>>

Says(m) ==
    /\ peer = "reads" /\ fd # "closed" /\ sent < MaxSent
    /\ kind = "ws" \/ (kind = "socket" /\ m = "line")
    /\ inbox' = Append(inbox, m) /\ sent' = sent + 1
    /\ UNCHANGED <<kind, peer, part, spliced, late, fd, lock, sub, sink, go, events>>

Writing(t) == go[t].pc \in {"write", "stuck"}

DeadlinePasses ==
    /\ ~late /\ late' = TRUE
    /\ \E t \in Threads : Writing(t)
    /\ UNCHANGED <<kind, peer, inbox, sent, part, spliced, fd, lock, sub, sink, go, events>>

-----------------------------------------------------------------------------
(* One write, by whoever makes it: it waits for the lock, then the kernel  *)
(* takes it whole, refuses it, or holds it up.                             *)

Because(s, why) == [s EXCEPT !.reason = IF @ = "" THEN why ELSE @]

SubClose(s) == IF s.closed \/ s.dead THEN s
               ELSE [Because(s, "ended") EXCEPT !.closed = TRUE]

Resting(pc) == [pc |-> pc, msg |-> "", part |-> FALSE]

\* Mutant: a stream says of a write that failed that nothing went out.
CleanStream(t, ok, some, epipe) ==
    /\ lock' = Nobody
    /\ sink' = [sink EXCEPT !.peerGone = @ \/ (kind = "socket" /\ epipe)]
    /\ \/ /\ t = "writer"
          /\ go' = [go EXCEPT ![t] = Resting("take")]
          /\ sub' = IF ok THEN sub
                    ELSE [Because(sub, "failed") EXCEPT
                             !.failed = TRUE, !.torn = @ \/ (some /\ kind # "stream")]
          /\ UNCHANGED fd
       \/ /\ t = "reader"
          /\ IF ok /\ go[t].msg = "pong"
             THEN go' = [go EXCEPT ![t] = Resting("read")] /\ UNCHANGED sub
             ELSE go' = [go EXCEPT ![t] = Resting("drain")] /\ sub' = SubClose(sub)
          /\ UNCHANGED fd
       \/ /\ t = "pinger"
          /\ go' = [go EXCEPT ![t] = Resting(IF ok THEN "tick" ELSE "over")]
          /\ UNCHANGED <<sub, fd>>
       \/ /\ t = "closer"
          /\ fd' = "closed"
          /\ go' = [go EXCEPT ![t] = Resting("over")]
          /\ UNCHANGED sub

\* What a write that is over leaves behind, for each of its makers. some says that
\* some of the message is out, or cannot be told not to be: every failure of a
\* stream counts as torn.
Wrote(t, ok, some, epipe) ==
    /\ lock' = Nobody
    /\ sink' = [sink EXCEPT !.peerGone = @ \/ (kind = "socket" /\ epipe)]
    /\ \/ /\ t = "writer"
          /\ go' = [go EXCEPT ![t] = Resting("take")]
          /\ sub' = IF ok THEN sub
                    ELSE [Because(sub, "failed") EXCEPT
                             !.failed = TRUE, !.torn = @ \/ some \/ kind = "stream"]
          /\ UNCHANGED fd
       \/ /\ t = "reader"
          /\ IF ok /\ go[t].msg = "pong"
             THEN go' = [go EXCEPT ![t] = Resting("read")] /\ UNCHANGED sub
             ELSE go' = [go EXCEPT ![t] = Resting("drain")] /\ sub' = SubClose(sub)
          /\ UNCHANGED fd
       \/ /\ t = "pinger"
          /\ go' = [go EXCEPT ![t] = Resting(IF ok THEN "tick" ELSE "over")]
          /\ UNCHANGED <<sub, fd>>
       \/ /\ t = "closer"
          /\ fd' = "closed"
          /\ go' = [go EXCEPT ![t] = Resting("over")]
          /\ UNCHANGED sub

Refused == fd # "open" \/ peer = "gone" \/ late \/ (kind = "stream" /\ sink.closed)

\* Some of t's message goes out, or the rest of it.
Puts(t, some, short) ==
    IF go[t].msg \in Control \/ ~some
    THEN UNCHANGED <<part, spliced>>
    ELSE /\ part' = short
         /\ spliced' = (spliced \/ (part /\ ~go[t].part))

Write(t) ==
    /\ At(t, "write") /\ lock = Nobody
    /\ \/ /\ Refused
          /\ Wrote(t, FALSE, FALSE, fd = "open" /\ peer = "gone")
          /\ UNCHANGED <<part, spliced>>
       \/ /\ ~Refused /\ peer = "reads"
          /\ Puts(t, TRUE, FALSE)
          /\ Wrote(t, TRUE, TRUE, FALSE)
       \/ /\ ~Refused /\ peer = "stalls"
          /\ \E some \in BOOLEAN :
                /\ Puts(t, some, TRUE)
                /\ go' = [go EXCEPT ![t].pc = "stuck", ![t].part = some]
          /\ lock' = t /\ UNCHANGED <<sub, sink, fd>>
    /\ UNCHANGED <<kind, peer, inbox, sent, late, events>>

Unstick(t) ==
    /\ At(t, "stuck")
    /\ \/ /\ fd # "open" \/ peer = "gone" \/ late
          /\ Wrote(t, FALSE, go[t].part, fd = "open" /\ peer = "gone")
          /\ UNCHANGED <<part, spliced>>
       \/ /\ fd = "open" /\ peer = "reads"
          /\ Puts(t, TRUE, FALSE)
          /\ Wrote(t, TRUE, TRUE, FALSE)
    /\ UNCHANGED <<kind, peer, inbox, sent, late, events>>

Starts(t, m) == go' = [go EXCEPT ![t] = [pc |-> "write", msg |-> m, part |-> FALSE]]

-----------------------------------------------------------------------------
(* Sink.Close. The first to come runs it, the others wait for it.          *)

Shuts(t, why) ==
    /\ go' = [go EXCEPT ![t].pc = "closing",
                        !["closer"].pc = IF @ = "idle" THEN "shut" ELSE @]
    /\ sink' = [sink EXCEPT !.reason = IF At("closer", "idle") THEN why ELSE @]

Shut(t) == At(t, "closing") /\ At("closer", "over")

\* Mutant: the whole connection is closed whoever hung up.
FullClose ==
    /\ At("closer", "shut") /\ kind = "socket"
    /\ fd' = "closed"
    /\ Goes("closer", "over")
    /\ UNCHANGED <<kind, peer, inbox, sent, part, spliced, late, lock, sub, sink, events>>

\* Close on a socket: the write side alone while a reader is still draining a
\* peer that hung up.
SocketClose ==
    /\ At("closer", "shut") /\ kind = "socket"
    /\ fd' = IF sink.peerGone /\ ~sink.readerDone THEN "half" ELSE "closed"
    /\ Goes("closer", "over")
    /\ UNCHANGED <<kind, peer, inbox, sent, part, spliced, late, lock, sub, sink, events>>

\* Mutant: closed is set without the lock that Write holds.
HastyClose ==
    /\ At("closer", "shut") /\ kind = "stream"
    /\ sink' = [sink EXCEPT !.closed = TRUE]
    /\ Goes("closer", "over")
    /\ UNCHANGED <<kind, peer, inbox, sent, part, spliced, late, fd, lock, sub, events>>

\* Close on a stream: it takes the lock a write holds.
StreamClose ==
    /\ At("closer", "shut") /\ kind = "stream" /\ lock = Nobody
    /\ sink' = [sink EXCEPT !.closed = TRUE]
    /\ Goes("closer", "over")
    /\ UNCHANGED <<kind, peer, inbox, sent, part, spliced, late, fd, lock, sub, events>>

\* closeCodeFor
GetsAFrame(why) == why # "failed"

\* Close on a WebSocket: a close frame within a second, unless the end was a
\* failed write or the peer's own close, then the connection.
WsClose ==
    /\ At("closer", "shut") /\ kind = "ws"
    /\ IF GetsAFrame(sink.reason) /\ ~sink.gotClose
       THEN Starts("closer", "close") /\ late' = FALSE /\ UNCHANGED fd
       ELSE Goes("closer", "over") /\ fd' = "closed" /\ UNCHANGED late
    /\ UNCHANGED <<kind, peer, inbox, sent, part, spliced, lock, sub, sink, events>>

-----------------------------------------------------------------------------
(* The Sub: Publish, kill, Close and the writer.                           *)

\* kill: the sink is closed on the goroutine that kills.
Kill(t, why) ==
    IF sub.dead
    THEN UNCHANGED <<sub, sink, go>>
    ELSE LET s == Because(sub, why) IN
         sub' = [s EXCEPT !.dead = TRUE] /\ Shuts(t, s.reason)

Publish ==
    /\ At("hub", "idle") /\ ~sub.finalized /\ ~sub.closed /\ ~sub.dead /\ events < MaxEvents
    /\ events' = events + 1
    /\ IF sub.fifo < FifoMax
       THEN sub' = [sub EXCEPT !.fifo = @ + 1] /\ UNCHANGED <<sink, go>>
       ELSE Kill("hub", "ended")
    /\ UNCHANGED <<kind, peer, inbox, sent, part, spliced, late, fd, lock>>

HubReturns ==
    /\ Shut("hub") /\ Goes("hub", "idle")
    /\ UNCHANGED <<kind, peer, inbox, sent, part, spliced, late, fd, lock, sub, sink, events>>

\* Finalize: the backlog goes, and the deadline of a write under way is cut.
Finalize ==
    /\ At("hub", "idle") /\ ~sub.finalized /\ ~sub.dead /\ ~sub.done
    /\ sub' = [sub EXCEPT !.finalized = TRUE, !.fifo = 0, !.finals = <<"results", "shutdown">>]
    /\ late' = FALSE
    /\ UNCHANGED <<kind, peer, inbox, sent, part, spliced, fd, lock, sink, go, events>>

\* Whoever is still open at Finalize's deadline, which is the finals' own.
FinalizeExpires ==
    /\ At("hub", "idle") /\ sub.finalized /\ ~sub.done /\ ~sub.dead
    /\ late /\ Len(sub.finals) < 2
    /\ Kill("hub", "ended")
    /\ UNCHANGED <<kind, peer, inbox, sent, part, spliced, late, fd, lock, events>>

Take ==
    /\ At("writer", "take")
    /\ \/ /\ sub.dead \/ sub.torn \/ (sub.failed /\ ~sub.finalized)
          /\ Shuts("writer", IF ~sub.dead /\ sub.torn THEN "failed" ELSE sub.reason)
          /\ UNCHANGED <<sub, late>>
       \/ /\ ~sub.dead /\ ~sub.torn /\ (sub.failed => sub.finalized)
          /\ IF sub.head
             THEN sub' = [sub EXCEPT !.head = FALSE] /\ Starts("writer", "aggregate")
                  /\ late' = FALSE /\ UNCHANGED sink
             ELSE IF sub.finals # <<>>
             THEN sub' = [sub EXCEPT !.finals = Tail(@)] /\ Starts("writer", Head(sub.finals))
                  /\ late' = FALSE /\ UNCHANGED sink
             ELSE IF sub.finalized
             THEN Shuts("writer", "ended") /\ UNCHANGED <<sub, late>>
             ELSE IF sub.fifo > 0
             THEN sub' = [sub EXCEPT !.fifo = @ - 1] /\ Starts("writer", "event")
                  /\ late' = FALSE /\ UNCHANGED sink
             ELSE sub.closed /\ Shuts("writer", sub.reason) /\ UNCHANGED <<sub, late>>
    /\ UNCHANGED <<kind, peer, inbox, sent, part, spliced, fd, lock, events>>

WriterEnds ==
    /\ Shut("writer")
    /\ Goes("writer", "over")
    /\ sub' = [sub EXCEPT !.done = TRUE]
    /\ UNCHANGED <<kind, peer, inbox, sent, part, spliced, late, fd, lock, sink, events>>

-----------------------------------------------------------------------------
(* The socket's reader: handleSocketConn's loop and its defer.             *)

ReadLine ==
    /\ At("reader", "read") /\ kind = "socket" /\ fd # "closed" /\ inbox # <<>>
    /\ inbox' = Tail(inbox)
    /\ UNCHANGED <<kind, peer, sent, part, spliced, late, fd, lock, sub, sink, go, events>>

SocketEnds ==
    /\ At("reader", "read") /\ kind = "socket"
    /\ fd = "closed" \/ (inbox = <<>> /\ peer = "gone")
    /\ sub' = SubClose(sub)
    /\ Goes("reader", "finish")
    /\ UNCHANGED <<kind, peer, inbox, sent, part, spliced, late, fd, lock, sink, events>>

\* Mutant: nobody closes a connection the writer half closed.
LeavesHalf ==
    /\ At("reader", "finish") /\ kind = "socket"
    /\ sink' = [sink EXCEPT !.readerDone = TRUE]
    /\ fd' = fd
    /\ Goes("reader", "over")
    /\ UNCHANGED <<kind, peer, inbox, sent, part, spliced, late, lock, sub, events>>

ReaderFinished ==
    /\ At("reader", "finish") /\ kind = "socket"
    /\ sink' = [sink EXCEPT !.readerDone = TRUE]
    /\ fd' = IF fd = "half" THEN "closed" ELSE fd
    /\ Goes("reader", "over")
    /\ UNCHANGED <<kind, peer, inbox, sent, part, spliced, late, lock, sub, events>>

-----------------------------------------------------------------------------
(* The stream's handler: handleEvents after it has started the Sub.        *)

StreamOver ==
    /\ At("reader", "read") /\ kind = "stream" /\ sub.done
    /\ Goes("reader", "over") /\ fd' = "closed"
    /\ UNCHANGED <<kind, peer, inbox, sent, part, spliced, late, lock, sub, sink, events>>

StreamGone ==
    /\ At("reader", "read") /\ kind = "stream" /\ peer = "gone"
    /\ sub' = SubClose(sub)
    /\ Goes("reader", "wait")
    /\ UNCHANGED <<kind, peer, inbox, sent, part, spliced, late, fd, lock, sink, events>>

StreamReturns ==
    /\ At("reader", "wait") /\ kind = "stream" /\ sink.closed
    /\ Goes("reader", "over") /\ fd' = "closed"
    /\ UNCHANGED <<kind, peer, inbox, sent, part, spliced, late, lock, sub, sink, events>>

-----------------------------------------------------------------------------
(* The WebSocket's reader, handleWS's end and the pinger.                  *)

\* A message: a ping is answered, a close echoed, text goes to the hub.
ReadFrame ==
    /\ At("reader", "read") /\ kind = "ws" /\ fd # "closed" /\ inbox # <<>>
    /\ inbox' = Tail(inbox)
    /\ sink' = [sink EXCEPT !.gotClose = @ \/ Head(inbox) = "close"]
    /\ IF Head(inbox) \in {"ping", "close"}
       THEN Starts("reader", IF Head(inbox) = "ping" THEN "pong" ELSE "echo") /\ late' = FALSE
       ELSE UNCHANGED <<go, late>>
    /\ UNCHANGED <<kind, peer, sent, part, spliced, fd, lock, sub, events>>

\* The read fails: the peer is gone, or magmux closed the connection, or the peer
\* said nothing within the read deadline.
WsEnds ==
    /\ At("reader", "read") /\ kind = "ws"
    /\ fd = "closed" \/ (inbox = <<>> /\ peer # "reads")
    /\ sub' = SubClose(sub)
    /\ Goes("reader", "drain")
    /\ UNCHANGED <<kind, peer, inbox, sent, part, spliced, late, fd, lock, sink, events>>

WsDrained ==
    /\ At("reader", "drain") /\ sub.done
    /\ Shuts("reader", "ended")
    /\ UNCHANGED <<kind, peer, inbox, sent, part, spliced, late, fd, lock, sub, events>>

WsReturns ==
    /\ Shut("reader") /\ Goes("reader", "over")
    /\ UNCHANGED <<kind, peer, inbox, sent, part, spliced, late, fd, lock, sub, sink, events>>

ReadLoopOver == go["reader"].pc \in {"drain", "closing", "over"}

\* keepalive
Ping ==
    /\ At("pinger", "tick") /\ ~sub.done /\ ~ReadLoopOver
    /\ \/ /\ peer # "reads" /\ Shuts("pinger", "ended")
          /\ UNCHANGED <<late, sent>>
       \/ /\ sent < MaxSent /\ sent' = sent + 1
          /\ late' = FALSE /\ Starts("pinger", "ping") /\ UNCHANGED sink
    /\ UNCHANGED <<kind, peer, inbox, part, spliced, fd, lock, sub, events>>

PingerEnds ==
    /\ Shut("pinger") \/ (At("pinger", "tick") /\ (sub.done \/ ReadLoopOver))
    /\ Goes("pinger", "over")
    /\ UNCHANGED <<kind, peer, inbox, sent, part, spliced, late, fd, lock, sub, sink, events>>

-----------------------------------------------------------------------------
Client    == Stall \/ Resume \/ Leave \/ \E m \in {"line", "ping", "close"} : Says(m)
Closing   == SocketClose \/ StreamClose \/ WsClose
Hub       == Publish \/ Finalize \/ FinalizeExpires \/ HubReturns
Writer    == Take \/ WriterEnds
Reader    == ReadLine \/ SocketEnds \/ ReaderFinished \/ StreamOver \/ StreamGone
             \/ StreamReturns \/ ReadFrame \/ WsEnds \/ WsDrained \/ WsReturns
Pinger    == Ping \/ PingerEnds

\* What magmux does of itself, given time.
Running == (\E t \in Threads : Write(t) \/ Unstick(t)) \/ DeadlinePasses \/ Closing \/ HubReturns
           \/ FinalizeExpires \/ Writer \/ Reader \/ Pinger

\* Nothing of Running can happen: each of its guards denied, thread by thread.
Quiescent ==
    /\ \A t \in Threads : /\ ~At(t, "stuck")
                          /\ At(t, "write") => lock # Nobody /\ late
    /\ \A t \in Threads \ {"closer"} : At(t, "closing") => ~At("closer", "over")
    /\ At("closer", "shut") => kind = "stream" /\ lock # Nobody
    /\ At("hub", "idle") /\ sub.finalized /\ ~sub.done /\ ~sub.dead
       => ~late \/ Len(sub.finals) = 2
    /\ At("writer", "take")
       => /\ ~sub.dead /\ ~sub.torn /\ ~sub.failed /\ ~sub.finalized /\ ~sub.closed
          /\ ~sub.head /\ sub.finals = <<>> /\ sub.fifo = 0
    /\ At("reader", "read")
       => IF kind = "stream" THEN ~sub.done /\ peer # "gone"
          ELSE /\ fd # "closed" /\ inbox = <<>>
               /\ IF kind = "ws" THEN peer = "reads" ELSE peer # "gone"
    /\ ~At("reader", "finish")
    /\ At("reader", "wait") => ~sink.closed
    /\ At("reader", "drain") => ~sub.done
    /\ At("pinger", "tick")
       => ~sub.done /\ ~ReadLoopOver /\ peer = "reads" /\ sent >= MaxSent

Next == Running \/ Client \/ Publish \/ Finalize
Spec == Init /\ [][Next]_vars

-----------------------------------------------------------------------------
(* Properties.                                                             *)

\* A final or an event never follows one of the hub's messages that was cut short:
\* the client could read neither (sub.go torn, and what each sink reports of a
\* failure). A control frame is not covered: see the README.
NothingFollowsATornMessage == ~spliced

\* Once a stream's handler has returned, nobody writes to its ResponseWriter, in
\* whatever order the client left and the hub wrote and closed (sseSink.mu, done).
ResponseIsLetGo ==
    kind = "stream" /\ At("reader", "over")
    => ~At("writer", "stuck") /\ (At("writer", "write") => sink.closed)

\* A client that sends its lines and hangs up at once is heard out: the failed write
\* that tells the writer so does not take the lines the reader still has to read.
LinesOutliveTheirSender == At("reader", "over") /\ sink.peerGone => inbox = <<>>

\* The connection is not taken from a goroutine that still uses it: a stream's handler
\* waits for the write in progress, a writer that meets EPIPE leaves the reader its half.
HeldWhileInUse == ResponseIsLetGo /\ LinesOutliveTheirSender

\* However the connection ends - the client left, the hub killed it, a write failed,
\* the session is over - everyone involved comes out of it: the connection is
\* closed, its writer is done, no lock is held and no goroutine is left behind,
\* a Publish that had to close it included.
EveryoneLetsGo ==
    /\ peer = "gone" \/ sub.dead \/ sub.closed \/ sub.failed \/ sub.finalized
    /\ Quiescent
    => /\ fd = "closed" /\ sub.done /\ lock = Nobody
       /\ \A t \in Threads : go[t].pc \in {"over", "idle"}

\* "It never blocks", says Publish (src/hub/hub.go:409): a client that has stopped
\* reading costs nobody else anything. Violated: the sink whose queue overflows is
\* closed on the publisher's own goroutine, and the Close of a stream or of a
\* WebSocket waits for the write that is stuck.
PublishNeverBlocks ==
    ~(At("hub", "closing") /\ ~sub.finalized /\ kind # "socket" /\ lock # Nobody
      /\ go["closer"].pc \in {"shut", "write"})
=============================================================================
