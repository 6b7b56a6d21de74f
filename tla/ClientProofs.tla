---------------------------- MODULE ClientProofs ----------------------------
(***************************************************************************)
(* Theorems about what a client has on magmux's side: its connection, for  *)
(* every transport and any bounds (Connection), and the turn it waits for, *)
(* for any number of turns and instructions (Turns).                       *)
(*                                                                         *)
(* The connection: nothing of the hub's follows a message that was cut     *)
(* short, the connection is not taken from a goroutine that still uses it, *)
(* and whenever it ends everyone comes out of it.  None is inductive.  IInv*)
(* says where each goroutine may stand on each transport (Stands), that a  *)
(* write that is stuck holds the lock (OneWrites), whose the half message  *)
(* on the wire is and what stops the writer after it (Whole), what a       *)
(* stream's handler has waited for before it returns (LetGo), and why a    *)
(* socket's reader stopped (HeardOut).  Parting says what each has left    *)
(* behind when it stops: the reader an ended Sub, the writer a Close that  *)
(* is over, Close a connection that is shut.                               *)
(*                                                                         *)
(* The turn: its answer is not stale, it is over when it is said to be, and*)
(* nobody is left waiting for it.  TurnIInv follows the news of the pane   *)
(* from the controller to the client, in order.  Heard(p) is the p-th piece*)
(* of it: what the client knows, what is on the wire, what a poll has      *)
(* concluded and not yet sent.  News of rest that comes after news of work *)
(* is of the turn's end (LateIsOver) and is never followed by news of work *)
(* (RestIsLast).  That holds because once work is heard of nothing hints at*)
(* rest while the tool is at work (WorkShows, WorkIsNew), because a poll   *)
(* looks at the pane having read what it will read again (Caught, Signs),  *)
(* and because between two turns a controller that says the tool awaits    *)
(* input keeps saying it (Between).                                        *)
(***************************************************************************)
EXTENDS Connection, Turns, FiniteSetTheorems, WellFoundedInduction, TLAPS

-----------------------------------------------------------------------------
(* The connection.                                                         *)
Places == {"take", "read", "tick", "idle", "write", "stuck", "closing", "shut", "drain", "wait",
           "finish", "over"}
Data   == {"aggregate", "results", "shutdown", "event"}
Stages == [pc : Places, msg : {""} \cup Data \cup Control, part : BOOLEAN]
Why    == {"", "ended", "failed"}
Finals == {<<>>, <<"shutdown">>, <<"results", "shutdown">>}

SubType ==
    sub \in [head : BOOLEAN, fifo : Nat, finals : Finals, finalized : BOOLEAN,
             closed : BOOLEAN, dead : BOOLEAN, torn : BOOLEAN, failed : BOOLEAN,
             reason : Why, done : BOOLEAN]
SinkType ==
    sink \in [closed : BOOLEAN, reason : Why, peerGone : BOOLEAN, readerDone : BOOLEAN,
              gotClose : BOOLEAN]
WireType ==
    /\ kind \in {"socket", "stream", "ws"} /\ peer \in {"reads", "stalls", "gone"}
    /\ inbox \in Seq({"line", "ping", "close"}) /\ sent \in Nat /\ events \in Nat
    /\ part \in BOOLEAN /\ spliced \in BOOLEAN /\ late \in BOOLEAN
    /\ fd \in {"open", "half", "closed"} /\ lock \in Threads \cup {Nobody}
GoType == go \in [Threads -> Stages]

TypeOK == WireType /\ GoType /\ SubType /\ SinkType

\* Where each goroutine may stand, on each transport; only the writer sends
\* the hub's messages.
Stands ==
    /\ go["writer"].pc \in {"take", "write", "stuck", "closing", "over"}
    /\ go["hub"].pc \in {"idle", "closing"}
    /\ kind = "socket" => go["reader"].pc \in {"read", "finish", "over"}
    /\ kind = "stream" => go["reader"].pc \in {"read", "wait", "over"}
    /\ kind = "ws" => go["reader"].pc \in {"read", "write", "stuck", "drain", "closing", "over"}
    /\ kind = "ws" => go["pinger"].pc \in {"tick", "write", "stuck", "closing", "over"}
    /\ kind # "ws" => go["pinger"].pc = "idle"
    /\ go["closer"].pc \in {"idle", "shut", "write", "stuck", "over"}
    /\ kind # "ws" => go["closer"].pc \in {"idle", "shut", "over"}
    /\ \A t \in Threads : Writing(t) => (go[t].msg \in Control <=> t # "writer")

\* A write that is stuck holds the lock, and nothing else does.
OneWrites == \A t \in Threads : At(t, "stuck") <=> lock = t

\* A message is cut short while its write is stuck, or for good, and then the
\* writer knows.
Whole ==
    /\ At("writer", "write") => ~part /\ ~sub.torn /\ ~go["writer"].part
    /\ At("writer", "stuck") => ~sub.torn /\ (part <=> go["writer"].part)
    /\ part => sub.torn \/ At("writer", "stuck")
    /\ ~spliced

\* A stream is closed, or its writer done, before its handler has returned.
LetGo ==
    /\ kind = "stream" /\ sink.closed => ~At("writer", "stuck")
    /\ sub.done => At("writer", "over")
    /\ kind = "stream" /\ At("reader", "over") => sink.closed \/ sub.done

\* A socket's reader stops at the end of what the peer sent, or because magmux
\* closed the connection of a peer that had not hung up.
HeardOut ==
    /\ sink.peerGone => kind = "socket"
    /\ sink.readerDone => At("reader", "over")
    /\ kind = "socket" /\ At("reader", "read") /\ fd = "closed" => ~sink.peerGone
    /\ kind = "socket" /\ go["reader"].pc \in {"finish", "over"}
       => \/ fd = "closed" /\ ~sink.peerGone
          \/ inbox = <<>> /\ peer = "gone"

IInv == TypeOK /\ Stands /\ OneWrites /\ Whole /\ LetGo /\ HeardOut

-----------------------------------------------------------------------------
(* What a step does to where a goroutine stands.                           *)

\* Everyone but t stands where it did.
OthersStay(t) == \A u \in Threads : u # t => go'[u] = go[u]

\* t, and nobody else, moves.
Moves(t, pc, msg, cut) ==
    /\ GoType' /\ OthersStay(t)
    /\ go'[t].pc = pc /\ go'[t].msg = msg /\ go'[t].part = cut

LEMMA GoesMoves ==
    ASSUME GoType, NEW t \in Threads, NEW pc \in Places, Goes(t, pc)
    PROVE  Moves(t, pc, go[t].msg, go[t].part)
<1> DEFINE r == [go[t] EXCEPT !.pc = pc]
<1>1. go[t] \in Stages BY DEF GoType
<1>2. r \in Stages /\ r.pc = pc /\ r.msg = go[t].msg /\ r.part = go[t].part
  BY <1>1 DEF Stages
<1>3. go' = [go EXCEPT ![t] = r] BY DEF Goes
<1> HIDE DEF r
<1> QED BY <1>2, <1>3 DEF Moves, OthersStay, GoType

LEMMA StartsMoves ==
    ASSUME GoType, NEW t \in Threads, NEW m \in Data \cup Control, Starts(t, m)
    PROVE  Moves(t, "write", m, FALSE)
<1> DEFINE r == [pc |-> "write", msg |-> m, part |-> FALSE]
<1>1. r \in Stages /\ r.pc = "write" /\ r.msg = m /\ r.part = FALSE BY DEF Stages, Places
<1>2. go' = [go EXCEPT ![t] = r] BY DEF Starts
<1> HIDE DEF r
<1> QED BY <1>1, <1>2 DEF Moves, OthersStay, GoType

LEMMA RestsMoves ==
    ASSUME GoType, NEW t \in Threads, NEW pc \in Places, go' = [go EXCEPT ![t] = Resting(pc)]
    PROVE  Moves(t, pc, "", FALSE)
<1> DEFINE r == Resting(pc)
<1>1. r \in Stages /\ r.pc = pc /\ r.msg = "" /\ r.part = FALSE BY DEF Stages, Resting
<1>2. go' = [go EXCEPT ![t] = r] OBVIOUS
<1> HIDE DEF r
<1> QED BY <1>1, <1>2 DEF Moves, OthersStay, GoType

LEMMA SticksMoves ==
    ASSUME GoType, NEW t \in Threads, NEW some \in BOOLEAN,
           go' = [go EXCEPT ![t].pc = "stuck", ![t].part = some]
    PROVE  Moves(t, "stuck", go[t].msg, some)
<1> DEFINE q == [go[t] EXCEPT !.pc = "stuck"]
           r == [q EXCEPT !.part = some]
           g == [go EXCEPT ![t] = q]
<1>1. go[t] \in Stages BY DEF GoType
<1>2. r \in Stages /\ r.pc = "stuck" /\ r.msg = go[t].msg /\ r.part = some
  BY <1>1 DEF Stages, Places
<1>3. g[t] = q BY DEF GoType
<1>4. go' = [g EXCEPT ![t] = [g[t] EXCEPT !.part = some]] OBVIOUS
<1>5. go' = [g EXCEPT ![t] = r] BY <1>3, <1>4
<1>6. g \in [Threads -> Stages] /\ \A u \in Threads : u # t => g[u] = go[u]
  BY <1>1 DEF Stages, Places, GoType
<1> HIDE DEF q, r, g
<1> QED BY <1>2, <1>5, <1>6 DEF Moves, OthersStay, GoType

\* t closes the sink: it waits, and the body of Close starts unless it has.
Closes(t) ==
    /\ GoType' /\ \A u \in Threads \ {t, "closer"} : go'[u] = go[u]
    /\ go'[t].pc = "closing" /\ go'[t].msg = go[t].msg /\ go'[t].part = go[t].part
    /\ go'["closer"].pc = (IF At("closer", "idle") THEN "shut" ELSE go["closer"].pc)
    /\ go'["closer"].msg = go["closer"].msg /\ go'["closer"].part = go["closer"].part

\* The sink's state but for why it is closed.
SinkStays ==
    /\ SinkType' /\ sink'.closed = sink.closed /\ sink'.peerGone = sink.peerGone
    /\ sink'.readerDone = sink.readerDone

LEMMA ShutsCloses ==
    ASSUME GoType, SinkType, NEW t \in Threads \ {"closer"}, NEW why \in Why, Shuts(t, why)
    PROVE  Closes(t) /\ SinkStays
<1> DEFINE r == [go[t] EXCEPT !.pc = "closing"]
           c == [go["closer"] EXCEPT !.pc = IF @ = "idle" THEN "shut" ELSE @]
<1>1. go[t] \in Stages /\ go["closer"] \in Stages BY DEF GoType, Threads
<1>2. r \in Stages /\ r.pc = "closing" /\ r.msg = go[t].msg /\ r.part = go[t].part
  BY <1>1 DEF Stages, Places
<1>3. /\ c \in Stages /\ c.msg = go["closer"].msg /\ c.part = go["closer"].part
      /\ c.pc = IF At("closer", "idle") THEN "shut" ELSE go["closer"].pc
  BY <1>1 DEF Stages, Places, At
<1>4. go' = [go EXCEPT ![t] = r, !["closer"] = c] BY DEF Shuts, GoType
<1> HIDE DEF r, c
<1>5. Closes(t) BY <1>2, <1>3, <1>4 DEF Closes, GoType, Threads
<1>6. SinkStays BY DEF Shuts, SinkStays, SinkType
<1> QED BY <1>5, <1>6

\* What matters of a change to the Sub.
SubKeeps(torn) == SubType' /\ (sub'.torn <=> torn) /\ (sub'.done <=> sub.done)

LEMMA BecauseKeeps ==
    ASSUME SubType, NEW why \in Why, NEW s, s = Because(sub, why)
    PROVE  /\ s \in [head : BOOLEAN, fifo : Nat, finals : Finals, finalized : BOOLEAN,
                     closed : BOOLEAN, dead : BOOLEAN, torn : BOOLEAN, failed : BOOLEAN,
                     reason : Why, done : BOOLEAN]
           /\ s.torn = sub.torn /\ s.done = sub.done
  BY DEF SubType, Because

LEMMA SubClosesKeeps == ASSUME SubType, sub' = SubClose(sub) PROVE SubKeeps(sub.torn)
<1>1. CASE sub.closed \/ sub.dead BY <1>1 DEF SubClose, SubKeeps, SubType
<1>2. CASE ~(sub.closed \/ sub.dead)
  <2>1. PICK s : s = Because(sub, "ended") OBVIOUS
  <2>2. sub' = [s EXCEPT !.closed = TRUE] BY <1>2, <2>1 DEF SubClose
  <2>3. /\ s \in [head : BOOLEAN, fifo : Nat, finals : Finals, finalized : BOOLEAN,
                  closed : BOOLEAN, dead : BOOLEAN, torn : BOOLEAN, failed : BOOLEAN,
                  reason : Why, done : BOOLEAN]
        /\ s.torn = sub.torn /\ s.done = sub.done
    BY <2>1, BecauseKeeps DEF Why
  <2> QED BY <2>2, <2>3 DEF SubKeeps, SubType
<1> QED BY <1>1, <1>2

LEMMA FailsKeeps ==
    ASSUME SubType, NEW some \in BOOLEAN,
           sub' = [Because(sub, "failed") EXCEPT
                      !.failed = TRUE, !.torn = @ \/ some \/ kind = "stream"]
    PROVE  SubKeeps(sub.torn \/ some \/ kind = "stream")
<1>1. "failed" \in Why BY DEF Why
<1>2. PICK s : s = Because(sub, "failed") OBVIOUS
<1>3. /\ s \in [head : BOOLEAN, fifo : Nat, finals : Finals, finalized : BOOLEAN,
                closed : BOOLEAN, dead : BOOLEAN, torn : BOOLEAN, failed : BOOLEAN,
                reason : Why, done : BOOLEAN]
      /\ s.torn = sub.torn /\ s.done = sub.done
  BY <1>1, <1>2, BecauseKeeps
<1>4. sub' = [s EXCEPT !.failed = TRUE, !.torn = s.torn \/ some \/ kind = "stream"] BY <1>2
<1> QED BY <1>3, <1>4 DEF SubKeeps, SubType

-----------------------------------------------------------------------------
(* What a write that is over leaves behind.                                *)

\* t's write is over: what Wrote leaves, as far as IInv tells it apart.
Ends(t, torn, epipe) ==
    /\ lock' = Nobody /\ SubKeeps(torn)
    /\ SinkType' /\ sink'.closed = sink.closed /\ sink'.readerDone = sink.readerDone
    /\ sink'.peerGone <=> sink.peerGone \/ (kind = "socket" /\ epipe)
    /\ fd' = (IF t = "closer" THEN "closed" ELSE fd)
    /\ \E pc \in (CASE t = "writer" -> {"take"}
                   [] t = "reader" -> {"read", "drain"}
                   [] t = "pinger" -> {"tick", "over"}
                   [] OTHER -> {"over"}) : Moves(t, pc, "", FALSE)

LEMMA WroteEnds ==
    ASSUME TypeOK, NEW t \in Threads, NEW ok \in BOOLEAN, NEW some \in BOOLEAN,
           NEW epipe \in BOOLEAN, Wrote(t, ok, some, epipe)
    PROVE  /\ Ends(t, sub.torn \/ (t = "writer" /\ ~ok /\ (some \/ kind = "stream")), epipe)
           /\ t # "hub"
<1> USE DEF Wrote
<1>1. /\ SinkType' /\ sink'.closed = sink.closed /\ sink'.readerDone = sink.readerDone
      /\ sink'.peerGone <=> sink.peerGone \/ (kind = "socket" /\ epipe)
  BY DEF TypeOK, SinkType
<1>2. CASE t = "writer"
  <2>1. go' = [go EXCEPT ![t] = Resting("take")] /\ fd' = fd /\ lock' = Nobody BY <1>2
  <2>2. Moves(t, "take", "", FALSE) BY <2>1, RestsMoves DEF TypeOK, Places
  <2>3. CASE ok
    <3>1. sub' = sub BY <1>2, <2>3
    <3> QED BY <1>1, <1>2, <2>1, <2>2, <2>3, <3>1 DEF Ends, SubKeeps, TypeOK, SubType
  <2>4. CASE ~ok
    <3>1. SubKeeps(sub.torn \/ some \/ kind = "stream") BY <1>2, <2>4, FailsKeeps DEF TypeOK
    <3>2. SubKeeps(sub.torn \/ (t = "writer" /\ ~ok /\ (some \/ kind = "stream")))
      BY <1>2, <2>4, <3>1 DEF SubKeeps
    <3> QED BY <1>1, <1>2, <2>1, <2>2, <3>2 DEF Ends
  <2> QED BY <2>3, <2>4
<1>3. CASE t = "reader"
  <2>1. PICK pc \in {"read", "drain"} : go' = [go EXCEPT ![t] = Resting(pc)]
    BY <1>3
  <2>2. Moves(t, pc, "", FALSE) BY <2>1, RestsMoves DEF TypeOK, Places
  <2>3. fd' = fd /\ lock' = Nobody /\ (sub' = sub \/ sub' = SubClose(sub)) BY <1>3
  <2>4. SubKeeps(sub.torn) BY <2>3, SubClosesKeeps DEF TypeOK, SubKeeps, SubType
  <2> QED BY <1>1, <1>3, <2>1, <2>2, <2>3, <2>4 DEF Ends, SubKeeps
<1>4. CASE t = "pinger"
  <2>1. PICK pc \in {"tick", "over"} : go' = [go EXCEPT ![t] = Resting(pc)]
    BY <1>4
  <2>2. Moves(t, pc, "", FALSE) BY <2>1, RestsMoves DEF TypeOK, Places
  <2>3. fd' = fd /\ lock' = Nobody /\ sub' = sub BY <1>4
  <2>4. SubKeeps(sub.torn) BY <2>3 DEF TypeOK, SubKeeps, SubType
  <2> QED BY <1>1, <1>4, <2>1, <2>2, <2>3, <2>4 DEF Ends, SubKeeps
<1>5. CASE t = "closer"
  <2>1. go' = [go EXCEPT ![t] = Resting("over")] /\ fd' = "closed" /\ lock' = Nobody
        /\ sub' = sub
    BY <1>5
  <2>2. Moves(t, "over", "", FALSE) BY <2>1, RestsMoves DEF TypeOK, Places
  <2>4. SubKeeps(sub.torn) BY <2>1 DEF TypeOK, SubKeeps, SubType
  <2> QED BY <1>1, <1>5, <2>1, <2>2, <2>4 DEF Ends, SubKeeps
<1> QED BY <1>2, <1>3, <1>4, <1>5 DEF Threads

\* A write touches neither the client nor the bounds.
Aside == UNCHANGED <<kind, peer, inbox, sent, late, events>>

LEMMA AWritersPlace ==
    ASSUME TypeOK, Stands, NEW t \in Threads, Writing(t)
    PROVE  /\ t # "hub" /\ (t = "writer" \/ kind = "ws")
           /\ go[t].msg \in Control <=> t # "writer"
  BY DEF Stands, Writing, Threads, TypeOK, WireType

\* A write is over, refused, failed or whole: the wire is judged by Whole.
LEMMA WriteEndsInv ==
    ASSUME IInv, NEW t \in Threads, Writing(t), lock \in {Nobody, t}, NEW torn \in BOOLEAN,
           NEW epipe \in BOOLEAN, epipe => fd = "open" /\ peer = "gone",
           Ends(t, torn, epipe), part' \in BOOLEAN, spliced' \in BOOLEAN, Aside
    PROVE  TypeOK' /\ Stands' /\ OneWrites' /\ LetGo' /\ HeardOut'
<1> USE DEF IInv
<1>1. t # "hub" /\ (t = "writer" \/ kind = "ws") BY AWritersPlace
<1>2. PICK pc \in Places : /\ Moves(t, pc, "", FALSE)
                           /\ t = "writer" => pc = "take"
                           /\ t = "reader" => pc \in {"read", "drain"}
                           /\ t = "pinger" => pc \in {"tick", "over"}
                           /\ t = "closer" => pc = "over"
  BY <1>1 DEF Ends, Threads, Places
<1>3. GoType' /\ go'[t].pc = pc /\ \A u \in Threads : u # t => go'[u] = go[u]
  BY <1>2 DEF Moves, OthersStay
<1>4. /\ lock' = Nobody /\ SubType' /\ (sub'.done <=> sub.done)
      /\ SinkType' /\ sink'.closed = sink.closed /\ sink'.readerDone = sink.readerDone
      /\ sink'.peerGone <=> sink.peerGone \/ (kind = "socket" /\ epipe)
      /\ fd' = (IF t = "closer" THEN "closed" ELSE fd)
  BY DEF Ends, SubKeeps
<1>5. UNCHANGED <<kind, peer, inbox, sent, late, events>> BY DEF Aside
<1>6. TypeOK' BY <1>3, <1>4, <1>5 DEF TypeOK, WireType
<1>7. Stands' BY <1>1, <1>2, <1>3, <1>5 DEF Stands, Writing, Threads
<1>8. OneWrites'
  <2>1. go'[t].pc # "stuck" BY <1>2, <1>3, <1>1 DEF Threads
  <2>2. \A u \in Threads : u # t => go'[u].pc # "stuck" BY <1>3 DEF OneWrites, At, Nobody, Threads
  <2>3. lock' \notin Threads BY <1>4 DEF Nobody, Threads
  <2> QED BY <2>1, <2>2, <2>3 DEF OneWrites, At
<1>9. LetGo'
  BY <1>1, <1>2, <1>3, <1>4, <1>5 DEF LetGo, At, Writing, Threads, Stands
<1>10. HeardOut'
  BY <1>1, <1>2, <1>3, <1>4, <1>5 DEF HeardOut, At, Writing, Threads, Stands
<1> QED BY <1>6, <1>7, <1>8, <1>9, <1>10

LEMMA FailedWriteInv ==
    ASSUME IInv, NEW t \in Threads, Writing(t), lock \in {Nobody, t}, NEW some \in BOOLEAN,
           At(t, "stuck") => some = go[t].part, NEW epipe \in BOOLEAN,
           epipe => fd = "open" /\ peer = "gone",
           Wrote(t, FALSE, some, epipe), UNCHANGED <<part, spliced>>, Aside
    PROVE  IInv'
<1> USE DEF IInv
<1> DEFINE torn == sub.torn \/ (t = "writer" /\ (some \/ kind = "stream"))
<1>1. Ends(t, torn, epipe) BY WroteEnds
<1>2. torn \in BOOLEAN BY DEF TypeOK, SubType
<1> HIDE DEF torn
<1>3. TypeOK' /\ Stands' /\ OneWrites' /\ LetGo' /\ HeardOut'
  BY <1>1, <1>2, WriteEndsInv DEF TypeOK, WireType
<1>4. Whole'
  <2>1. sub'.torn <=> torn BY <1>1 DEF Ends, SubKeeps
  <2>2. \A u \in Threads : u # t => go'[u] = go[u]
    BY <1>1, AWritersPlace DEF Ends, Moves, OthersStay
  <2>3. t = "writer" => go'["writer"].pc = "take" BY <1>1 DEF Ends, Moves
  <2>4. "writer" \in Threads BY DEF Threads
  <2>5. CASE t = "writer"
    BY <2>1, <2>3, <2>5 DEF Whole, At, Writing, torn
  <2>6. CASE t # "writer"
    BY <2>1, <2>2, <2>4, <2>6 DEF Whole, At, torn
  <2> QED BY <2>5, <2>6
<1> QED BY <1>3, <1>4

LEMMA WholeWriteInv ==
    ASSUME IInv, NEW t \in Threads, Writing(t), lock \in {Nobody, t},
           Wrote(t, TRUE, TRUE, FALSE), Puts(t, TRUE, FALSE), Aside
    PROVE  IInv'
<1> USE DEF IInv
<1>1. Ends(t, sub.torn, FALSE)
  <2>1. Ends(t, sub.torn \/ (t = "writer" /\ ~TRUE /\ (TRUE \/ kind = "stream")), FALSE)
    BY WroteEnds
  <2> QED BY <2>1 DEF Ends, SubKeeps
<1>2. part' \in BOOLEAN /\ spliced' \in BOOLEAN BY DEF Puts, TypeOK, WireType
<1>3. TypeOK' /\ Stands' /\ OneWrites' /\ LetGo' /\ HeardOut'
  BY <1>1, <1>2, WriteEndsInv DEF TypeOK, SubType
<1>4. Whole'
  <2>1. sub'.torn <=> sub.torn BY <1>1 DEF Ends, SubKeeps
  <2>2. \A u \in Threads : u # t => go'[u] = go[u]
    BY <1>1, AWritersPlace DEF Ends, Moves, OthersStay
  <2>3. t = "writer" => go'["writer"].pc = "take" BY <1>1 DEF Ends, Moves
  <2>4. "writer" \in Threads BY DEF Threads
  <2>5. go[t].msg \in Control <=> t # "writer" BY AWritersPlace
  <2>6. CASE t = "writer"
    BY <2>1, <2>3, <2>5, <2>6 DEF Whole, At, Writing, Puts
  <2>7. CASE t # "writer"
    BY <2>1, <2>2, <2>4, <2>5, <2>7 DEF Whole, At, Puts
  <2> QED BY <2>6, <2>7
<1> QED BY <1>3, <1>4

\* A write that is held up takes the lock.
LEMMA StuckWriteInv ==
    ASSUME IInv, NEW t \in Threads, At(t, "write"), lock = Nobody, ~Refused,
           NEW some \in BOOLEAN, Puts(t, some, TRUE), Moves(t, "stuck", go[t].msg, some),
           lock' = t, UNCHANGED <<sub, sink, fd>>, Aside
    PROVE  IInv'
<1> USE DEF IInv
<1>1. Writing(t) BY DEF At, Writing
<1>2. t # "hub" /\ (t = "writer" \/ kind = "ws") /\ (go[t].msg \in Control <=> t # "writer")
  BY <1>1, AWritersPlace
<1>3. /\ GoType' /\ go'[t].pc = "stuck" /\ go'[t].msg = go[t].msg /\ go'[t].part = some
      /\ \A u \in Threads : u # t => go'[u] = go[u]
  BY DEF Moves, OthersStay
<1>4. UNCHANGED <<kind, peer, inbox, sent, late, events>> BY DEF Aside
<1>5. part' \in BOOLEAN /\ spliced' \in BOOLEAN BY DEF Puts, TypeOK, WireType
<1>6. TypeOK' BY <1>3, <1>4, <1>5 DEF TypeOK, WireType, SubType, SinkType
<1>7. Stands' BY <1>1, <1>2, <1>3, <1>4 DEF Stands, Writing, Threads
<1>8. OneWrites'
  <2>1. \A u \in Threads : u # t => go'[u].pc # "stuck" BY <1>3 DEF OneWrites, At, Nobody, Threads
  <2> QED BY <1>3, <2>1 DEF OneWrites, At
<1>9. LetGo' BY <1>1, <1>2, <1>3, <1>4 DEF LetGo, At, Threads, Refused
<1>10. HeardOut' BY <1>1, <1>2, <1>3, <1>4 DEF HeardOut, At, Threads
<1>11. Whole'
  <2>1. "writer" \in Threads BY DEF Threads
  <2>2. CASE t = "writer" BY <1>2, <1>3, <2>2 DEF Whole, At, Puts
  <2>3. CASE t # "writer" BY <1>2, <1>3, <2>1, <2>3 DEF Whole, At, Puts
  <2> QED BY <2>2, <2>3
<1> QED BY <1>6, <1>7, <1>8, <1>9, <1>10, <1>11

LEMMA WriteInv == ASSUME IInv, NEW t \in Threads, Write(t) PROVE IInv'
<1> USE DEF IInv
<1>1. At(t, "write") /\ Writing(t) /\ lock = Nobody /\ Aside BY DEF Write, At, Writing, Aside
<1>2. CASE Refused /\ Wrote(t, FALSE, FALSE, fd = "open" /\ peer = "gone")
           /\ UNCHANGED <<part, spliced>>
  BY <1>1, <1>2, FailedWriteInv DEF At
<1>3. CASE Puts(t, TRUE, FALSE) /\ Wrote(t, TRUE, TRUE, FALSE)
  BY <1>1, <1>3, WholeWriteInv
<1>4. ASSUME ~Refused, NEW some \in BOOLEAN, Puts(t, some, TRUE),
             go' = [go EXCEPT ![t].pc = "stuck", ![t].part = some],
             lock' = t, UNCHANGED <<sub, sink, fd>>
      PROVE  IInv'
  <2>1. Moves(t, "stuck", go[t].msg, some) BY <1>4, SticksMoves DEF TypeOK
  <2> QED BY <1>1, <1>4, <2>1, StuckWriteInv
<1> QED BY <1>2, <1>3, <1>4 DEF Write

LEMMA UnstickInv == ASSUME IInv, NEW t \in Threads, Unstick(t) PROVE IInv'
<1> USE DEF IInv
<1>1. At(t, "stuck") /\ Writing(t) /\ lock = t /\ Aside
  BY DEF Unstick, At, Writing, Aside, OneWrites
<1>2. CASE Wrote(t, FALSE, go[t].part, fd = "open" /\ peer = "gone") /\ UNCHANGED <<part, spliced>>
  <2>1. go[t].part \in BOOLEAN BY DEF TypeOK, GoType, Stages
  <2> QED BY <1>1, <1>2, <2>1, FailedWriteInv
<1>3. CASE Puts(t, TRUE, FALSE) /\ Wrote(t, TRUE, TRUE, FALSE)
  BY <1>1, <1>3, WholeWriteInv
<1> QED BY <1>2, <1>3 DEF Unstick

-----------------------------------------------------------------------------
(* The other steps.                                                        *)

LEMMA ClientInv ==
    ASSUME IInv, Client \/ DeadlinePasses
    PROVE  IInv'
<1> USE DEF IInv
<1>1. UNCHANGED <<kind, part, spliced, fd, lock, sub, sink, go, events>>
  BY DEF Client, Stall, Resume, Leave, Says, DeadlinePasses
<1>2. /\ peer' \in {"reads", "stalls", "gone"} /\ sent' \in Nat /\ late' \in BOOLEAN
      /\ inbox' \in Seq({"line", "ping", "close"})
  <2>1. inbox \in Seq({"line", "ping", "close"}) /\ sent \in Nat /\ late \in BOOLEAN
        /\ peer \in {"reads", "stalls", "gone"}
    BY DEF TypeOK, WireType
  <2>2. CASE Stall \/ Resume \/ Leave BY <2>1, <2>2 DEF Stall, Resume, Leave
  <2>3. ASSUME NEW m \in {"line", "ping", "close"}, Says(m)
        PROVE  /\ UNCHANGED <<peer, late>> /\ sent' \in Nat
               /\ inbox' \in Seq({"line", "ping", "close"})
    BY <2>1, <2>3 DEF Says
  <2>4. CASE DeadlinePasses BY <2>1, <2>4 DEF DeadlinePasses
  <2> QED BY <2>1, <2>2, <2>3, <2>4 DEF Client
<1>3. /\ peer = "gone" => peer' = "gone" /\ inbox' = inbox
      /\ fd = "closed" => inbox' = inbox
  BY DEF Client, Stall, Resume, Leave, Says, DeadlinePasses
<1>4. TypeOK' BY <1>1, <1>2 DEF TypeOK, WireType, GoType, SubType, SinkType
<1>5. Stands' /\ OneWrites' /\ Whole' /\ LetGo'
  BY <1>1 DEF Stands, OneWrites, Whole, LetGo, At, Writing
<1>6. HeardOut' BY <1>1, <1>3 DEF HeardOut, At
<1> QED BY <1>4, <1>5, <1>6

\* t moves without writing, and the wire stays as it is.
LEMMA QuietMoveInv ==
    ASSUME IInv, NEW t \in Threads, ~Writing(t), NEW pc \in Places \ {"write", "stuck"},
           Moves(t, pc, go[t].msg, go[t].part), SubKeeps(sub.torn),
           UNCHANGED <<kind, part, spliced, lock>>
    PROVE  OneWrites' /\ Whole'
<1> USE DEF IInv
<1>1. GoType' /\ go'[t].pc = pc /\ \A u \in Threads : u # t => go'[u] = go[u]
  BY DEF Moves, OthersStay
<1>2. OneWrites' BY <1>1 DEF OneWrites, At, Writing
<1>3. Whole' BY <1>1 DEF Whole, SubKeeps, At, Writing, Threads
<1> QED BY <1>2, <1>3

LEMMA SubStays == ASSUME SubType, sub' = sub PROVE SubKeeps(sub.torn)
  BY DEF SubType, SubKeeps

LEMMA SocketCloseInv == ASSUME IInv, SocketClose PROVE IInv'
<1> USE DEF IInv, SocketClose
<1>1. At("closer", "shut") /\ kind = "socket" /\ "closer" \in Threads BY DEF Threads
<1>2. Moves("closer", "over", go["closer"].msg, go["closer"].part)
  BY <1>1, GoesMoves DEF TypeOK, Places
<1>3. SubKeeps(sub.torn) BY SubStays DEF TypeOK
<1>4. OneWrites' /\ Whole' BY <1>1, <1>2, <1>3, QuietMoveInv DEF At, Writing, Places
<1>5. GoType' /\ go'["closer"].pc = "over" /\ \A u \in Threads : u # "closer" => go'[u] = go[u]
  BY <1>2 DEF Moves, OthersStay
<1>6. TypeOK' BY <1>5 DEF TypeOK, WireType, SubType, SinkType
<1>7. Stands' BY <1>1, <1>5 DEF Stands, Writing, Threads
<1>8. LetGo' BY <1>1, <1>5 DEF LetGo, At, Threads
<1>9. HeardOut' BY <1>1, <1>5 DEF HeardOut, At, Threads
<1> QED BY <1>4, <1>6, <1>7, <1>8, <1>9

LEMMA StreamCloseInv == ASSUME IInv, StreamClose PROVE IInv'
<1> USE DEF IInv, StreamClose
<1>1. At("closer", "shut") /\ kind = "stream" /\ "closer" \in Threads BY DEF Threads
<1>2. Moves("closer", "over", go["closer"].msg, go["closer"].part)
  BY <1>1, GoesMoves DEF TypeOK, Places
<1>3. SubKeeps(sub.torn) BY SubStays DEF TypeOK
<1>4. OneWrites' /\ Whole' BY <1>1, <1>2, <1>3, QuietMoveInv DEF At, Writing, Places
<1>5. GoType' /\ go'["closer"].pc = "over" /\ \A u \in Threads : u # "closer" => go'[u] = go[u]
  BY <1>2 DEF Moves, OthersStay
<1>6. SinkType' /\ sink'.peerGone = sink.peerGone /\ sink'.readerDone = sink.readerDone
      /\ sink'.closed
  BY DEF TypeOK, SinkType
<1>7. TypeOK' BY <1>5, <1>6 DEF TypeOK, WireType, SubType
<1>8. Stands' BY <1>1, <1>5 DEF Stands, Writing, Threads
<1>9. LetGo' BY <1>1, <1>5, <1>6 DEF LetGo, OneWrites, At, Threads, Nobody
<1>10. HeardOut' BY <1>1, <1>5, <1>6 DEF HeardOut, At, Threads
<1> QED BY <1>4, <1>7, <1>8, <1>9, <1>10

LEMMA WsCloseInv == ASSUME IInv, WsClose PROVE IInv'
<1> USE DEF IInv, WsClose
<1>1. At("closer", "shut") /\ kind = "ws" /\ "closer" \in Threads BY DEF Threads
<1>2. \/ Moves("closer", "write", "close", FALSE) /\ UNCHANGED fd /\ late' = FALSE
      \/ Moves("closer", "over", go["closer"].msg, go["closer"].part) /\ fd' = "closed"
         /\ UNCHANGED late
  BY <1>1, GoesMoves, StartsMoves DEF TypeOK, Places, Control
<1>3. /\ GoType' /\ \A u \in Threads : u # "closer" => go'[u] = go[u]
      /\ go'["closer"].pc \in {"write", "over"}
      /\ go'["closer"].pc = "write" => go'["closer"].msg \in Control
  BY <1>2 DEF Moves, OthersStay, Control
<1>4. fd' \in {"open", "half", "closed"} /\ late' \in BOOLEAN
  BY <1>2 DEF TypeOK, WireType
<1>5. TypeOK' BY <1>3, <1>4 DEF TypeOK, WireType, SubType, SinkType
<1>6. Stands' BY <1>1, <1>3 DEF Stands, Writing, Threads
<1>7. OneWrites' BY <1>1, <1>3 DEF OneWrites, At
<1>8. Whole' BY <1>3 DEF Whole, At, Threads
<1>9. LetGo' BY <1>1, <1>3 DEF LetGo, At, Threads
<1>10. HeardOut' BY <1>1, <1>3 DEF HeardOut, At, Threads
<1> QED BY <1>5, <1>6, <1>7, <1>8, <1>9, <1>10

\* t closes the sink, which moves nobody who is in a write or in a read.
LEMMA ClosesInv ==
    ASSUME IInv, NEW t \in Threads \ {"closer"}, ~Writing(t), go[t].pc # "over",
           t = "reader" => At(t, "drain"), t = "pinger" => kind = "ws",
           NEW why \in Why, Shuts(t, why), SubKeeps(sub.torn),
           UNCHANGED <<kind, peer, inbox, part, spliced, fd, lock>>,
           late' \in BOOLEAN, sent' \in Nat, events' \in Nat
    PROVE  IInv'
<1> USE DEF IInv
<1>1. Closes(t) /\ SinkStays BY ShutsCloses DEF TypeOK
<1>2. /\ GoType' /\ \A u \in Threads \ {t, "closer"} : go'[u] = go[u]
      /\ go'[t].pc = "closing"
      /\ go'["closer"].pc = (IF At("closer", "idle") THEN "shut" ELSE go["closer"].pc)
      /\ go'["closer"].msg = go["closer"].msg
  BY <1>1 DEF Closes
<1>3. SinkType' /\ sink'.closed = sink.closed /\ sink'.peerGone = sink.peerGone
      /\ sink'.readerDone = sink.readerDone
  BY <1>1 DEF SinkStays
<1>4. TypeOK' BY <1>2, <1>3 DEF TypeOK, WireType, SubKeeps
<1>5. Stands'
  <2>1. kind = "ws" => go'["reader"].pc \in {"read", "write", "stuck", "drain", "closing", "over"}
    BY <1>2 DEF Stands, Threads
  <2>2. kind # "ws" => t # "reader" BY DEF Stands, At, TypeOK, WireType
  <2>3. go'["closer"].pc \in {"write", "stuck"} => go'["closer"].pc = go["closer"].pc
    BY <1>2
  <2> QED BY <1>2, <2>1, <2>2, <2>3 DEF Stands, Writing, Threads, At
<1>6. OneWrites' BY <1>2 DEF OneWrites, At, Writing, Threads
<1>7. Whole' BY <1>2 DEF Whole, SubKeeps, At, Writing, Threads
<1>8. LetGo' BY <1>2, <1>3 DEF LetGo, SubKeeps, At, Threads
<1>9. HeardOut'
  <2>1. CASE t = "reader"
    <3>1. kind = "ws" BY <2>1 DEF Stands, At, TypeOK, WireType
    <3> QED BY <1>2, <1>3, <2>1, <3>1 DEF HeardOut, At
  <2>2. CASE t # "reader"
    <3>1. go'["reader"] = go["reader"] BY <1>2, <2>2 DEF Threads
    <3> QED BY <1>3, <3>1 DEF HeardOut, At
  <2> QED BY <2>1, <2>2
<1> QED BY <1>4, <1>5, <1>6, <1>7, <1>8, <1>9

\* kill, from whoever publishes.
LEMMA KillInv ==
    ASSUME IInv, At("hub", "idle"), Kill("hub", "ended"), events' \in Nat,
           UNCHANGED <<kind, peer, inbox, sent, part, spliced, late, fd, lock>>
    PROVE  IInv'
<1> USE DEF IInv
<1>1. CASE sub.dead
  <2>1. UNCHANGED <<sub, sink, go>> BY <1>1 DEF Kill
  <2> QED BY <2>1 DEF TypeOK, WireType, GoType, SubType, SinkType, Stands, OneWrites, Whole,
                      LetGo, HeardOut, At, Writing
<1>2. CASE ~sub.dead
  <2>1. PICK s : s = Because(sub, "ended") OBVIOUS
  <2>2. sub' = [s EXCEPT !.dead = TRUE] /\ Shuts("hub", s.reason) BY <1>2, <2>1 DEF Kill
  <2>3. /\ s \in [head : BOOLEAN, fifo : Nat, finals : Finals, finalized : BOOLEAN,
                  closed : BOOLEAN, dead : BOOLEAN, torn : BOOLEAN, failed : BOOLEAN,
                  reason : Why, done : BOOLEAN]
        /\ s.torn = sub.torn /\ s.done = sub.done
    BY <2>1, BecauseKeeps DEF Why, TypeOK
  <2>4. SubKeeps(sub.torn) /\ s.reason \in Why BY <2>2, <2>3 DEF SubKeeps, SubType
  <2>5. "hub" \in Threads \ {"closer"} /\ ~Writing("hub") /\ go["hub"].pc # "over"
    BY DEF Threads, Writing, At
  <2>6. late' \in BOOLEAN /\ sent' \in Nat BY DEF TypeOK, WireType
  <2> QED BY <2>2, <2>4, <2>5, <2>6, ClosesInv
<1> QED BY <1>1, <1>2

LEMMA PublishInv == ASSUME IInv, Publish PROVE IInv'
<1> USE DEF IInv
<1>1. events' \in Nat /\ At("hub", "idle")
      /\ UNCHANGED <<kind, peer, inbox, sent, part, spliced, late, fd, lock>>
  BY DEF Publish, TypeOK, WireType
<1>2. CASE sub.fifo < FifoMax
  <2>1. sub' = [sub EXCEPT !.fifo = @ + 1] /\ UNCHANGED <<sink, go>> BY <1>2 DEF Publish
  <2>2. SubType' /\ sub'.torn = sub.torn /\ sub'.done = sub.done BY <2>1 DEF TypeOK, SubType
  <2> QED BY <1>1, <2>1, <2>2 DEF TypeOK, WireType, GoType, SinkType, Stands, OneWrites, Whole,
                      LetGo, HeardOut, At, Writing
<1>3. CASE ~(sub.fifo < FifoMax) BY <1>1, <1>3, KillInv DEF Publish
<1> QED BY <1>2, <1>3

LEMMA FinalizeInv == ASSUME IInv, Finalize PROVE IInv'
<1> USE DEF IInv
<1>1. SubType' /\ sub'.torn = sub.torn /\ sub'.done = sub.done
  BY DEF Finalize, TypeOK, SubType, Finals
<1>2. late' = FALSE
      /\ UNCHANGED <<kind, peer, inbox, sent, part, spliced, fd, lock, sink, go, events>>
  BY DEF Finalize
<1>3. TypeOK' BY <1>1, <1>2 DEF TypeOK, WireType, GoType, SinkType
<1>4. Stands' /\ OneWrites' /\ HeardOut' BY <1>2 DEF Stands, OneWrites, HeardOut, At, Writing
<1>5. Whole' /\ LetGo' BY <1>1, <1>2 DEF Whole, LetGo, At
<1> QED BY <1>3, <1>4, <1>5

LEMMA FinalizeExpiresInv == ASSUME IInv, FinalizeExpires PROVE IInv'
<1>1. events' \in Nat BY DEF FinalizeExpires, IInv, TypeOK, WireType
<1> QED BY <1>1, KillInv DEF FinalizeExpires

LEMMA HubReturnsInv == ASSUME IInv, HubReturns PROVE IInv'
<1> USE DEF IInv, HubReturns
<1>1. At("hub", "closing") /\ "hub" \in Threads BY DEF Shut, Threads
<1>2. Moves("hub", "idle", go["hub"].msg, go["hub"].part)
  BY <1>1, GoesMoves DEF TypeOK, Places
<1>3. SubKeeps(sub.torn) BY SubStays DEF TypeOK
<1>4. OneWrites' /\ Whole' BY <1>1, <1>2, <1>3, QuietMoveInv DEF At, Writing, Places
<1>5. GoType' /\ go'["hub"].pc = "idle" /\ \A u \in Threads : u # "hub" => go'[u] = go[u]
  BY <1>2 DEF Moves, OthersStay
<1>6. TypeOK' BY <1>5 DEF TypeOK, WireType, SubType, SinkType
<1>7. Stands' BY <1>1, <1>5 DEF Stands, Writing, Threads
<1>8. LetGo' /\ HeardOut' BY <1>1, <1>5 DEF LetGo, HeardOut, At, Threads
<1> QED BY <1>4, <1>6, <1>7, <1>8

-----------------------------------------------------------------------------
(* The writer.                                                             *)

\* The writer begins a write only while no message of the hub's is cut short.
LEMMA WriterStartsInv ==
    ASSUME IInv, At("writer", "take"), ~sub.torn, NEW m \in Data, Starts("writer", m),
           SubKeeps(sub.torn), late' = FALSE,
           UNCHANGED <<kind, peer, inbox, sent, part, spliced, fd, lock, sink, events>>
    PROVE  IInv'
<1> USE DEF IInv
<1>1. "writer" \in Threads BY DEF Threads
<1>2. Moves("writer", "write", m, FALSE) BY <1>1, StartsMoves DEF TypeOK
<1>3. /\ GoType' /\ go'["writer"].pc = "write" /\ go'["writer"].msg = m
      /\ go'["writer"].part = FALSE /\ \A u \in Threads : u # "writer" => go'[u] = go[u]
  BY <1>2 DEF Moves, OthersStay
<1>4. TypeOK' BY <1>3 DEF TypeOK, WireType, SubKeeps, SinkType
<1>5. Stands' BY <1>3 DEF Stands, Writing, Threads, Data, Control
<1>6. OneWrites' BY <1>3 DEF OneWrites, At
<1>7. Whole' BY <1>3 DEF Whole, SubKeeps, At
<1>8. LetGo' BY <1>3 DEF LetGo, SubKeeps, At, Threads
<1>9. HeardOut' BY <1>3 DEF HeardOut, At, Threads
<1> QED BY <1>4, <1>5, <1>6, <1>7, <1>8, <1>9

LEMMA WriterClosesInv ==
    ASSUME IInv, At("writer", "take"), NEW why \in Why, Shuts("writer", why),
           UNCHANGED <<kind, peer, inbox, sent, part, spliced, late, fd, lock, sub, events>>
    PROVE  IInv'
<1>1. "writer" \in Threads \ {"closer"} /\ ~Writing("writer") /\ go["writer"].pc # "over"
  BY DEF Threads, Writing, At
<1>2. SubKeeps(sub.torn) /\ late' \in BOOLEAN /\ sent' \in Nat /\ events' \in Nat
  BY SubStays DEF IInv, TypeOK, WireType
<1> QED BY <1>1, <1>2, ClosesInv

LEMMA TakeInv == ASSUME IInv, Take PROVE IInv'
<1> USE DEF IInv
<1>1. At("writer", "take") /\ UNCHANGED <<kind, peer, inbox, sent, part, spliced, fd, lock, events>>
  BY DEF Take
<1>2. sub.reason \in Why /\ "failed" \in Why /\ "ended" \in Why BY DEF TypeOK, SubType, Why
<1>3. ASSUME NEW why \in Why, Shuts("writer", why), UNCHANGED <<sub, late>> PROVE IInv'
  BY <1>1, <1>3, WriterClosesInv
<1>4. ASSUME NEW m \in Data, ~sub.torn, Starts("writer", m), late' = FALSE, UNCHANGED sink,
             SubKeeps(sub.torn)
      PROVE  IInv'
  BY <1>1, <1>4, WriterStartsInv
<1>5. CASE /\ sub.dead \/ sub.torn \/ (sub.failed /\ ~sub.finalized)
           /\ Shuts("writer", IF ~sub.dead /\ sub.torn THEN "failed" ELSE sub.reason)
           /\ UNCHANGED <<sub, late>>
  BY <1>2, <1>3, <1>5
<1>6. CASE /\ ~sub.torn /\ sub' = [sub EXCEPT !.head = FALSE] /\ Starts("writer", "aggregate")
           /\ late' = FALSE /\ UNCHANGED sink
  <2>1. SubKeeps(sub.torn) BY <1>6 DEF TypeOK, SubType, SubKeeps
  <2> QED BY <1>4, <1>6, <2>1 DEF Data
<1>7. CASE /\ ~sub.torn /\ sub.finals # <<>>
           /\ sub' = [sub EXCEPT !.finals = Tail(@)] /\ Starts("writer", Head(sub.finals))
           /\ late' = FALSE /\ UNCHANGED sink
  <2>1. sub.finals \in {<<"shutdown">>, <<"results", "shutdown">>}
    BY <1>7 DEF TypeOK, SubType, Finals
  <2>2. Tail(sub.finals) \in Finals /\ Head(sub.finals) \in Data
    <3>1. CASE sub.finals = <<"shutdown">>
      <4>1. Head(<<"shutdown">>) = "shutdown" /\ Tail(<<"shutdown">>) = <<>> OBVIOUS
      <4> QED BY <3>1, <4>1 DEF Finals, Data
    <3>2. CASE sub.finals = <<"results", "shutdown">>
      <4>1. /\ Head(<<"results", "shutdown">>) = "results"
            /\ Tail(<<"results", "shutdown">>) = <<"shutdown">>
        OBVIOUS
      <4> QED BY <3>2, <4>1 DEF Finals, Data
    <3> QED BY <2>1, <3>1, <3>2
  <2>3. SubKeeps(sub.torn) BY <1>7, <2>2 DEF TypeOK, SubType, SubKeeps
  <2> QED BY <1>4, <1>7, <2>2, <2>3
<1>8. CASE /\ ~sub.torn /\ sub.fifo > 0 /\ sub' = [sub EXCEPT !.fifo = @ - 1]
           /\ Starts("writer", "event") /\ late' = FALSE /\ UNCHANGED sink
  <2>1. SubKeeps(sub.torn) BY <1>8 DEF TypeOK, SubType, SubKeeps
  <2> QED BY <1>4, <1>8, <2>1 DEF Data
<1>9. CASE \/ Shuts("writer", "ended") /\ UNCHANGED <<sub, late>>
           \/ Shuts("writer", sub.reason) /\ UNCHANGED <<sub, late>>
  BY <1>2, <1>3, <1>9
<1> QED BY <1>5, <1>6, <1>7, <1>8, <1>9 DEF Take

LEMMA WriterEndsInv == ASSUME IInv, WriterEnds PROVE IInv'
<1> USE DEF IInv, WriterEnds
<1>1. At("writer", "closing") /\ "writer" \in Threads BY DEF Shut, Threads
<1>2. Moves("writer", "over", go["writer"].msg, go["writer"].part)
  BY <1>1, GoesMoves DEF TypeOK, Places
<1>3. GoType' /\ go'["writer"].pc = "over" /\ \A u \in Threads : u # "writer" => go'[u] = go[u]
  BY <1>2 DEF Moves, OthersStay
<1>4. SubType' /\ sub'.torn = sub.torn BY DEF TypeOK, SubType
<1>5. TypeOK' BY <1>3, <1>4 DEF TypeOK, WireType, SinkType
<1>6. Stands' BY <1>1, <1>3 DEF Stands, Writing, Threads
<1>7. OneWrites' BY <1>1, <1>3 DEF OneWrites, At
<1>8. Whole' BY <1>1, <1>3, <1>4 DEF Whole, At
<1>9. LetGo' BY <1>1, <1>3 DEF LetGo, At, Threads, TypeOK, SubType
<1>10. HeardOut' BY <1>1, <1>3 DEF HeardOut, At, Threads
<1> QED BY <1>5, <1>6, <1>7, <1>8, <1>9, <1>10

-----------------------------------------------------------------------------
(* The reader and the pinger.                                              *)

\* The reader moves without writing or closing the sink.
LEMMA ReaderStepInv ==
    ASSUME IInv, ~Writing("reader"), NEW pc \in {"finish", "wait", "drain", "over"},
           Goes("reader", pc),
           kind = "socket" => pc \in {"finish", "over"},
           kind = "stream" => pc \in {"wait", "over"},
           kind = "ws" => pc \in {"drain", "over"},
           SubKeeps(sub.torn), UNCHANGED <<kind, peer, inbox, sent, part, spliced, late, lock, events>>
    PROVE  Stands' /\ OneWrites' /\ Whole' /\ GoType' /\ go'["reader"].pc = pc
           /\ \A u \in Threads : u # "reader" => go'[u] = go[u]
<1> USE DEF IInv
<1>1. "reader" \in Threads /\ pc \in Places \ {"write", "stuck"} BY DEF Threads, Places
<1>2. Moves("reader", pc, go["reader"].msg, go["reader"].part) BY <1>1, GoesMoves DEF TypeOK
<1>3. OneWrites' /\ Whole' BY <1>1, <1>2, QuietMoveInv
<1>4. GoType' /\ go'["reader"].pc = pc /\ \A u \in Threads : u # "reader" => go'[u] = go[u]
  BY <1>2 DEF Moves, OthersStay
<1>5. Stands' BY <1>4 DEF Stands, Writing, Threads
<1> QED BY <1>3, <1>4, <1>5

LEMMA ReadLineInv == ASSUME IInv, ReadLine PROVE IInv'
<1> USE DEF IInv
<1>1. /\ At("reader", "read") /\ inbox' \in Seq({"line", "ping", "close"})
      /\ UNCHANGED <<kind, peer, sent, part, spliced, late, fd, lock, sub, sink, go, events>>
  BY DEF ReadLine, TypeOK, WireType
<1>2. TypeOK' BY <1>1 DEF TypeOK, WireType, GoType, SubType, SinkType
<1>3. Stands' /\ OneWrites' /\ Whole' /\ LetGo'
  BY <1>1 DEF Stands, OneWrites, Whole, LetGo, At, Writing
<1>4. HeardOut' BY <1>1 DEF HeardOut, At
<1> QED BY <1>2, <1>3, <1>4

LEMMA SocketEndsInv == ASSUME IInv, SocketEnds PROVE IInv'
<1> USE DEF IInv, SocketEnds
<1>1. SubKeeps(sub.torn) BY SubClosesKeeps DEF TypeOK
<1>2. /\ Stands' /\ OneWrites' /\ Whole' /\ GoType' /\ go'["reader"].pc = "finish"
      /\ \A u \in Threads : u # "reader" => go'[u] = go[u]
  BY <1>1, ReaderStepInv DEF At, Writing
<1>3. TypeOK' BY <1>1, <1>2 DEF TypeOK, WireType, SubKeeps, SinkType
<1>4. LetGo' BY <1>1, <1>2 DEF LetGo, SubKeeps, At, Threads
<1>5. HeardOut' BY <1>2 DEF HeardOut, At
<1> QED BY <1>2, <1>3, <1>4, <1>5

LEMMA ReaderFinishedInv == ASSUME IInv, ReaderFinished PROVE IInv'
<1> USE DEF IInv, ReaderFinished
<1>1. SubKeeps(sub.torn) BY SubStays DEF TypeOK
<1>2. /\ Stands' /\ OneWrites' /\ Whole' /\ GoType' /\ go'["reader"].pc = "over"
      /\ \A u \in Threads : u # "reader" => go'[u] = go[u]
  BY <1>1, ReaderStepInv DEF At, Writing
<1>3. SinkType' /\ sink'.closed = sink.closed /\ sink'.peerGone = sink.peerGone
  BY DEF TypeOK, SinkType
<1>4. TypeOK' BY <1>1, <1>2, <1>3 DEF TypeOK, WireType, SubKeeps
<1>5. LetGo' BY <1>1, <1>2, <1>3 DEF LetGo, SubKeeps, At, Threads
<1>6. HeardOut' BY <1>2, <1>3 DEF HeardOut, At
<1> QED BY <1>2, <1>4, <1>5, <1>6

LEMMA StreamOverInv == ASSUME IInv, StreamOver PROVE IInv'
<1> USE DEF IInv, StreamOver
<1>1. SubKeeps(sub.torn) BY SubStays DEF TypeOK
<1>2. /\ Stands' /\ OneWrites' /\ Whole' /\ GoType' /\ go'["reader"].pc = "over"
      /\ \A u \in Threads : u # "reader" => go'[u] = go[u]
  BY <1>1, ReaderStepInv DEF At, Writing
<1>3. TypeOK' BY <1>1, <1>2 DEF TypeOK, WireType, SubKeeps, SinkType
<1>4. LetGo' BY <1>1, <1>2 DEF LetGo, SubKeeps, At, Threads
<1>5. HeardOut' BY <1>2 DEF HeardOut, At
<1> QED BY <1>2, <1>3, <1>4, <1>5

LEMMA StreamGoneInv == ASSUME IInv, StreamGone PROVE IInv'
<1> USE DEF IInv, StreamGone
<1>1. SubKeeps(sub.torn) BY SubClosesKeeps DEF TypeOK
<1>2. /\ Stands' /\ OneWrites' /\ Whole' /\ GoType' /\ go'["reader"].pc = "wait"
      /\ \A u \in Threads : u # "reader" => go'[u] = go[u]
  BY <1>1, ReaderStepInv DEF At, Writing
<1>3. TypeOK' BY <1>1, <1>2 DEF TypeOK, WireType, SubKeeps, SinkType
<1>4. LetGo' BY <1>1, <1>2 DEF LetGo, SubKeeps, At, Threads
<1>5. HeardOut' BY <1>2 DEF HeardOut, At
<1> QED BY <1>2, <1>3, <1>4, <1>5

LEMMA StreamReturnsInv == ASSUME IInv, StreamReturns PROVE IInv'
<1> USE DEF IInv, StreamReturns
<1>1. SubKeeps(sub.torn) BY SubStays DEF TypeOK
<1>2. /\ Stands' /\ OneWrites' /\ Whole' /\ GoType' /\ go'["reader"].pc = "over"
      /\ \A u \in Threads : u # "reader" => go'[u] = go[u]
  BY <1>1, ReaderStepInv DEF At, Writing
<1>3. TypeOK' BY <1>1, <1>2 DEF TypeOK, WireType, SubKeeps, SinkType
<1>4. LetGo' BY <1>1, <1>2 DEF LetGo, SubKeeps, At, Threads
<1>5. HeardOut' BY <1>2 DEF HeardOut, At
<1> QED BY <1>2, <1>3, <1>4, <1>5

LEMMA WsEndsInv == ASSUME IInv, WsEnds PROVE IInv'
<1> USE DEF IInv, WsEnds
<1>1. SubKeeps(sub.torn) BY SubClosesKeeps DEF TypeOK
<1>2. /\ Stands' /\ OneWrites' /\ Whole' /\ GoType' /\ go'["reader"].pc = "drain"
      /\ \A u \in Threads : u # "reader" => go'[u] = go[u]
  BY <1>1, ReaderStepInv DEF At, Writing
<1>3. TypeOK' BY <1>1, <1>2 DEF TypeOK, WireType, SubKeeps, SinkType
<1>4. LetGo' BY <1>1, <1>2 DEF LetGo, SubKeeps, At, Threads
<1>5. HeardOut' BY <1>2 DEF HeardOut, At
<1> QED BY <1>2, <1>3, <1>4, <1>5

LEMMA WsReturnsInv == ASSUME IInv, WsReturns PROVE IInv'
<1> USE DEF IInv, WsReturns
<1>1. SubKeeps(sub.torn) /\ At("reader", "closing") /\ kind = "ws"
  BY SubStays DEF TypeOK, WireType, Shut, Stands, At
<1>2. /\ Stands' /\ OneWrites' /\ Whole' /\ GoType' /\ go'["reader"].pc = "over"
      /\ \A u \in Threads : u # "reader" => go'[u] = go[u]
  BY <1>1, ReaderStepInv DEF At, Writing
<1>3. TypeOK' BY <1>1, <1>2 DEF TypeOK, WireType, SubKeeps, SinkType
<1>4. LetGo' BY <1>1, <1>2 DEF LetGo, SubKeeps, At, Threads
<1>5. HeardOut' BY <1>1, <1>2 DEF HeardOut, At
<1> QED BY <1>2, <1>3, <1>4, <1>5

LEMMA WsDrainedInv == ASSUME IInv, WsDrained PROVE IInv'
<1> USE DEF IInv, WsDrained
<1>1. "reader" \in Threads \ {"closer"} /\ ~Writing("reader") /\ go["reader"].pc # "over"
  BY DEF Threads, Writing, At
<1>2. SubKeeps(sub.torn) /\ late' \in BOOLEAN /\ sent' \in Nat /\ events' \in Nat
  BY SubStays DEF TypeOK, WireType
<1> QED BY <1>1, <1>2, ClosesInv DEF Why

LEMMA ReadFrameInv == ASSUME IInv, ReadFrame PROVE IInv'
<1> USE DEF IInv
<1>1. /\ At("reader", "read") /\ kind = "ws" /\ inbox # <<>> /\ inbox' = Tail(inbox)
      /\ sink' = [sink EXCEPT !.gotClose = @ \/ Head(inbox) = "close"]
      /\ UNCHANGED <<kind, peer, sent, part, spliced, fd, lock, sub, events>>
  BY DEF ReadFrame
<1>2. /\ SinkType' /\ sink'.closed = sink.closed /\ sink'.peerGone = sink.peerGone
      /\ sink'.readerDone = sink.readerDone
  BY <1>1 DEF TypeOK, SinkType
<1>3. inbox' \in Seq({"line", "ping", "close"}) BY <1>1 DEF TypeOK, WireType
<1>4. \/ \E m \in {"pong", "echo"} : Starts("reader", m) /\ late' = FALSE
      \/ UNCHANGED <<go, late>>
  BY DEF ReadFrame
<1>5. /\ GoType' /\ late' \in BOOLEAN
      /\ go'["reader"].pc \in {"read", "write"}
      /\ go'["reader"].pc = "write" => go'["reader"].msg \in Control
      /\ \A u \in Threads : u # "reader" => go'[u] = go[u]
  <2>1. CASE UNCHANGED <<go, late>> BY <1>1, <2>1 DEF TypeOK, GoType, WireType, At
  <2>2. ASSUME NEW m \in {"pong", "echo"}, Starts("reader", m), late' = FALSE
        PROVE  Moves("reader", "write", m, FALSE) /\ m \in Control
    BY <2>2, StartsMoves DEF Threads, TypeOK, Control
  <2> QED BY <1>4, <2>1, <2>2 DEF Moves, OthersStay
<1>6. TypeOK' BY <1>1, <1>2, <1>3, <1>5 DEF TypeOK, WireType, SubType
<1>7. Stands' BY <1>1, <1>5 DEF Stands, Writing, Threads
<1>8. OneWrites' BY <1>1, <1>5 DEF OneWrites, At
<1>9. Whole' BY <1>1, <1>5 DEF Whole, At, Threads
<1>10. LetGo' BY <1>1, <1>2, <1>5 DEF LetGo, At, Threads
<1>11. HeardOut' BY <1>1, <1>2, <1>5 DEF HeardOut, At, Threads
<1> QED BY <1>6, <1>7, <1>8, <1>9, <1>10, <1>11

LEMMA PingInv == ASSUME IInv, Ping PROVE IInv'
<1> USE DEF IInv
<1>1. /\ At("pinger", "tick") /\ UNCHANGED <<kind, peer, inbox, part, spliced, fd, lock, sub, events>>
      /\ "pinger" \in Threads \ {"closer"} /\ ~Writing("pinger")
  BY DEF Ping, Threads, Writing, At
<1>2. kind = "ws" BY <1>1 DEF Stands, At
<1>3. CASE Shuts("pinger", "ended") /\ UNCHANGED <<late, sent>>
  <2>1. SubKeeps(sub.torn) /\ late' \in BOOLEAN /\ sent' \in Nat /\ events' \in Nat
        /\ go["pinger"].pc # "over" /\ "ended" \in Why
    BY <1>1, <1>3, SubStays DEF TypeOK, WireType, At, Why
  <2> QED BY <1>1, <1>2, <1>3, <2>1, ClosesInv
<1>4. CASE sent' = sent + 1 /\ late' = FALSE /\ Starts("pinger", "ping") /\ UNCHANGED sink
  <2>1. Moves("pinger", "write", "ping", FALSE) BY <1>1, <1>4, StartsMoves DEF TypeOK, Control
  <2>2. /\ GoType' /\ go'["pinger"].pc = "write" /\ go'["pinger"].msg \in Control
        /\ \A u \in Threads : u # "pinger" => go'[u] = go[u]
    BY <2>1 DEF Moves, OthersStay, Control
  <2>3. WireType'
    <3>1. WireType /\ sent \in Nat BY DEF TypeOK, WireType
    <3>2. sent' \in Nat BY <1>4, <3>1
    <3>3. late' \in BOOLEAN BY <1>4
    <3> QED BY <1>1, <3>1, <3>2, <3>3 DEF WireType
  <2>4. SubType' /\ SinkType' BY <1>1, <1>4 DEF TypeOK, SubType, SinkType
  <2>5. TypeOK' BY <2>2, <2>3, <2>4 DEF TypeOK
  <2>6. Stands' BY <1>1, <1>2, <2>2 DEF Stands, Writing, Threads
  <2>7. OneWrites' BY <1>1, <2>2 DEF OneWrites, At
  <2>8. Whole' BY <1>1, <2>2 DEF Whole, At, Threads
  <2>9. LetGo' /\ HeardOut' BY <1>1, <1>4, <2>2 DEF LetGo, HeardOut, At, Threads
  <2> QED BY <2>5, <2>6, <2>7, <2>8, <2>9
<1> QED BY <1>3, <1>4 DEF Ping

LEMMA PingerEndsInv == ASSUME IInv, PingerEnds PROVE IInv'
<1> USE DEF IInv, PingerEnds
<1>1. go["pinger"].pc \in {"closing", "tick"} /\ "pinger" \in Threads BY DEF Shut, At, Threads
<1>2. Moves("pinger", "over", go["pinger"].msg, go["pinger"].part)
  BY <1>1, GoesMoves DEF TypeOK, Places
<1>3. SubKeeps(sub.torn) BY SubStays DEF TypeOK
<1>4. OneWrites' /\ Whole' BY <1>1, <1>2, <1>3, QuietMoveInv DEF Writing, Places
<1>5. GoType' /\ go'["pinger"].pc = "over" /\ \A u \in Threads : u # "pinger" => go'[u] = go[u]
  BY <1>2 DEF Moves, OthersStay
<1>6. TypeOK' BY <1>5 DEF TypeOK, WireType, SubType, SinkType
<1>7. Stands' BY <1>1, <1>5 DEF Stands, Writing, Threads
<1>8. LetGo' /\ HeardOut' BY <1>5 DEF LetGo, HeardOut, At, Threads
<1> QED BY <1>4, <1>6, <1>7, <1>8

-----------------------------------------------------------------------------
LEMMA InitHolds == Init => IInv
<1> SUFFICES ASSUME Init PROVE IInv OBVIOUS
<1>1. WireType /\ SubType /\ SinkType
  <2>1. <<>> \in Seq({"line", "ping", "close"}) OBVIOUS
  <2>2. WireType BY <2>1, ConnectionBounds DEF Init, WireType
  <2>3. SubType BY DEF Init, SubType, Why, Finals
  <2>4. SinkType BY DEF Init, SinkType, Why
  <2> QED BY <2>2, <2>3, <2>4
<1>2. GoType BY DEF Init, GoType, Stages, Places, Threads
<1>3. /\ go["writer"].pc = "take" /\ go["reader"].pc = "read" /\ go["hub"].pc = "idle"
      /\ go["closer"].pc = "idle" /\ go["pinger"].pc = (IF kind = "ws" THEN "tick" ELSE "idle")
  BY DEF Init, Threads
<1>4. \A t \in Threads : go[t].pc \notin {"write", "stuck"} BY <1>3 DEF Threads
<1>5. Stands BY <1>3, <1>4 DEF Stands, Writing
<1>6. OneWrites BY <1>4 DEF Init, OneWrites, At, Nobody, Threads
<1>7. Whole /\ LetGo /\ HeardOut BY <1>3 DEF Init, Whole, LetGo, HeardOut, At
<1> QED BY <1>1, <1>2, <1>5, <1>6, <1>7 DEF IInv, TypeOK

LEMMA NextHolds == IInv /\ [Next]_vars => IInv'
<1> SUFFICES ASSUME IInv, [Next]_vars PROVE IInv' OBVIOUS
<1>1. ASSUME NEW t \in Threads, Write(t) \/ Unstick(t) PROVE IInv' BY <1>1, WriteInv, UnstickInv
<1>2. CASE DeadlinePasses \/ Client BY <1>2, ClientInv
<1>3. CASE Closing BY <1>3, SocketCloseInv, StreamCloseInv, WsCloseInv DEF Closing
<1>4. CASE Publish \/ Finalize \/ FinalizeExpires \/ HubReturns
  BY <1>4, PublishInv, FinalizeInv, FinalizeExpiresInv, HubReturnsInv
<1>5. CASE Writer BY <1>5, TakeInv, WriterEndsInv DEF Writer
<1>6. CASE Reader
  BY <1>6, ReadLineInv, SocketEndsInv, ReaderFinishedInv, StreamOverInv, StreamGoneInv,
     StreamReturnsInv, ReadFrameInv, WsEndsInv, WsDrainedInv, WsReturnsInv DEF Reader
<1>7. CASE Pinger BY <1>7, PingInv, PingerEndsInv DEF Pinger
<1>8. CASE UNCHANGED vars
  BY <1>8 DEF vars, IInv, TypeOK, WireType, GoType, SubType, SinkType, Stands, OneWrites, Whole,
              LetGo, HeardOut, At, Writing
<1> QED BY <1>1, <1>2, <1>3, <1>4, <1>5, <1>6, <1>7, <1>8 DEF Next, Running

-----------------------------------------------------------------------------
\* After a write that was cut short no other message of the hub's goes out, on any
\* transport and however the deadline, the peer, a kill and the shutdown fall: the
\* writer stops on torn, which only a whole write leaves unset (sub.go, the sinks).
THEOREM NothingIsSpliced == Spec => []NothingFollowsATornMessage
<1>1. IInv => NothingFollowsATornMessage BY DEF IInv, Whole, NothingFollowsATornMessage
<1> QED BY <1>1, InitHolds, NextHolds, PTL DEF Spec

\* The connection is not taken from a goroutine that still uses it: a stream's
\* handler returns only when its sink is closed, which no write survives, or its
\* writer is done; and a socket's reader reads to the end of what a peer that hung
\* up has sent, since the writer that meets EPIPE leaves it its half.
THEOREM NobodyLosesTheConnection == Spec => []HeldWhileInUse
<1>1. IInv => ResponseIsLetGo BY DEF IInv, LetGo, ResponseIsLetGo, At
<1>2. IInv => LinesOutliveTheirSender
  <2> SUFFICES ASSUME IInv, At("reader", "over"), sink.peerGone PROVE inbox = <<>>
    BY DEF LinesOutliveTheirSender
  <2> QED BY DEF IInv, HeardOut, At
<1> QED BY <1>1, <1>2, InitHolds, NextHolds, PTL DEF Spec, HeldWhileInUse

-----------------------------------------------------------------------------
(* How it comes apart.                                                     *)
\* How the connection comes apart. Whoever waits for Close has begun it; the reader
\* stops with the Sub ended; the writer is over when Close is; and Close leaves the
\* connection shut, but for the half of a socket whose reader has yet to finish.
ClosesOnce  == \A t \in Threads : At(t, "closing") => ~At("closer", "idle")
ReaderStops == go["reader"].pc \in {"finish", "wait", "drain", "closing", "over"}
               => sub.closed \/ sub.dead \/ sub.done
WriterStops == /\ sub.done <=> At("writer", "over")
               /\ At("writer", "over") => At("closer", "over")
CloseShuts  == At("closer", "over") => IF kind = "stream" THEN sink.closed
                                       ELSE IF kind = "ws" THEN fd = "closed" ELSE fd # "open"
HalfIsLeft  == /\ sink.peerGone => peer = "gone"
               /\ fd = "half" => kind = "socket" /\ sink.peerGone /\ ~At("reader", "over")
               /\ kind = "socket" /\ At("reader", "over") => sink.readerDone
               /\ kind = "stream" /\ At("reader", "over") => fd = "closed"

Parting == ClosesOnce /\ ReaderStops /\ WriterStops /\ CloseShuts /\ HalfIsLeft

\* What ended stays ended.
Onward == (sub.closed => sub'.closed) /\ (sub.dead => sub'.dead) /\ (sub'.done <=> sub.done)

LEMMA BecauseOnward ==
    ASSUME SubType, NEW why \in Why, NEW s, s = Because(sub, why)
    PROVE  /\ s.closed = sub.closed /\ s.dead = sub.dead /\ s.done = sub.done
           /\ s \in [head : BOOLEAN, fifo : Nat, finals : Finals, finalized : BOOLEAN,
                     closed : BOOLEAN, dead : BOOLEAN, torn : BOOLEAN, failed : BOOLEAN,
                     reason : Why, done : BOOLEAN]
  BY DEF SubType, Because

LEMMA SubCloseOnward ==
    ASSUME SubType, sub' = SubClose(sub) PROVE Onward /\ (sub'.closed \/ sub'.dead)
<1>1. CASE sub.closed \/ sub.dead BY <1>1 DEF SubClose, Onward
<1>2. CASE ~(sub.closed \/ sub.dead)
  <2>1. PICK s : s = Because(sub, "ended") OBVIOUS
  <2>2. sub' = [s EXCEPT !.closed = TRUE] BY <1>2, <2>1 DEF SubClose
  <2>3. /\ s.closed = sub.closed /\ s.dead = sub.dead /\ s.done = sub.done
        /\ s \in [head : BOOLEAN, fifo : Nat, finals : Finals, finalized : BOOLEAN,
                  closed : BOOLEAN, dead : BOOLEAN, torn : BOOLEAN, failed : BOOLEAN,
                  reason : Why, done : BOOLEAN]
    BY <2>1, BecauseOnward DEF Why
  <2> QED BY <2>2, <2>3 DEF Onward
<1> QED BY <1>1, <1>2

\* Whoever ends a write that failed on the reader has closed the Sub.
LEMMA WroteOnward ==
    ASSUME TypeOK, NEW t \in Threads, NEW ok \in BOOLEAN, NEW some \in BOOLEAN,
           NEW epipe \in BOOLEAN, Wrote(t, ok, some, epipe)
    PROVE  Onward /\ (t = "reader" => go'["reader"].pc = "read" \/ sub'.closed \/ sub'.dead)
<1> USE DEF Wrote
<1>1. CASE t = "writer"
  <2>1. CASE ok BY <1>1, <2>1 DEF Onward
  <2>2. CASE ~ok
    <3>1. PICK s : s = Because(sub, "failed") OBVIOUS
    <3>2. sub' = [s EXCEPT !.failed = TRUE, !.torn = s.torn \/ some \/ kind = "stream"]
      BY <1>1, <2>2, <3>1
    <3>3. /\ s.closed = sub.closed /\ s.dead = sub.dead /\ s.done = sub.done
          /\ s \in [head : BOOLEAN, fifo : Nat, finals : Finals, finalized : BOOLEAN,
                    closed : BOOLEAN, dead : BOOLEAN, torn : BOOLEAN, failed : BOOLEAN,
                    reason : Why, done : BOOLEAN]
      BY <3>1, BecauseOnward DEF Why, TypeOK
    <3> QED BY <1>1, <3>2, <3>3 DEF Onward
  <2> QED BY <2>1, <2>2
<1>2. CASE t = "reader"
  <2>1. CASE ok /\ go[t].msg = "pong"
    <3>1. go' = [go EXCEPT ![t] = Resting("read")] /\ sub' = sub BY <1>2, <2>1
    <3>2. go'["reader"].pc = "read"
      BY <1>2, <3>1, RestsMoves DEF TypeOK, Places, Moves
    <3> QED BY <3>1, <3>2 DEF Onward
  <2>2. CASE ~(ok /\ go[t].msg = "pong")
    <3>1. sub' = SubClose(sub) BY <1>2, <2>2
    <3> QED BY <3>1, SubCloseOnward DEF TypeOK
  <2> QED BY <2>1, <2>2
<1>3. CASE t \in {"pinger", "closer"} BY <1>3 DEF Onward
<1> QED BY <1>1, <1>2, <1>3 DEF Threads

\* A write is over.
LEMMA WroteParting ==
    ASSUME IInv, Parting, NEW t \in Threads, Writing(t), NEW ok \in BOOLEAN,
           NEW some \in BOOLEAN, NEW epipe \in BOOLEAN, Wrote(t, ok, some, epipe),
           epipe => peer = "gone", Aside
    PROVE  Parting'
<1> USE DEF IInv, Parting
<1>1. t # "hub" /\ (t = "writer" \/ kind = "ws") BY AWritersPlace
<1>2. PICK torn : Ends(t, torn, epipe) BY WroteEnds
<1>3. Onward /\ (t = "reader" => go'["reader"].pc = "read" \/ sub'.closed \/ sub'.dead)
  BY WroteOnward
<1>4. PICK pc \in Places : /\ Moves(t, pc, "", FALSE)
                           /\ t = "writer" => pc = "take"
                           /\ t = "reader" => pc \in {"read", "drain"}
                           /\ t = "pinger" => pc \in {"tick", "over"}
                           /\ t = "closer" => pc = "over"
  BY <1>1, <1>2 DEF Ends, Threads, Places
<1>5. go'[t].pc = pc /\ \A u \in Threads : u # t => go'[u] = go[u]
  BY <1>4 DEF Moves, OthersStay
<1>6. /\ sink'.closed = sink.closed /\ sink'.readerDone = sink.readerDone
      /\ sink'.peerGone <=> sink.peerGone \/ (kind = "socket" /\ epipe)
      /\ fd' = (IF t = "closer" THEN "closed" ELSE fd)
  BY <1>2 DEF Ends
<1>7. UNCHANGED <<kind, peer>> BY DEF Aside
<1>8. go["closer"].pc # "idle" => go'["closer"].pc # "idle"
  BY <1>4, <1>5 DEF Threads
<1>9. ClosesOnce'
  <2> SUFFICES ASSUME NEW u \in Threads, At(u, "closing")' PROVE ~At("closer", "idle")'
    BY DEF ClosesOnce
  <2>1. u # t BY <1>1, <1>4, <1>5 DEF At, Threads
  <2>2. At(u, "closing") BY <1>5, <2>1 DEF At
  <2> QED BY <1>8, <2>2 DEF ClosesOnce, At
<1>10. ReaderStops' BY <1>3, <1>4, <1>5 DEF ReaderStops, Onward, Threads
<1>11. WriterStops' BY <1>3, <1>4, <1>5 DEF WriterStops, Onward, At, Writing, Threads
<1>12. CloseShuts' BY <1>1, <1>4, <1>5, <1>6, <1>7 DEF CloseShuts, At, Threads
<1>13. HalfIsLeft' BY <1>1, <1>4, <1>5, <1>6, <1>7 DEF HalfIsLeft, At, Threads
<1> QED BY <1>9, <1>10, <1>11, <1>12, <1>13

\* t moves to a place where it neither waits for Close nor is over, and the rest
\* of what Parting is about stays.
LEMMA MoveParting ==
    ASSUME Parting, NEW t \in Threads, NEW pc, go'[t].pc = pc,
           \A u \in Threads : u # t => go'[u] = go[u],
           pc \notin {"closing", "finish", "wait", "drain", "over", "idle"}, ~At(t, "over"),
           Onward, UNCHANGED <<kind, peer, fd>>, sink'.closed = sink.closed,
           sink'.peerGone = sink.peerGone, sink'.readerDone = sink.readerDone
    PROVE  Parting'
<1> USE DEF Parting
<1>1. ClosesOnce'
  <2> SUFFICES ASSUME NEW u \in Threads, At(u, "closing")' PROVE ~At("closer", "idle")'
    BY DEF ClosesOnce
  <2>1. At(u, "closing") BY DEF At
  <2> QED BY <2>1 DEF ClosesOnce, At, Threads
<1>2. ReaderStops' BY DEF ReaderStops, Onward, Threads
<1>3. WriterStops' BY DEF WriterStops, Onward, At, Threads
<1>4. CloseShuts' BY DEF CloseShuts, At, Threads
<1>5. HalfIsLeft' BY DEF HalfIsLeft, At, Threads
<1> QED BY <1>1, <1>2, <1>3, <1>4, <1>5

LEMMA WriteParting == ASSUME IInv, Parting, NEW t \in Threads, Write(t) PROVE Parting'
<1>1. At(t, "write") /\ Writing(t) /\ Aside BY DEF Write, At, Writing, Aside
<1>2. CASE Wrote(t, FALSE, FALSE, fd = "open" /\ peer = "gone")
  BY <1>1, <1>2, WroteParting
<1>3. CASE Wrote(t, TRUE, TRUE, FALSE) BY <1>1, <1>3, WroteParting
<1>4. ASSUME NEW some \in BOOLEAN, go' = [go EXCEPT ![t].pc = "stuck", ![t].part = some],
             UNCHANGED <<sub, sink, fd>>
      PROVE  Parting'
  <2>1. Moves(t, "stuck", go[t].msg, some) BY <1>4, SticksMoves DEF IInv, TypeOK
  <2>2. go'[t].pc = "stuck" /\ \A u \in Threads : u # t => go'[u] = go[u]
    BY <2>1 DEF Moves, OthersStay
  <2>3. Onward /\ UNCHANGED <<kind, peer>> BY <1>1, <1>4 DEF Onward, Aside
  <2> QED BY <1>1, <1>4, <2>2, <2>3, MoveParting DEF At
<1> QED BY <1>2, <1>3, <1>4 DEF Write

LEMMA UnstickParting == ASSUME IInv, Parting, NEW t \in Threads, Unstick(t) PROVE Parting'
<1>1. At(t, "stuck") /\ Writing(t) /\ Aside BY DEF Unstick, At, Writing, Aside
<1>2. go[t].part \in BOOLEAN BY DEF IInv, TypeOK, GoType, Stages
<1>3. CASE Wrote(t, FALSE, go[t].part, fd = "open" /\ peer = "gone")
  BY <1>1, <1>2, <1>3, WroteParting
<1>4. CASE Wrote(t, TRUE, TRUE, FALSE) BY <1>1, <1>4, WroteParting
<1> QED BY <1>3, <1>4 DEF Unstick

LEMMA ClientParting == ASSUME IInv, Parting, Client \/ DeadlinePasses PROVE Parting'
<1>1. UNCHANGED <<kind, fd, sub, sink, go>> /\ (peer = "gone" => peer' = "gone")
  BY DEF Client, Stall, Resume, Leave, Says, DeadlinePasses
<1> QED BY <1>1 DEF Parting, ClosesOnce, ReaderStops, WriterStops, CloseShuts, HalfIsLeft, At

\* The body of Close is over, or writes its frame.
LEMMA ClosingParting == ASSUME IInv, Parting, Closing PROVE Parting'
<1> USE DEF IInv, Parting
<1>1. At("closer", "shut") /\ "closer" \in Threads
      /\ UNCHANGED <<kind, peer, lock, sub>>
  BY DEF Closing, SocketClose, StreamClose, WsClose, Threads
<1>2. PICK pc \in {"over", "write"} :
         /\ go'["closer"].pc = pc /\ \A u \in Threads : u # "closer" => go'[u] = go[u]
         /\ SocketClose \/ StreamClose => pc = "over"
         /\ WsClose => IF pc = "over" THEN fd' = "closed" ELSE UNCHANGED fd
  <2>1. CASE SocketClose \/ StreamClose
    <3>1. Moves("closer", "over", go["closer"].msg, go["closer"].part)
      BY <1>1, <2>1, GoesMoves DEF SocketClose, StreamClose, TypeOK, Places
    <3>2. ~WsClose BY <2>1 DEF SocketClose, StreamClose, WsClose
    <3> QED BY <3>1, <3>2 DEF Moves, OthersStay
  <2>2. CASE WsClose
    <3>1. ~SocketClose /\ ~StreamClose BY <2>2 DEF SocketClose, StreamClose, WsClose
    <3>2. CASE Starts("closer", "close") /\ UNCHANGED fd
      <4>1. Moves("closer", "write", "close", FALSE)
        BY <1>1, <3>2, StartsMoves DEF TypeOK, Control
      <4> QED BY <3>1, <3>2, <4>1 DEF Moves, OthersStay
    <3>3. CASE Goes("closer", "over") /\ fd' = "closed"
      <4>1. Moves("closer", "over", go["closer"].msg, go["closer"].part)
        BY <1>1, <3>3, GoesMoves DEF TypeOK, Places
      <4> QED BY <3>1, <3>3, <4>1 DEF Moves, OthersStay
    <3> QED BY <2>2, <3>2, <3>3 DEF WsClose
  <2> QED BY <2>1, <2>2 DEF Closing
<1>3. /\ sink'.peerGone = sink.peerGone /\ sink'.readerDone = sink.readerDone
      /\ StreamClose => sink'.closed
      /\ sink.closed => sink'.closed
  BY DEF Closing, SocketClose, StreamClose, WsClose, TypeOK, SinkType
<1>4. ClosesOnce' BY <1>1, <1>2 DEF ClosesOnce, At
<1>5. ReaderStops' BY <1>1, <1>2 DEF ReaderStops, Threads
<1>6. WriterStops' BY <1>1, <1>2 DEF WriterStops, At, Threads
<1>7. CloseShuts'
  <2>1. CASE SocketClose BY <1>1, <2>1 DEF CloseShuts, SocketClose
  <2>2. CASE StreamClose BY <1>1, <1>3, <2>2 DEF CloseShuts, StreamClose
  <2>3. CASE WsClose BY <1>1, <1>2, <2>3 DEF CloseShuts, WsClose, At
  <2> QED BY <2>1, <2>2, <2>3 DEF Closing
<1>8. HalfIsLeft'
  <2>1. At("reader", "over")' <=> At("reader", "over") BY <1>2 DEF At, Threads
  <2>2. CASE SocketClose
    BY <1>1, <1>3, <2>1, <2>2 DEF HalfIsLeft, SocketClose
  <2>3. CASE StreamClose BY <1>1, <1>3, <2>1, <2>3 DEF HalfIsLeft, StreamClose
  <2>4. CASE WsClose BY <1>1, <1>2, <1>3, <2>1, <2>4 DEF HalfIsLeft, WsClose
  <2> QED BY <2>2, <2>3, <2>4 DEF Closing
<1> QED BY <1>4, <1>5, <1>6, <1>7, <1>8

\* t closes the sink.
LEMMA ShutsParting ==
    ASSUME IInv, Parting, NEW t \in Threads \ {"closer"}, ~At(t, "over"),
           t = "reader" => sub.done, NEW why \in Why, Shuts(t, why),
           Onward, UNCHANGED <<kind, peer, fd>>
    PROVE  Parting'
<1> USE DEF IInv, Parting
<1>1. Closes(t) /\ SinkStays BY ShutsCloses DEF TypeOK
<1>2. /\ \A u \in Threads \ {t, "closer"} : go'[u] = go[u]
      /\ go'[t].pc = "closing"
      /\ go'["closer"].pc = (IF At("closer", "idle") THEN "shut" ELSE go["closer"].pc)
  BY <1>1 DEF Closes
<1>3. /\ sink'.closed = sink.closed /\ sink'.peerGone = sink.peerGone
      /\ sink'.readerDone = sink.readerDone
  BY <1>1 DEF SinkStays
<1>4. At("closer", "over")' <=> At("closer", "over") BY <1>2 DEF At
<1>5. ClosesOnce' BY <1>2 DEF ClosesOnce, At
<1>6. ReaderStops'
  <2>1. CASE t = "reader" BY <2>1 DEF ReaderStops, Onward
  <2>2. CASE t # "reader"
    <3>1. go'["reader"] = go["reader"] BY <1>2, <2>2 DEF Threads
    <3> QED BY <3>1 DEF ReaderStops, Onward
  <2> QED BY <2>1, <2>2
<1>7. WriterStops'
  <2>1. At("writer", "over")' <=> At("writer", "over") BY <1>2 DEF At, Threads
  <2> QED BY <1>4, <2>1 DEF WriterStops, Onward
<1>8. CloseShuts' BY <1>3, <1>4 DEF CloseShuts
<1>9. HalfIsLeft'
  <2>1. At("reader", "over")' <=> At("reader", "over") BY <1>2 DEF At, Threads
  <2> QED BY <1>3, <2>1 DEF HalfIsLeft
<1> QED BY <1>5, <1>6, <1>7, <1>8, <1>9

LEMMA KillParting ==
    ASSUME IInv, Parting, At("hub", "idle"), Kill("hub", "ended"), UNCHANGED <<kind, peer, fd>>
    PROVE  Parting'
<1>1. CASE sub.dead
  <2>1. UNCHANGED <<sub, sink, go>> BY <1>1 DEF Kill
  <2> QED BY <2>1 DEF Parting, ClosesOnce, ReaderStops, WriterStops, CloseShuts, HalfIsLeft, At
<1>2. CASE ~sub.dead
  <2>1. PICK s : s = Because(sub, "ended") OBVIOUS
  <2>2. sub' = [s EXCEPT !.dead = TRUE] /\ Shuts("hub", s.reason) BY <1>2, <2>1 DEF Kill
  <2>3. /\ s.closed = sub.closed /\ s.dead = sub.dead /\ s.done = sub.done
        /\ s \in [head : BOOLEAN, fifo : Nat, finals : Finals, finalized : BOOLEAN,
                  closed : BOOLEAN, dead : BOOLEAN, torn : BOOLEAN, failed : BOOLEAN,
                  reason : Why, done : BOOLEAN]
    BY <2>1, BecauseOnward DEF Why, IInv, TypeOK
  <2>4. Onward /\ s.reason \in Why BY <2>2, <2>3 DEF Onward
  <2>5. "hub" \in Threads \ {"closer"} /\ ~At("hub", "over") BY DEF Threads, At
  <2> QED BY <2>2, <2>4, <2>5, ShutsParting
<1> QED BY <1>1, <1>2

LEMMA HubParting == ASSUME IInv, Parting, Hub PROVE Parting'
<1> USE DEF IInv
<1>1. CASE Publish
  <2>1. CASE sub.fifo < FifoMax
    <3>1. /\ sub' = [sub EXCEPT !.fifo = @ + 1] /\ UNCHANGED <<sink, go, kind, peer, fd>>
      BY <1>1, <2>1 DEF Publish
    <3>2. sub'.closed = sub.closed /\ sub'.dead = sub.dead /\ sub'.done = sub.done
      BY <3>1 DEF TypeOK, SubType
    <3> QED BY <3>1, <3>2
        DEF Parting, ClosesOnce, ReaderStops, WriterStops, CloseShuts, HalfIsLeft, At
  <2>2. CASE ~(sub.fifo < FifoMax) BY <1>1, <2>2, KillParting DEF Publish
  <2> QED BY <2>1, <2>2
<1>2. CASE Finalize
  <2>1. /\ sub'.closed = sub.closed /\ sub'.dead = sub.dead /\ sub'.done = sub.done
        /\ UNCHANGED <<sink, go, kind, peer, fd>>
    BY <1>2 DEF Finalize, TypeOK, SubType
  <2> QED BY <2>1
      DEF Parting, ClosesOnce, ReaderStops, WriterStops, CloseShuts, HalfIsLeft, At
<1>3. CASE FinalizeExpires BY <1>3, KillParting DEF FinalizeExpires
<1>4. CASE HubReturns
  <2>1. Goes("hub", "idle") /\ UNCHANGED <<kind, peer, fd, sub, sink>> BY <1>4 DEF HubReturns
  <2>2. Moves("hub", "idle", go["hub"].msg, go["hub"].part)
    BY <2>1, GoesMoves DEF TypeOK, Places, Threads
  <2>3. go'["hub"].pc = "idle" /\ \A u \in Threads : u # "hub" => go'[u] = go[u]
    BY <2>2 DEF Moves, OthersStay
  <2> QED BY <2>1, <2>3
      DEF Parting, ClosesOnce, ReaderStops, WriterStops, CloseShuts, HalfIsLeft, At, Threads
<1> QED BY <1>1, <1>2, <1>3, <1>4 DEF Hub

LEMMA StartsParting ==
    ASSUME IInv, Parting, NEW t \in Threads, ~At(t, "over"), NEW m \in Data \cup Control,
           Starts(t, m), Onward, UNCHANGED <<kind, peer, fd>>, sink'.closed = sink.closed,
           sink'.peerGone = sink.peerGone, sink'.readerDone = sink.readerDone
    PROVE  Parting'
<1>1. Moves(t, "write", m, FALSE) BY StartsMoves DEF IInv, TypeOK
<1>2. go'[t].pc = "write" /\ \A u \in Threads : u # t => go'[u] = go[u]
  BY <1>1 DEF Moves, OthersStay
<1> QED BY <1>2, MoveParting

LEMMA TakeParting == ASSUME IInv, Parting, Take PROVE Parting'
<1> USE DEF IInv
<1>1. At("writer", "take") /\ UNCHANGED <<kind, peer, fd>> /\ "writer" \in Threads \ {"closer"}
      /\ ~At("writer", "over")
  BY DEF Take, Threads, At
<1>2. sub.reason \in Why /\ "failed" \in Why /\ "ended" \in Why BY DEF TypeOK, SubType, Why
<1>3. ASSUME NEW why \in Why, Shuts("writer", why), UNCHANGED sub PROVE Parting'
  BY <1>1, <1>3, ShutsParting DEF Onward
<1>4. ASSUME NEW m \in Data, Starts("writer", m), UNCHANGED sink, Onward PROVE Parting'
  BY <1>1, <1>4, StartsParting
<1>5. CASE /\ Shuts("writer", IF ~sub.dead /\ sub.torn THEN "failed" ELSE sub.reason)
           /\ UNCHANGED sub
  BY <1>2, <1>3, <1>5
<1>6. CASE sub' = [sub EXCEPT !.head = FALSE] /\ Starts("writer", "aggregate") /\ UNCHANGED sink
  <2>1. Onward BY <1>6 DEF TypeOK, SubType, Onward
  <2> QED BY <1>4, <1>6, <2>1 DEF Data
<1>7. CASE /\ sub.finals # <<>> /\ sub' = [sub EXCEPT !.finals = Tail(@)]
           /\ Starts("writer", Head(sub.finals)) /\ UNCHANGED sink
  <2>1. sub.finals \in {<<"shutdown">>, <<"results", "shutdown">>}
    BY <1>7 DEF TypeOK, SubType, Finals
  <2>2. Head(sub.finals) \in Data
    <3>1. CASE sub.finals = <<"shutdown">>
      <4>1. Head(<<"shutdown">>) = "shutdown" OBVIOUS
      <4> QED BY <3>1, <4>1 DEF Data
    <3>2. CASE sub.finals = <<"results", "shutdown">>
      <4>1. Head(<<"results", "shutdown">>) = "results" OBVIOUS
      <4> QED BY <3>2, <4>1 DEF Data
    <3> QED BY <2>1, <3>1, <3>2
  <2>3. Onward BY <1>7 DEF TypeOK, SubType, Onward
  <2> QED BY <1>4, <1>7, <2>2, <2>3
<1>8. CASE sub' = [sub EXCEPT !.fifo = @ - 1] /\ Starts("writer", "event") /\ UNCHANGED sink
  <2>1. Onward BY <1>8 DEF TypeOK, SubType, Onward
  <2> QED BY <1>4, <1>8, <2>1 DEF Data
<1>9. CASE (Shuts("writer", "ended") \/ Shuts("writer", sub.reason)) /\ UNCHANGED sub
  BY <1>2, <1>3, <1>9
<1> QED BY <1>5, <1>6, <1>7, <1>8, <1>9 DEF Take

LEMMA WriterEndsParting == ASSUME IInv, Parting, WriterEnds PROVE Parting'
<1> USE DEF IInv, Parting
<1>1. /\ At("closer", "over") /\ Goes("writer", "over") /\ "writer" \in Threads
      /\ UNCHANGED <<kind, peer, fd, sink>>
  BY DEF WriterEnds, Shut, Threads
<1>2. Moves("writer", "over", go["writer"].msg, go["writer"].part)
  BY <1>1, GoesMoves DEF TypeOK, Places
<1>3. go'["writer"].pc = "over" /\ \A u \in Threads : u # "writer" => go'[u] = go[u]
  BY <1>2 DEF Moves, OthersStay
<1>4. sub'.done BY DEF WriterEnds, TypeOK, SubType
<1> QED BY <1>1, <1>3, <1>4
    DEF ClosesOnce, ReaderStops, WriterStops, CloseShuts, HalfIsLeft, At, Threads

-----------------------------------------------------------------------------
\* The reader moves without writing, and what it moves on has happened.
LEMMA ReaderParting ==
    ASSUME IInv, Parting, NEW pc \in {"finish", "wait", "drain", "over"}, Goes("reader", pc),
           Onward, sub'.closed \/ sub'.dead \/ sub'.done, UNCHANGED <<kind, peer>>,
           sink'.closed = sink.closed, sink'.peerGone = sink.peerGone,
           HalfIsLeft', CloseShuts'
    PROVE  Parting'
<1> USE DEF IInv, Parting
<1>1. "reader" \in Threads /\ pc \in Places BY DEF Threads, Places
<1>2. Moves("reader", pc, go["reader"].msg, go["reader"].part) BY <1>1, GoesMoves DEF TypeOK
<1>3. go'["reader"].pc = pc /\ \A u \in Threads : u # "reader" => go'[u] = go[u]
  BY <1>2 DEF Moves, OthersStay
<1>4. ClosesOnce' BY <1>3 DEF ClosesOnce, At, Threads
<1>5. ReaderStops' BY DEF ReaderStops
<1>6. WriterStops' BY <1>3 DEF WriterStops, Onward, At, Threads
<1> QED BY <1>4, <1>5, <1>6

\* Where the reader and the closer stand after it has.
LEMMA ReaderGoes ==
    ASSUME GoType, NEW pc \in {"finish", "wait", "drain", "over"}, Goes("reader", pc)
    PROVE  (At("reader", "over")' <=> pc = "over")
           /\ (At("closer", "over")' <=> At("closer", "over"))
<1>1. "reader" \in Threads /\ pc \in Places BY DEF Threads, Places
<1>2. Moves("reader", pc, go["reader"].msg, go["reader"].part) BY <1>1, GoesMoves
<1> QED BY <1>2 DEF Moves, OthersStay, At, Threads

LEMMA SocketReaderParting == ASSUME IInv, Parting, SocketEnds \/ ReaderFinished PROVE Parting'
<1> USE DEF IInv, Parting
<1>1. CASE SocketEnds
  <2>1. Goes("reader", "finish") /\ sub' = SubClose(sub) /\ UNCHANGED <<kind, peer, fd, sink>>
    BY <1>1 DEF SocketEnds
  <2>2. Onward /\ (sub'.closed \/ sub'.dead) BY <2>1, SubCloseOnward DEF TypeOK
  <2>3. ~At("reader", "over")' /\ (At("closer", "over")' <=> At("closer", "over"))
    BY <2>1, ReaderGoes DEF TypeOK
  <2>4. HalfIsLeft' /\ CloseShuts' BY <2>1, <2>3 DEF HalfIsLeft, CloseShuts
  <2> QED BY <2>1, <2>2, <2>4, ReaderParting
<1>2. CASE ReaderFinished
  <2>1. /\ At("reader", "finish") /\ Goes("reader", "over") /\ UNCHANGED <<kind, peer, sub>>
        /\ kind = "socket" /\ fd' = IF fd = "half" THEN "closed" ELSE fd
    BY <1>2 DEF ReaderFinished
  <2>2. /\ sink'.closed = sink.closed /\ sink'.peerGone = sink.peerGone /\ sink'.readerDone
    BY <1>2 DEF ReaderFinished, TypeOK, SinkType
  <2>3. Onward /\ (sub'.closed \/ sub'.dead \/ sub'.done)
    BY <2>1 DEF Onward, ReaderStops, At
  <2>4. At("closer", "over")' <=> At("closer", "over") BY <2>1, ReaderGoes DEF TypeOK
  <2>5. HalfIsLeft' /\ CloseShuts' BY <2>1, <2>2, <2>4 DEF HalfIsLeft, CloseShuts
  <2> QED BY <2>1, <2>2, <2>3, <2>5, ReaderParting
<1> QED BY <1>1, <1>2

LEMMA StreamReaderParting ==
    ASSUME IInv, Parting, StreamOver \/ StreamGone \/ StreamReturns PROVE Parting'
<1> USE DEF IInv, Parting
<1>1. CASE StreamGone
  <2>1. Goes("reader", "wait") /\ sub' = SubClose(sub) /\ UNCHANGED <<kind, peer, fd, sink>>
    BY <1>1 DEF StreamGone
  <2>2. Onward /\ (sub'.closed \/ sub'.dead) BY <2>1, SubCloseOnward DEF TypeOK
  <2>3. ~At("reader", "over")' /\ (At("closer", "over")' <=> At("closer", "over"))
    BY <2>1, ReaderGoes DEF TypeOK
  <2>4. HalfIsLeft' /\ CloseShuts' BY <2>1, <2>3 DEF HalfIsLeft, CloseShuts
  <2> QED BY <2>1, <2>2, <2>4, ReaderParting
<1>2. CASE StreamOver \/ StreamReturns
  <2>1. /\ Goes("reader", "over") /\ fd' = "closed" /\ UNCHANGED <<kind, peer, sub, sink>>
        /\ kind = "stream" /\ (sub.done \/ At("reader", "wait"))
    BY <1>2 DEF StreamOver, StreamReturns
  <2>2. Onward /\ (sub'.closed \/ sub'.dead \/ sub'.done)
    BY <2>1 DEF Onward, ReaderStops, At
  <2>3. At("closer", "over")' <=> At("closer", "over") BY <2>1, ReaderGoes DEF TypeOK
  <2>4. HalfIsLeft' /\ CloseShuts' BY <2>1, <2>3 DEF HalfIsLeft, CloseShuts
  <2> QED BY <2>1, <2>2, <2>4, ReaderParting
<1> QED BY <1>1, <1>2

LEMMA WsReaderParting ==
    ASSUME IInv, Parting, ReadFrame \/ WsEnds \/ WsDrained \/ WsReturns PROVE Parting'
<1> USE DEF IInv, Parting
<1>1. CASE ReadFrame
  <2>1. /\ At("reader", "read") /\ "reader" \in Threads
        /\ UNCHANGED <<kind, peer, fd, sub>>
    BY <1>1 DEF ReadFrame, Threads
  <2>2. /\ sink'.closed = sink.closed /\ sink'.peerGone = sink.peerGone
        /\ sink'.readerDone = sink.readerDone
    BY <1>1 DEF ReadFrame, TypeOK, SinkType
  <2>3. CASE \E m \in {"pong", "echo"} : Starts("reader", m)
    BY <2>1, <2>2, <2>3, StartsParting DEF Onward, Control, At
  <2>4. CASE UNCHANGED go
    BY <2>1, <2>2, <2>4 DEF ClosesOnce, ReaderStops, WriterStops, CloseShuts, HalfIsLeft, At
  <2> QED BY <1>1, <2>3, <2>4 DEF ReadFrame
<1>2. CASE WsEnds
  <2>1. Goes("reader", "drain") /\ sub' = SubClose(sub) /\ UNCHANGED <<kind, peer, fd, sink>>
    BY <1>2 DEF WsEnds
  <2>2. Onward /\ (sub'.closed \/ sub'.dead) BY <2>1, SubCloseOnward DEF TypeOK
  <2>3. ~At("reader", "over")' /\ (At("closer", "over")' <=> At("closer", "over"))
    BY <2>1, ReaderGoes DEF TypeOK
  <2>4. HalfIsLeft' /\ CloseShuts' BY <2>1, <2>3 DEF HalfIsLeft, CloseShuts
  <2> QED BY <2>1, <2>2, <2>4, ReaderParting
<1>3. CASE WsDrained
  <2>1. /\ sub.done /\ Shuts("reader", "ended") /\ UNCHANGED <<kind, peer, fd, sub>>
        /\ "reader" \in Threads \ {"closer"} /\ ~At("reader", "over") /\ "ended" \in Why
    BY <1>3 DEF WsDrained, Threads, At, Why
  <2> QED BY <2>1, ShutsParting DEF Onward
<1>4. CASE WsReturns
  <2>1. /\ Goes("reader", "over") /\ At("reader", "closing")
        /\ UNCHANGED <<kind, peer, sub, sink, fd>>
    BY <1>4 DEF WsReturns, Shut
  <2>2. kind = "ws" BY <2>1 DEF Stands, At, TypeOK, WireType
  <2>3. Onward /\ (sub'.closed \/ sub'.dead \/ sub'.done)
    BY <2>1 DEF Onward, ReaderStops, At
  <2>4. At("closer", "over")' <=> At("closer", "over") BY <2>1, ReaderGoes DEF TypeOK
  <2>5. HalfIsLeft' /\ CloseShuts' BY <2>1, <2>2, <2>4 DEF HalfIsLeft, CloseShuts
  <2> QED BY <2>1, <2>3, <2>5, ReaderParting
<1> QED BY <1>1, <1>2, <1>3, <1>4

LEMMA PingerParting == ASSUME IInv, Parting, Pinger PROVE Parting'
<1> USE DEF IInv, Parting
<1>1. CASE Ping
  <2>1. /\ UNCHANGED <<kind, peer, fd, sub>> /\ "pinger" \in Threads \ {"closer"}
        /\ ~At("pinger", "over") /\ Onward /\ "ended" \in Why
    BY <1>1 DEF Ping, Threads, At, Onward, Why
  <2>2. CASE Shuts("pinger", "ended") BY <2>1, <2>2, ShutsParting
  <2>3. CASE Starts("pinger", "ping") /\ UNCHANGED sink
    BY <2>1, <2>3, StartsParting DEF Control
  <2> QED BY <1>1, <2>2, <2>3 DEF Ping
<1>2. CASE PingerEnds
  <2>1. Goes("pinger", "over") /\ UNCHANGED <<kind, peer, fd, sub, sink>> /\ "pinger" \in Threads
    BY <1>2 DEF PingerEnds, Threads
  <2>2. Moves("pinger", "over", go["pinger"].msg, go["pinger"].part)
    BY <2>1, GoesMoves DEF TypeOK, Places
  <2>3. go'["pinger"].pc = "over" /\ \A u \in Threads : u # "pinger" => go'[u] = go[u]
    BY <2>2 DEF Moves, OthersStay
  <2> QED BY <2>1, <2>3
      DEF ClosesOnce, ReaderStops, WriterStops, CloseShuts, HalfIsLeft, At, Threads
<1> QED BY <1>1, <1>2 DEF Pinger

LEMMA InitParts == Init => Parting
<1> SUFFICES ASSUME Init PROVE Parting OBVIOUS
<1>1. /\ go["writer"].pc = "take" /\ go["reader"].pc = "read" /\ go["hub"].pc = "idle"
      /\ go["closer"].pc = "idle" /\ go["pinger"].pc = (IF kind = "ws" THEN "tick" ELSE "idle")
  BY DEF Init, Threads
<1>2. ~sub.done /\ ~sink.peerGone /\ fd = "open" BY DEF Init
<1> QED BY <1>1, <1>2
    DEF Parting, ClosesOnce, ReaderStops, WriterStops, CloseShuts, HalfIsLeft, At, Threads

LEMMA NextParts == IInv /\ Parting /\ [Next]_vars => Parting'
<1> SUFFICES ASSUME IInv, Parting, [Next]_vars PROVE Parting' OBVIOUS
<1>1. ASSUME NEW t \in Threads, Write(t) \/ Unstick(t) PROVE Parting'
  BY <1>1, WriteParting, UnstickParting
<1>2. CASE DeadlinePasses \/ Client BY <1>2, ClientParting
<1>3. CASE Closing BY <1>3, ClosingParting
<1>4. CASE Publish \/ Finalize \/ FinalizeExpires \/ HubReturns BY <1>4, HubParting DEF Hub
<1>5. CASE Writer BY <1>5, TakeParting, WriterEndsParting DEF Writer
<1>6. CASE ReadLine
  BY <1>6 DEF ReadLine, Parting, ClosesOnce, ReaderStops, WriterStops, CloseShuts, HalfIsLeft, At
<1>7. CASE Reader
  BY <1>6, <1>7, SocketReaderParting, StreamReaderParting, WsReaderParting DEF Reader
<1>8. CASE Pinger BY <1>8, PingerParting
<1>9. CASE UNCHANGED vars
  BY <1>9
  DEF vars, Parting, ClosesOnce, ReaderStops, WriterStops, CloseShuts, HalfIsLeft, At
<1> QED BY <1>1, <1>2, <1>3, <1>4, <1>5, <1>7, <1>8, <1>9 DEF Next, Running

-----------------------------------------------------------------------------
\* Quiescent leaves nothing of Running to do.
LEMMA QuietWhenQuiescent == ASSUME TypeOK, Quiescent PROVE ~Running
<1>1. ASSUME NEW t \in Threads PROVE ~Write(t) /\ ~Unstick(t) BY DEF Quiescent, Write, Unstick, At
<1>2. ~DeadlinePasses
  <2> SUFFICES ASSUME ~late, NEW t \in Threads, Writing(t) PROVE FALSE BY DEF DeadlinePasses
  <2> QED BY DEF Quiescent, Writing, At
<1>3. \A t \in Threads \ {"closer"} : ~Shut(t) BY DEF Quiescent, Shut
<1>4. ~Closing /\ ~HubReturns
  <2>1. ~SocketClose /\ ~StreamClose /\ ~WsClose
    BY DEF Quiescent, SocketClose, StreamClose, WsClose
  <2>2. ~HubReturns BY <1>3 DEF HubReturns, Threads
  <2> QED BY <2>1, <2>2 DEF Closing
<1>5. ~FinalizeExpires
  <2> SUFFICES ASSUME FinalizeExpires PROVE FALSE OBVIOUS
  <2>1. At("hub", "idle") /\ sub.finalized /\ ~sub.done /\ ~sub.dead /\ late /\ Len(sub.finals) < 2
    BY DEF FinalizeExpires
  <2> QED BY <2>1 DEF Quiescent
<1>6. ~Writer
  <2>1. ~Take BY DEF Quiescent, Take
  <2>2. ~WriterEnds BY <1>3 DEF WriterEnds, Threads
  <2> QED BY <2>1, <2>2 DEF Writer
<1>7. ~Reader
  <2>1. ~ReadLine /\ ~SocketEnds /\ ~ReaderFinished
    BY DEF Quiescent, ReadLine, SocketEnds, ReaderFinished
  <2>2. ~StreamOver /\ ~StreamGone /\ ~StreamReturns
    BY DEF Quiescent, StreamOver, StreamGone, StreamReturns
  <2>3. ~ReadFrame /\ ~WsEnds /\ ~WsDrained
    BY DEF Quiescent, ReadFrame, WsEnds, WsDrained
  <2>4. ~WsReturns BY <1>3 DEF WsReturns, Threads
  <2> QED BY <2>1, <2>2, <2>3, <2>4 DEF Reader
<1>8. ~Pinger
  <2>1. ~Ping
    <3> SUFFICES ASSUME Ping PROVE FALSE OBVIOUS
    <3>1. At("pinger", "tick") /\ (peer # "reads" \/ sent < MaxSent) BY DEF Ping
    <3> QED BY <3>1, ConnectionBounds DEF Quiescent, TypeOK, WireType
  <2>2. ~PingerEnds BY <1>3 DEF PingerEnds, Quiescent, Threads
  <2> QED BY <2>1, <2>2 DEF Pinger
<1> QED BY <1>1, <1>2, <1>4, <1>5, <1>6, <1>7, <1>8 DEF Running

\* While nothing can run nobody is in a write or waits for Close, and Close is over
\* or was never begun.
LEMMA NobodyIsHeld ==
    ASSUME IInv, Parting, Quiescent
    PROVE  /\ lock = Nobody /\ go["closer"].pc \in {"idle", "over"}
           /\ \A t \in Threads : go[t].pc \notin {"write", "stuck", "closing"}
<1> USE DEF IInv, Parting
<1>1. lock = Nobody
  <2>1. lock \notin Threads BY DEF Quiescent, OneWrites
  <2> QED BY <2>1 DEF TypeOK, WireType
<1>2. \A t \in Threads : go[t].pc \notin {"write", "stuck"} BY <1>1 DEF Quiescent, At
<1>3. go["closer"].pc \in {"idle", "over"}
  <2>1. ~At("closer", "shut") BY <1>1 DEF Quiescent
  <2> QED BY <1>2, <2>1 DEF Stands, At, Threads
<1>4. \A t \in Threads : ~At(t, "closing")
  <2> SUFFICES ASSUME NEW t \in Threads, At(t, "closing") PROVE FALSE OBVIOUS
  <2>1. t # "closer" BY <1>3 DEF At
  <2>2. ~At("closer", "over") BY <2>1 DEF Quiescent
  <2>3. ~At("closer", "idle") BY DEF ClosesOnce
  <2> QED BY <1>3, <2>2, <2>3 DEF At
<1> QED BY <1>1, <1>2, <1>3, <1>4 DEF At

\* The writer is not waiting: it would for a client that has left, and then the
\* reader has stopped too and the Sub is ended.
LEMMA TheWriterIsDone ==
    ASSUME IInv, Parting, Quiescent,
           peer = "gone" \/ sub.dead \/ sub.closed \/ sub.failed \/ sub.finalized
    PROVE  sub.done /\ At("writer", "over") /\ At("closer", "over")
<1> USE DEF IInv, Parting
<1>1. \A t \in Threads : go[t].pc \notin {"write", "stuck", "closing"} BY NobodyIsHeld
<1>2. SUFFICES ASSUME At("writer", "take") PROVE FALSE
  BY <1>1 DEF Stands, WriterStops, At, Threads
<1>3. ~sub.done BY <1>2 DEF WriterStops, At
<1>4. ~sub.dead /\ ~sub.closed /\ peer = "gone" BY <1>2 DEF Quiescent
<1>5. ~At("reader", "read") BY <1>4 DEF Quiescent
<1>6. go["reader"].pc \notin {"finish", "wait", "drain", "over"}
  BY <1>3, <1>4 DEF ReaderStops
<1>7. go["reader"].pc \notin {"write", "stuck", "closing"} BY <1>1 DEF Threads
<1> QED BY <1>5, <1>6, <1>7 DEF Stands, At, TypeOK, WireType

\* The reader is then over, the last to go, and the connection with it.
LEMMA TheReaderIsOver ==
    ASSUME IInv, Parting, Quiescent, sub.done, At("closer", "over")
    PROVE  At("reader", "over") /\ fd = "closed"
<1> USE DEF IInv, Parting
<1>1. \A t \in Threads : go[t].pc \notin {"write", "stuck", "closing"} BY NobodyIsHeld
<1>2. CASE kind = "socket"
  <2>1. ~At("reader", "finish") BY DEF Quiescent
  <2>2. fd # "open" BY <1>2 DEF CloseShuts
  <2>3. ~At("reader", "read")
    <3> SUFFICES ASSUME At("reader", "read") PROVE FALSE OBVIOUS
    <3>1. fd # "closed" /\ peer # "gone" BY <1>2 DEF Quiescent
    <3>2. fd = "half" BY <2>2, <3>1 DEF TypeOK, WireType
    <3> QED BY <3>1, <3>2 DEF HalfIsLeft
  <2>4. At("reader", "over") BY <1>2, <2>1, <2>3 DEF Stands, At
  <2> QED BY <2>2, <2>4 DEF HalfIsLeft, TypeOK, WireType
<1>3. CASE kind = "stream"
  <2>1. ~At("reader", "read") BY <1>3 DEF Quiescent
  <2>2. sink.closed BY <1>3 DEF CloseShuts
  <2>3. ~At("reader", "wait") BY <2>2 DEF Quiescent
  <2>4. At("reader", "over") BY <1>3, <2>1, <2>3 DEF Stands, At
  <2> QED BY <1>3, <2>4 DEF HalfIsLeft
<1>4. CASE kind = "ws"
  <2>1. fd = "closed" BY <1>4 DEF CloseShuts
  <2>2. ~At("reader", "read") BY <1>4, <2>1 DEF Quiescent
  <2>3. ~At("reader", "drain") BY DEF Quiescent
  <2>4. go["reader"].pc \notin {"write", "stuck", "closing"} BY <1>1 DEF Threads
  <2> QED BY <1>4, <2>1, <2>2, <2>3, <2>4 DEF Stands, At
<1> QED BY <1>2, <1>3, <1>4 DEF TypeOK, WireType

\* However the connection ends, whenever nothing of magmux's can move any more the
\* connection is closed, its writer is done, no lock is held and no goroutine is left
\* behind, a Publish that had to close it included (sub.go, the sinks' Close, and the
\* ends of handleSocketConn, handleEvents and handleWS).
THEOREM EverybodyLetsGo == Spec => []EveryoneLetsGo
<1>1. IInv /\ Parting => EveryoneLetsGo
  <2> SUFFICES ASSUME IInv, Parting, Quiescent,
                      peer = "gone" \/ sub.dead \/ sub.closed \/ sub.failed \/ sub.finalized
               PROVE  /\ fd = "closed" /\ sub.done /\ lock = Nobody
                      /\ \A t \in Threads : go[t].pc \in {"over", "idle"}
    BY DEF EveryoneLetsGo
  <2>1. /\ lock = Nobody
        /\ \A t \in Threads : go[t].pc \notin {"write", "stuck", "closing"}
    BY NobodyIsHeld
  <2>2. sub.done /\ At("writer", "over") /\ At("closer", "over") BY TheWriterIsDone
  <2>3. At("reader", "over") /\ fd = "closed" BY <2>2, TheReaderIsOver
  <2>4. go["pinger"].pc \in {"over", "idle"}
    <3>1. ~At("pinger", "tick") BY <2>2 DEF Quiescent
    <3>2. go["pinger"].pc \notin {"write", "stuck", "closing"} BY <2>1 DEF Threads
    <3> QED BY <3>1, <3>2 DEF IInv, Stands, At, TypeOK, WireType
  <2>5. go["hub"].pc = "idle" BY <2>1 DEF IInv, Stands, Threads
  <2> QED BY <2>1, <2>2, <2>3, <2>4, <2>5 DEF At, Threads
<1> QED BY <1>1, InitHolds, NextHolds, InitParts, NextParts, PTL DEF Spec

-----------------------------------------------------------------------------
(* The turn.                                                               *)
Phases == {"idle", "entered", "busy", "said", "asking", "stopped"}
States == {"starting", "working", "awaiting_input", "awaiting_permission"}
Shots  == [state : States \cup {"unknown"}, resp : Nat]
Lines  == [kind : {"user", "assistant", "tool", "stop"}, turn : Nat]
News   == [kind : {"snapshot", "reply", "results", "end"}, at : Shots]

ToolTypes ==
    /\ cfg \in [kind : {"claude", "plugin"}, found : BOOLEAN, hook : BOOLEAN]
    /\ IF Claude THEN cfg.hook => cfg.found ELSE ~cfg.found /\ ~cfg.hook
    /\ tool \in [phase : Phases, turn : Nat, said : Nat, told : BOOLEAN]
    /\ tool.said \in {0, tool.turn}
    /\ record \in Seq(Lines)
    /\ plug \in [saw : Phases, up : BOOLEAN]
MuxTypes ==
    /\ pane \in [ready : BOOLEAN, signal : {"", "osc", "2004", "title", "idle", "ctrl", "perm"},
                 newer : BOOLEAN, clock : BOOLEAN]
    /\ ctrl \in [state : States, resp : Nat, injected : BOOLEAN, read : Nat]
    /\ pub \in Shots
    /\ poll \in [pc : {"wait", "read", "merge", "apply", "publish"}, size : Nat,
                 idle : BOOLEAN, ev : Shots]
    /\ send \in {"none", "asked", "admitted", "typed", "entered"}
ClientTypes ==
    /\ wire \in Seq(News)
    /\ view \in [state : States \cup {"unknown"}, resp : Nat, closed : BOOLEAN, ended : BOOLEAN]
    /\ turn \in [pc : {"rest", "sent", "look", "sub", "again", "park", "take"},
                 phase : {"start", "settle"}, sends : Nat, before : Nat, mine : Nat,
                 result : [how : {"none", "turn", "unseen", "stalled", "error"},
                           state : States \cup {"unknown"}, resp : Nat]]
    /\ over \in BOOLEAN
TurnTypes == ToolTypes /\ MuxTypes /\ ClientTypes

-----------------------------------------------------------------------------
(* The steps, each with the part of magmux that is over or not.            *)

LEMMA TurnSteps ==
    ASSUME [TurnNext]_turnVars
    PROVE  \/ ~over /\ over' = over /\ ToolBegins
           \/ ~over /\ over' = over /\ ToolSays
           \/ ~over /\ over' = over /\ ToolStops
           \/ ~over /\ over' = over /\ ToolRests
           \/ ~over /\ over' = over /\ ToolTells
           \/ ~over /\ over' = over /\ ToolAsks
           \/ ~over /\ over' = over /\ PersonAnswers
           \/ ~over /\ over' = over /\ Push
           \/ ~over /\ over' = over /\ PluginLeaves
           \/ ~over /\ over' = over /\ PollBegin
           \/ ~over /\ over' = over /\ PollRead
           \/ ~over /\ over' = over /\ PollMerge
           \/ ~over /\ over' = over /\ PollPaneIdle
           \/ ~over /\ over' = over /\ PollPlugin
           \/ ~over /\ over' = over /\ PollApply
           \/ ~over /\ over' = over /\ PollPublish
           \/ ~over /\ over' = over /\ IdleFires
           \/ ~over /\ over' = over /\ Admit
           \/ ~over /\ over' = over /\ Type
           \/ ~over /\ over' = over /\ Enter
           \/ ~over /\ over' = over /\ Answer
           \/ Quit \/ Ingest
           \/ WaitLooks \/ WaitSubscribes \/ WaitLooksAgain \/ WaitWakes
           \/ TurnTakes \/ SendFails \/ WaitTimesOut \/ RunBegin
           \/ UNCHANGED turnVars
BY DEF TurnNext, Alive, Tool, Poll, Deliver, Waiter

-----------------------------------------------------------------------------
\* Sets of naturals have a least element: the intervals they end are finite, and
\* strict inclusion is well founded on them.
LEMMA LeastLine ==
    ASSUME NEW T, T \subseteq Nat, T # {}
    PROVE  \E x \in T : \A y \in T : x <= y
<1> DEFINE Heads == {0..x : x \in T}
<1>1. Heads \subseteq FiniteSubsetsOf(Nat) /\ Heads # {}
  <2>1. \A x \in T : IsFiniteSet(0..x) /\ (0..x) \subseteq Nat BY FS_Interval
  <2> QED BY <2>1 DEF FiniteSubsetsOf
<1>2. IsWellFoundedOn(StrictSubsetOrdering(Nat), FiniteSubsetsOf(Nat))
  BY FS_StrictSubsetOrderingWellFounded
<1>3. PICK X \in Heads : \A Y \in Heads : ~ (<<Y, X>> \in StrictSubsetOrdering(Nat))
  <2> HIDE DEF Heads
  <2> QED BY <1>1, <1>2, WFMin
<1>4. PICK x \in T : X = 0..x OBVIOUS
<1>5. ASSUME NEW y \in T, y < x PROVE FALSE
  <2>1. (0..y) \in Heads /\ (0..y) \subseteq X /\ (0..y) # X BY <1>4, <1>5
  <2>2. <<0..y, X>> \in StrictSubsetOrdering(Nat) BY <2>1, <1>4 DEF StrictSubsetOrdering
  <2> QED BY <1>3, <2>1, <2>2
<1> QED BY <1>5

\* The recursion of Scanned has a solution, so Scanned is its last value.
LEMMA ScannedIsScan ==
    ASSUME NEW c, NEW last \in Nat, c.read \in Nat, c.read <= last
    PROVE  \E f : /\ f = [n \in c.read .. last |->
                            IF n = c.read THEN c ELSE Apply(f[n - 1], record[n])]
                  /\ Scanned(c, last) = f[last]
<1> DEFINE a == c.read
           Solves(g, m) == g = [n \in a .. m |-> IF n = a THEN c ELSE Apply(g[n - 1], record[n])]
           T == {m \in Nat : a <= m /\ ~ \E g : Solves(g, m)}
<1>1. ASSUME NEW x \in T, \A y \in T : x <= y PROVE FALSE
  <2>1. CASE x = a
    <3>1. Solves([n \in a .. a |-> c], a) OBVIOUS
    <3> QED BY <2>1, <3>1
  <2>2. CASE x # a
    <3>1. x - 1 \in Nat /\ a <= x - 1 /\ x - 1 \notin T BY <1>1, <2>2
    <3>2. PICK g : Solves(g, x - 1) BY <3>1
    <3> DEFINE h == [n \in a .. x |-> IF n = x THEN Apply(g[x - 1], record[x]) ELSE g[n]]
    <3>3. \A n \in a .. x - 1 : h[n] = g[n] BY <1>1, <3>1
    <3>4. h[x] = Apply(h[x - 1], record[x]) BY <1>1, <3>1, <3>3
    <3>5. \A n \in a .. x : h[n] = IF n = a THEN c ELSE Apply(h[n - 1], record[n])
      <4> TAKE n \in a .. x
      <4>1. CASE n = x BY <4>1, <3>4, <2>2
      <4>2. CASE n # x
        <5>1. n \in a .. x - 1 /\ (n # a => n - 1 \in a .. x - 1) BY <1>1, <3>1, <4>2
        <5>2. g[n] = IF n = a THEN c ELSE Apply(g[n - 1], record[n]) BY <3>2, <5>1
        <5> QED BY <3>3, <5>1, <5>2
      <4> QED BY <4>1, <4>2
    <3>6. h = [n \in a .. x |-> h[n]] OBVIOUS
    <3> HIDE DEF h
    <3>7. Solves(h, x) BY <3>5, <3>6
    <3> QED BY <1>1, <3>7
  <2> QED BY <2>1, <2>2
<1>2. T = {}
  <2> HIDE DEF T
  <2> QED BY <1>1, LeastLine, T \subseteq Nat DEF T
<1>3. \E g : Solves(g, last) BY <1>2
<1>4. DEFINE f == CHOOSE g : Solves(g, last)
<1>5. Solves(f, last) BY <1>3
<1>6. Scanned(c, last) = f[last] BY DEF Scanned
<1> QED BY <1>5, <1>6

\* What holds of c, and is kept by each line, holds of the scan: within[n] is
\* what holds after n lines.
LEMMA ScanWithin ==
    ASSUME NEW c, NEW last \in Nat, c.read \in Nat, c.read <= last,
           NEW within, c \in within[c.read],
           \A n \in c.read + 1 .. last :
             \A d \in within[n - 1] : Apply(d, record[n]) \in within[n]
    PROVE  Scanned(c, last) \in within[last]
<1>1. PICK f : /\ f = [n \in c.read .. last |->
                         IF n = c.read THEN c ELSE Apply(f[n - 1], record[n])]
               /\ Scanned(c, last) = f[last]
  BY ScannedIsScan
<1> DEFINE T == {n \in Nat : n \in c.read .. last /\ f[n] \notin within[n]}
<1>2. ASSUME NEW x \in T, \A y \in T : x <= y PROVE FALSE
  <2>1. x \in c.read .. last /\ x \in Nat /\ f[x] \notin within[x] OBVIOUS
  <2>2. CASE x = c.read BY <1>1, <2>1, <2>2
  <2>3. CASE x # c.read
    <3>1. x - 1 \in Nat /\ x - 1 \in c.read .. last /\ x \in c.read + 1 .. last BY <2>1, <2>3
    <3>2. f[x - 1] \in within[x - 1] BY <1>2, <3>1
    <3>3. f[x] = Apply(f[x - 1], record[x]) BY <1>1, <2>1, <2>3
    <3> QED BY <2>1, <3>1, <3>2, <3>3
  <2> QED BY <2>2, <2>3
<1>3. T = {}
  <2> HIDE DEF T
  <2> QED BY <1>2, LeastLine, T \subseteq Nat DEF T
<1>4. last \in c.read .. last OBVIOUS
<1>5. f[last] \in within[last] BY <1>3, <1>4
<1> QED BY <1>1, <1>5

-----------------------------------------------------------------------------
Before  == send \in {"asked", "admitted", "typed"}
Waiting == turn.pc # "rest" /\ ~over
IsReply(i) == i \in 1..Len(wire) /\ wire[i].kind = "reply"

\* An instruction is under way, or its answer is, exactly while the client has sent
\* one; until magmux ends there is nothing on the wire but news and that answer.
Asking ==
    /\ ~over =>
         /\ turn.pc = "sent" <=> (send # "none" \/ \E i \in 1..Len(wire) : IsReply(i))
         /\ send # "none" => \A i \in 1..Len(wire) : ~IsReply(i)
         /\ \A i, j \in 1..Len(wire) : IsReply(i) /\ IsReply(j) => i = j
         /\ ~view.ended
         /\ \A i \in 1..Len(wire) : wire[i].kind \in {"snapshot", "reply"}
    /\ over => view.ended \/ \E i \in 1..Len(wire) : wire[i].kind = "end"

\* Whose turn the tool is on.
Numbered ==
    /\ turn.mine <= tool.turn
    /\ Waiting /\ turn.mine # 0 => turn.mine = tool.turn
    /\ Before => turn.mine = 0
    /\ Waiting => turn.result.how = "none"
    /\ Waiting /\ turn.mine = 0 => tool.phase = "idle"
    /\ ~over /\ turn.pc = "rest" => tool.phase # "entered"
    /\ tool.turn = 0 => tool.phase = "idle" /\ tool.told
    /\ Before /\ ~over => tool.told
    /\ tool.phase = "entered" => tool.told

AtRestThere == tool.phase \in {"idle", "asking"} /\ tool.told

\* What the pane's own signs say: a tool that rests, which its plugin has reported.
PaneSigns ==
    /\ ~Claude /\ AtRestThere => plug.saw = tool.phase \/ ~plug.up
    /\ pane.ready /\ pane.signal \notin {"ctrl", "perm"} => AtRestThere
    /\ send = "typed" /\ ~over => ~PaneIdle
    /\ ~Claude /\ poll.pc = "merge" /\ poll.idle => AtRestThere \/ tool.phase = "entered"
\* A pane whose controller is at work is ready by a sign newer than what was read.
ShownAtWork ==
    poll.pc \in {"wait", "publish"} /\ pub.state \in {"working", "starting"}
    /\ pane.ready /\ pane.signal # "perm" => pane.signal # "ctrl" /\ pane.newer
ClockRuns == AtRestThere /\ Waiting /\ turn.mine # 0 => pane.clock
IdleIsRead == PaneIdle /\ poll.pc = "merge" /\ cfg.found => ctrl.read = Len(record)
Signs == PaneSigns /\ ShownAtWork /\ ClockRuns /\ IdleIsRead

IsNews(p) ==
    \/ p = 0
    \/ p \in 1..Len(wire) /\ wire[p].kind = "snapshot"
    \/ p = Len(wire) + 1 /\ poll.pc \in {"apply", "publish"}
\* What is said of the pane, in the order the client hears it: what it knows, what is
\* on the wire, what is about to be.
Heard(p) == IF p = 0 THEN Snap(view.state, view.resp)
            ELSE IF p <= Len(wire) THEN wire[p].at ELSE poll.ev

\* The last that was published is the last the client will hear.
LastIsPublished ==
    ~over =>
      /\ poll.pc = "publish" => poll.ev = pub
      /\ poll.pc # "publish" /\ pub # NoSnap =>
           \A p \in 0..Len(wire) :
             IsNews(p) /\ (\A q \in p + 1 .. Len(wire) : ~IsNews(q)) => Heard(p) = pub

\* The record is in the order of the turns, a turn's first line being the user's.
InOrder ==
    /\ \A k \in 1..Len(record) : record[k].turn \in 1..tool.turn
    /\ \A k, l \in 1..Len(record) : k < l => record[k].turn <= record[l].turn
    /\ \A k, l \in 1..Len(record) :
         k < l /\ record[l].kind = "user" => record[k].turn < record[l].turn
    /\ tool.phase # "entered" /\ tool.turn > 0 =>
         \E k \in 1..Len(record) : record[k].kind = "user" /\ record[k].turn = tool.turn
    /\ tool.phase = "entered" => \A k \in 1..Len(record) : record[k].turn < tool.turn
    /\ tool.phase \in {"busy", "said", "asking"} =>
         \A k \in 1..Len(record) : record[k].kind = "stop" => record[k].turn < tool.turn

\* How far the controller has read.
ReadSoFar ==
    /\ ctrl.read <= Len(record) /\ poll.size <= Len(record)
    /\ poll.pc = "read" => cfg.found /\ ctrl.read < poll.size
    /\ poll.pc = "merge" /\ cfg.found => ctrl.read = poll.size
    /\ ~cfg.found => ctrl.read = 0

\* What the controller makes of it.
Concluded ==
    /\ ctrl.state = "awaiting_permission" => ~Claude
    /\ ~Claude /\ ctrl.state \notin Settled => ctrl.resp = 0
    /\ Claude /\ ~cfg.found => ctrl.resp = 0
    /\ ~Claude /\ plug.up =>
         /\ plug.saw = "asking" => ctrl.state = "awaiting_permission" /\ ~ctrl.injected
         /\ plug.saw = "idle" => ctrl.state # "awaiting_permission"
         /\ Waiting /\ turn.mine = 0 => plug.saw = "idle"

Unread == ctrl.read + 1 .. Len(record)
\* What is still to be read leaves a controller that has settled settled.
StaysSettled ==
    cfg.found => \A k \in Unread : record[k].kind = "user" =>
                    \E l \in Unread : k < l /\ record[l].kind = "stop"
\* What is still to be read settles it.
WillSettle ==
    cfg.found /\ \E k \in Unread : /\ record[k].kind = "stop"
                                   /\ \A l \in Unread : k < l => record[l].kind # "user"
\* A poll that has read knows what it will read again.
Caught ==
    poll.pc = "merge" /\ cfg.found =>
      /\ ctrl.state \in Settled => StaysSettled
      /\ ctrl.state \notin Settled => ~WillSettle
      /\ Waiting /\ turn.mine # 0 /\ tool.phase # "entered" => ctrl.resp \in {0, turn.mine}

\* Something is about to tell a controller at work that its tool rests.
SignOfRest ==
    \/ PaneIdle /\ send # "admitted"
    \/ ~Claude /\ poll.pc = "merge" /\ poll.idle
    \/ WillSettle

\* The answer that the controller has is of the client's turn, or will be.
OwnAnswer ==
    Waiting /\ turn.mine # 0 =>
      /\ cfg.found /\ tool.phase # "entered" =>
           \/ ctrl.resp \in {0, turn.mine}
           \/ \E k \in Unread : record[k].kind = "user" /\ record[k].turn = turn.mine
      /\ ~Claude => ctrl.injected \/ ctrl.resp \in {0, turn.mine}
OwnAnswerToCome ==
    Waiting /\ ~Claude /\ send \in {"admitted", "typed"} => ctrl.injected \/ ctrl.resp = 0

Rests(p) == IsNews(p) /\ Heard(p).state \in Settled
Works(p) == IsNews(p) /\ Heard(p).state \notin Settled
SawWork == turn.pc \notin {"rest", "sent"} /\ turn.phase = "settle"
SomeWork == SawWork \/ \E p \in Nat : Works(p)
\* News of rest that comes after news of work.
Late(p) == Rests(p) /\ (SawWork \/ \E q \in Nat : q < p /\ Works(q))

\* The client's turn is over, and the controller will not say otherwise.
TurnRests ==
    /\ ctrl.state \in Settled /\ ~ctrl.injected /\ StaysSettled
    /\ ~Before /\ tool.phase \in {"stopped", "idle", "asking"}
    /\ turn.mine # 0 => ctrl.resp \in {0, turn.mine}
    /\ ~Claude /\ plug.up => tool.phase \in {"idle", "asking"} /\ plug.saw = tool.phase

PluginBehind == ~Claude /\ plug.up /\ ~(tool.phase \in {"idle", "asking"} /\ plug.saw = tool.phase)
\* The controller of a tool at rest stays where it is.
Stays == ctrl.state \in Settled /\ (~Claude /\ plug.up => tool.phase = "idle")

AtWork == Before \/ (turn.mine # 0 /\ (tool.phase \in {"entered", "busy", "said"} \/ PluginBehind))

\* After news of rest that comes after news of work, there is news of rest only.
RestIsLast == \A p, q \in Nat : Late(p) /\ p < q /\ IsNews(q) => Rests(q)
\* Such news is of the turn's end, and has its answer or none.
LateIsOver ==
    \A p \in Nat : Late(p) =>
      /\ TurnRests /\ (turn.mine # 0 => Heard(p).resp \in {0, turn.mine})
      /\ Heard(p).state = "awaiting_input" => Stays
\* Once work is heard of, while the tool is at work nothing hints at rest.
WorkShows == SomeWork /\ AtWork => ctrl.state \notin Settled /\ ~SignOfRest
\* ... and no poll has yet to demote what the last turn left.
WorkIsNew ==
    SomeWork => /\ send # "asked"
                /\ send = "admitted" => poll.pc \notin {"read", "merge"}
                /\ ctrl.injected => /\ Claude /\ poll.pc \notin {"read", "merge"}
                                    /\ ctrl.state \notin Settled /\ ~Before
TakenLate == turn.pc = "take" => SawWork /\ Rests(0)

\* What a client that waits hears: work, then rest for good, and rest only when its
\* turn is over, with its answer.
NewsIsTrue == Waiting => RestIsLast /\ LateIsOver /\ WorkShows /\ WorkIsNew /\ TakenLate

\* Between two turns: who has heard that the tool awaits input hears nothing else.
RestBetween ==
    ~over /\ turn.pc = "rest" =>
      /\ ~ctrl.injected
      /\ ctrl.state \in Settled => StaysSettled
      /\ ctrl.state = "awaiting_input" => Stays
      /\ \A p \in Nat : IsNews(p) /\ Heard(p).state = "awaiting_input" =>
           Stays /\ \A q \in Nat : p < q /\ IsNews(q) => Rests(q)
\* An instruction finds the controller of a tool at rest, until a poll takes note of it.
AskedAtRest ==
    ~over /\ Before =>
      /\ ctrl.injected \/ send = "asked" => ctrl.state \in Settled /\ StaysSettled
      /\ send = "asked" => ~ctrl.injected
\* A dialog that was answered while the controller still speaks of it.
StillAsking ==
    ~over /\ ctrl.state = "awaiting_permission" /\ tool.phase # "asking" =>
      \A p \in Nat : IsNews(p) => Heard(p).state = "awaiting_permission"
Between == RestBetween /\ AskedAtRest /\ StillAsking

TurnIInv ==
    /\ TurnTypes /\ Asking /\ Numbered /\ Signs /\ LastIsPublished /\ InOrder /\ ReadSoFar
    /\ Concluded /\ Caught /\ OwnAnswer /\ OwnAnswerToCome /\ NewsIsTrue /\ Between
    /\ WaiterIsTold /\ NoStaleAnswer

Ctrls == [state : States, resp : Nat, injected : BOOLEAN, read : Nat]

\* A scan starts from a controller that has read part of the record.
LEMMA ScanStarts ==
    ASSUME TurnTypes, ReadSoFar
    PROVE  ctrl \in Ctrls /\ Len(record) \in Nat /\ ctrl.read \in Nat /\ ctrl.read <= Len(record)
<1>1. record \in Seq(Lines) BY DEF TurnTypes, ToolTypes
<1>2. ctrl \in Ctrls BY DEF TurnTypes, MuxTypes, Ctrls
<1>3. Len(record) \in Nat BY <1>1
<1>4. ctrl.read <= Len(record) BY DEF ReadSoFar
<1> QED BY <1>2, <1>3, <1>4 DEF Ctrls

\* A scan leaves alone what no line is about.
LEMMA ScanKeeps ==
    ASSUME TurnTypes, ReadSoFar
    PROVE  /\ Scanned(ctrl, Len(record)) \in Ctrls
           /\ Scanned(ctrl, Len(record)).read = ctrl.read
           /\ Scanned(ctrl, Len(record)).injected = ctrl.injected
           /\ Scanned(ctrl, Len(record)).state = "awaiting_permission" =>
                ctrl.state = "awaiting_permission"
<1> DEFINE Kept == {d \in Ctrls : /\ d.read = ctrl.read /\ d.injected = ctrl.injected
                                  /\ d.state = "awaiting_permission" =>
                                       ctrl.state = "awaiting_permission"}
           within == [n \in Nat |-> Kept]
<1>1. ctrl \in Ctrls /\ Len(record) \in Nat /\ ctrl.read \in Nat /\ ctrl.read <= Len(record)
  BY ScanStarts
<1>2. ASSUME NEW n \in ctrl.read + 1 .. Len(record), NEW d \in Kept
      PROVE  Apply(d, record[n]) \in Kept
  <2>1. record[n] \in Lines BY <1>1 DEF TurnTypes, ToolTypes
  <2> QED BY <2>1 DEF Apply, Ctrls, Lines, States
<1>3. ctrl \in within[ctrl.read] BY <1>1
<1>4. \A n \in ctrl.read + 1 .. Len(record) :
        \A d \in within[n - 1] : Apply(d, record[n]) \in within[n]
  <2> SUFFICES ASSUME NEW n \in ctrl.read + 1 .. Len(record)
               PROVE  \A d \in within[n - 1] : Apply(d, record[n]) \in within[n]
    OBVIOUS
  <2>1. n - 1 \in Nat /\ n \in Nat BY <1>1
  <2> QED BY <2>1, <1>2
<1>5. Scanned(ctrl, Len(record)) \in within[Len(record)]
  <2> HIDE DEF within
  <2> QED BY <1>1, <1>3, <1>4, ScanWithin
<1> QED BY <1>1, <1>5

\* What a scan makes of the last user's line and the last stop.
LEMMA ScanSettles ==
    ASSUME TurnTypes, ReadSoFar, cfg.found
    PROVE  LET after == Scanned(ctrl, Len(record)).state \in Settled
           IN /\ after => StaysSettled
              /\ WillSettle => after
              /\ ctrl.state \in Settled /\ StaysSettled => after
              /\ ctrl.state \notin Settled /\ after => WillSettle
<1> DEFINE Is(k, what) == record[k].kind = what
           Done(d, n) ==
             /\ d.state \in Settled =>
                  /\ \A k \in ctrl.read + 1 .. n : Is(k, "user") => \E l \in k + 1 .. n : Is(l, "stop")
                  /\ ctrl.state \notin Settled =>
                       \E k \in ctrl.read + 1 .. n :
                         Is(k, "stop") /\ \A l \in k + 1 .. n : ~Is(l, "user")
             /\ d.state \notin Settled =>
                  /\ \A k \in ctrl.read + 1 .. n : Is(k, "stop") => \E l \in k + 1 .. n : Is(l, "user")
                  /\ ctrl.state \in Settled =>
                       \E k \in ctrl.read + 1 .. n :
                         Is(k, "user") /\ \A l \in k + 1 .. n : ~Is(l, "stop")
           within == [n \in Nat |-> {d \in Ctrls : Done(d, n)}]
<1>1. ctrl \in Ctrls /\ Len(record) \in Nat /\ ctrl.read \in Nat /\ ctrl.read <= Len(record)
  BY ScanStarts
<1>2. ASSUME NEW n \in ctrl.read + 1 .. Len(record), NEW d \in Ctrls, Done(d, n - 1)
      PROVE  Apply(d, record[n]) \in Ctrls /\ Done(Apply(d, record[n]), n)
  <2>1. record[n] \in Lines /\ n \in Nat /\ n - 1 \in Nat BY <1>1 DEF TurnTypes, ToolTypes
  <2>2. Apply(d, record[n]) \in Ctrls BY <2>1 DEF Apply, Ctrls, Lines, States
  <2>3. CASE Is(n, "user")
    <3>1. Apply(d, record[n]).state = "working" BY <2>3 DEF Apply, Ctrls
    <3>2. \A k \in ctrl.read + 1 .. n : Is(k, "stop") => n \in k + 1 .. n BY <2>3, <1>1
    <3>3. n \in ctrl.read + 1 .. n /\ \A l \in n + 1 .. n : FALSE BY <1>1
    <3> QED BY <2>2, <2>3, <3>1, <3>2, <3>3 DEF Settled
  <2>4. CASE Is(n, "stop")
    <3>1. Apply(d, record[n]).state = "awaiting_input" BY <2>4 DEF Apply, Ctrls
    <3>2. \A k \in ctrl.read + 1 .. n : Is(k, "user") => n \in k + 1 .. n BY <2>4, <1>1
    <3>3. n \in ctrl.read + 1 .. n /\ \A l \in n + 1 .. n : FALSE BY <1>1
    <3> QED BY <2>2, <2>4, <3>1, <3>2, <3>3 DEF Settled
  <2>5. CASE ~Is(n, "user") /\ ~Is(n, "stop")
    <3>1. Apply(d, record[n]).state = d.state BY <2>5 DEF Apply, Ctrls
    <3>2. \A k \in ctrl.read + 1 .. n : Is(k, "user") \/ Is(k, "stop") => k \in ctrl.read + 1 .. n - 1
      BY <1>1, <2>5
    <3>3. \A k \in ctrl.read + 1 .. n - 1 : k \in ctrl.read + 1 .. n BY <1>1
    <3>4. \A k \in Nat : \A l \in k + 1 .. n : Is(l, "user") \/ Is(l, "stop") => l \in k + 1 .. n - 1
      BY <1>1, <2>5
    <3>5. \A k \in Nat : \A l \in k + 1 .. n - 1 : l \in k + 1 .. n BY <1>1
    <3>6. \A k \in ctrl.read + 1 .. n : k \in Nat BY <1>1
    <3>7. ASSUME d.state \in Settled
          PROVE  /\ \A k \in ctrl.read + 1 .. n : Is(k, "user") => \E l \in k + 1 .. n : Is(l, "stop")
                 /\ ctrl.state \notin Settled =>
                       \E k \in ctrl.read + 1 .. n :
                         Is(k, "stop") /\ \A l \in k + 1 .. n : ~Is(l, "user")
      BY <1>2, <3>7, <3>2, <3>3, <3>4, <3>5, <3>6
    <3>8. ASSUME d.state \notin Settled
          PROVE  /\ \A k \in ctrl.read + 1 .. n : Is(k, "stop") => \E l \in k + 1 .. n : Is(l, "user")
                 /\ ctrl.state \in Settled =>
                       \E k \in ctrl.read + 1 .. n :
                         Is(k, "user") /\ \A l \in k + 1 .. n : ~Is(l, "stop")
      BY <1>2, <3>8, <3>2, <3>3, <3>4, <3>5, <3>6
    <3> QED BY <2>2, <3>1, <3>7, <3>8
  <2> QED BY <2>3, <2>4, <2>5
<1>3. ctrl \in within[ctrl.read]
  <2>1. ctrl.read + 1 .. ctrl.read = {} BY <1>1
  <2> QED BY <1>1, <2>1
<1>4. \A n \in ctrl.read + 1 .. Len(record) :
        \A d \in within[n - 1] : Apply(d, record[n]) \in within[n]
  <2> SUFFICES ASSUME NEW n \in ctrl.read + 1 .. Len(record), NEW d \in within[n - 1]
               PROVE  Apply(d, record[n]) \in within[n]
    OBVIOUS
  <2>1. n - 1 \in Nat /\ n \in Nat BY <1>1
  <2>2. d \in Ctrls /\ Done(d, n - 1)
    <3> HIDE DEF Done
    <3> QED BY <2>1
  <2>3. Apply(d, record[n]) \in Ctrls /\ Done(Apply(d, record[n]), n) BY <1>2, <2>2
  <2> HIDE DEF Done
  <2> QED BY <2>1, <2>3
<1>5. Scanned(ctrl, Len(record)) \in within[Len(record)]
  <2> HIDE DEF within
  <2> QED BY <1>1, <1>3, <1>4, ScanWithin
<1>6. Done(Scanned(ctrl, Len(record)), Len(record))
  <2> HIDE DEF Done
  <2> QED BY <1>1, <1>5
<1>7. \A k \in Unread, l \in Nat : l \in k + 1 .. Len(record) <=> l \in Unread /\ k < l
  BY <1>1 DEF Unread
<1>8. \A k \in Unread : k \in Nat BY <1>1 DEF Unread
<1>9. \A k \in Nat : \A l \in k + 1 .. Len(record) : l \in Nat BY <1>1
<1>10. Unread = ctrl.read + 1 .. Len(record) BY DEF Unread
<1>11. ASSUME Scanned(ctrl, Len(record)).state \in Settled
       PROVE  StaysSettled /\ (ctrl.state \notin Settled => WillSettle)
  BY <1>6, <1>7, <1>8, <1>9, <1>10, <1>11 DEF StaysSettled, WillSettle
<1>12. ASSUME Scanned(ctrl, Len(record)).state \notin Settled
       PROVE  ~WillSettle /\ ~(ctrl.state \in Settled /\ StaysSettled)
  BY <1>6, <1>7, <1>8, <1>9, <1>10, <1>12 DEF StaysSettled, WillSettle
<1> QED BY <1>11, <1>12

\* A scan of the client's own turn, or on to it, ends with its answer or none.
LEMMA ScanAnswers ==
    ASSUME TurnTypes, ReadSoFar, InOrder, tool.phase # "entered",
           turn.mine # 0, turn.mine = tool.turn,
           \/ ctrl.resp \in {0, turn.mine}
           \/ \E k \in Unread : record[k].kind = "user" /\ record[k].turn = turn.mine
    PROVE  Scanned(ctrl, Len(record)).resp \in {0, turn.mine}
<1> DEFINE Mine(k) == record[k].kind = "user" /\ record[k].turn = turn.mine
           Own(d, n) == d.resp \in {0, turn.mine} \/ \E k \in n + 1 .. Len(record) : Mine(k)
           within == [n \in Nat |-> {d \in Ctrls : Own(d, n)}]
<1>1. ctrl \in Ctrls /\ Len(record) \in Nat /\ ctrl.read \in Nat /\ ctrl.read <= Len(record)
  BY ScanStarts
<1>a. \A k \in 1..Len(record) : record[k] \in Lines BY DEF TurnTypes, ToolTypes
<1>b. turn.mine \in Nat /\ tool.turn \in Nat BY DEF TurnTypes, ToolTypes, ClientTypes
<1>2. ASSUME NEW n \in ctrl.read + 1 .. Len(record), NEW d \in Ctrls, Own(d, n - 1)
      PROVE  Apply(d, record[n]) \in Ctrls /\ Own(Apply(d, record[n]), n)
  <2>1. n \in 1..Len(record) /\ record[n] \in Lines BY <1>1, <1>a
  <2>2. Apply(d, record[n]) \in Ctrls BY <2>1 DEF Apply, Ctrls, Lines, States
  <2>3. PICK u \in 1..Len(record) : Mine(u) BY <1>b DEF InOrder
  <2>4. CASE u > n BY <2>1, <2>2, <2>3, <2>4
  <2>5. CASE u = n
    <3>1. Apply(d, record[n]).resp = 0 BY <2>3, <2>5 DEF Apply, Ctrls
    <3> QED BY <2>2, <3>1
  <2>6. CASE u < n
    <3>1. record[n].turn = turn.mine BY <2>1, <2>3, <2>6, <1>a, <1>b DEF InOrder, Lines
    <3>2. \A k \in n .. Len(record) : ~Mine(k)
      <4> SUFFICES ASSUME NEW k \in n .. Len(record), Mine(k) PROVE FALSE OBVIOUS
      <4>1. k \in 1..Len(record) /\ u < k BY <2>1, <2>6
      <4>2. record[u].turn < record[k].turn BY <4>1 DEF InOrder
      <4> QED BY <4>2, <2>3, <1>b
    <3>3. n - 1 + 1 = n BY <2>1
    <3>4. d.resp \in {0, turn.mine} BY <1>2, <3>2, <3>3
    <3>5. Apply(d, record[n]).resp \in {0, turn.mine} BY <2>1, <3>1, <3>4 DEF Apply, Ctrls, Lines
    <3> QED BY <2>2, <3>5
  <2> QED BY <2>1, <2>4, <2>5, <2>6
<1>3. ctrl \in within[ctrl.read] BY <1>1 DEF Unread
<1>4. \A n \in ctrl.read + 1 .. Len(record) :
        \A d \in within[n - 1] : Apply(d, record[n]) \in within[n]
  <2> SUFFICES ASSUME NEW n \in ctrl.read + 1 .. Len(record), NEW d \in within[n - 1]
               PROVE  Apply(d, record[n]) \in within[n]
    OBVIOUS
  <2>1. n - 1 \in Nat /\ n \in Nat BY <1>1
  <2>2. d \in Ctrls /\ Own(d, n - 1)
    <3> HIDE DEF Own
    <3> QED BY <2>1
  <2>3. Apply(d, record[n]) \in Ctrls /\ Own(Apply(d, record[n]), n) BY <1>2, <2>2
  <2> HIDE DEF Own
  <2> QED BY <2>1, <2>3
<1>5. Scanned(ctrl, Len(record)) \in within[Len(record)]
  <2> HIDE DEF within
  <2> QED BY <1>1, <1>3, <1>4, ScanWithin
<1>6. Own(Scanned(ctrl, Len(record)), Len(record))
  <2> HIDE DEF Own
  <2> QED BY <1>1, <1>5
<1>7. Len(record) + 1 .. Len(record) = {} BY <1>1
<1> QED BY <1>6, <1>7

-----------------------------------------------------------------------------
(* What each variable is changed by.                                       *)
LEMMA ToolFrame ==
    ASSUME [TurnNext]_turnVars
    PROVE  \/ UNCHANGED <<tool, record>>
           \/ ~over /\ over' = over /\
                (ToolBegins \/ ToolSays \/ ToolStops \/ ToolRests \/ ToolTells \/ ToolAsks
                 \/ PersonAnswers \/ Enter)
BY TurnSteps
   DEF turnVars, toolVars, muxVars, clientVars, Push, PluginLeaves, PollBegin, PollRead,
       PollMerge, PollPaneIdle, PollPlugin, PollApply, PollPublish, IdleFires, Admit, Type,
       Answer, Quit, Ingest, WaitLooks, WaitSubscribes, WaitLooksAgain, WaitWakes, TurnTakes,
       SendFails, WaitTimesOut, RunBegin

LEMMA PlugFrame ==
    ASSUME [TurnNext]_turnVars
    PROVE  \/ UNCHANGED <<cfg, plug>>
           \/ ~over /\ over' = over /\ (Push \/ PluginLeaves)
BY TurnSteps
   DEF turnVars, toolVars, muxVars, clientVars, ToolBegins, ToolSays, ToolStops, ToolRests,
       ToolTells, ToolAsks, PersonAnswers, PollBegin, PollRead, PollMerge, PollPaneIdle,
       PollPlugin, PollApply, PollPublish, IdleFires, Admit, Type, Enter, Answer, Quit, Ingest,
       WaitLooks, WaitSubscribes, WaitLooksAgain, WaitWakes, TurnTakes, SendFails, WaitTimesOut,
       RunBegin

LEMMA PaneFrame ==
    ASSUME [TurnNext]_turnVars
    PROVE  \/ UNCHANGED <<pane>>
           \/ ~over /\ over' = over /\
                (ToolBegins \/ ToolSays \/ ToolAsks \/ ToolTells \/ PersonAnswers \/ IdleFires
                 \/ PollRead \/ Push \/ PollApply \/ Type \/ Enter)
BY TurnSteps
   DEF turnVars, toolVars, muxVars, clientVars, ToolStops, ToolRests, PluginLeaves, PollBegin,
       PollMerge, PollPaneIdle, PollPlugin, PollPublish, Admit, Answer, Quit, Ingest, WaitLooks,
       WaitSubscribes, WaitLooksAgain, WaitWakes, TurnTakes, SendFails, WaitTimesOut, RunBegin

LEMMA CtrlFrame ==
    ASSUME [TurnNext]_turnVars
    PROVE  \/ UNCHANGED <<ctrl>>
           \/ ~over /\ over' = over /\
                (PollBegin \/ PollRead \/ PollMerge \/ PollPlugin \/ Push \/ Admit)
BY TurnSteps
   DEF turnVars, toolVars, muxVars, clientVars, ToolBegins, ToolSays, ToolStops, ToolRests,
       ToolTells, ToolAsks, PersonAnswers, PluginLeaves, PollPaneIdle, PollApply, PollPublish,
       IdleFires, Type, Enter, Answer, Quit, Ingest, WaitLooks, WaitSubscribes, WaitLooksAgain,
       WaitWakes, TurnTakes, SendFails, WaitTimesOut, RunBegin

LEMMA PollFrame ==
    ASSUME [TurnNext]_turnVars
    PROVE  \/ UNCHANGED <<poll, pub>>
           \/ ~over /\ over' = over /\
                (PollBegin \/ PollRead \/ PollMerge \/ PollPaneIdle \/ PollPlugin \/ Push
                 \/ PollApply \/ PollPublish)
BY TurnSteps
   DEF turnVars, toolVars, muxVars, clientVars, ToolBegins, ToolSays, ToolStops, ToolRests,
       ToolTells, ToolAsks, PersonAnswers, PluginLeaves, IdleFires, Admit, Type, Enter, Answer,
       Quit, Ingest, WaitLooks, WaitSubscribes, WaitLooksAgain, WaitWakes, TurnTakes, SendFails,
       WaitTimesOut, RunBegin

LEMMA OverFrame ==
    ASSUME [TurnNext]_turnVars
    PROVE  \/ UNCHANGED <<over>>
           \/ Quit
BY TurnSteps
   DEF turnVars, toolVars, muxVars, clientVars, ToolBegins, ToolSays, ToolStops, ToolRests,
       ToolTells, ToolAsks, PersonAnswers, Push, PluginLeaves, PollBegin, PollRead, PollMerge,
       PollPaneIdle, PollPlugin, PollApply, PollPublish, IdleFires, Admit, Type, Enter, Answer,
       Ingest, WaitLooks, WaitSubscribes, WaitLooksAgain, WaitWakes, TurnTakes, SendFails,
       WaitTimesOut, RunBegin

LEMMA SendFrame ==
    ASSUME [TurnNext]_turnVars
    PROVE  \/ UNCHANGED <<send>>
           \/ ~over /\ over' = over /\ (Admit \/ Type \/ Enter \/ Answer)
           \/ RunBegin
BY TurnSteps
   DEF turnVars, toolVars, muxVars, clientVars, ToolBegins, ToolSays, ToolStops, ToolRests,
       ToolTells, ToolAsks, PersonAnswers, Push, PluginLeaves, PollBegin, PollRead, PollMerge,
       PollPaneIdle, PollPlugin, PollApply, PollPublish, IdleFires, Quit, Ingest, WaitLooks,
       WaitSubscribes, WaitLooksAgain, WaitWakes, TurnTakes, SendFails, WaitTimesOut

LEMMA WireFrame ==
    ASSUME [TurnNext]_turnVars
    PROVE  \/ UNCHANGED <<wire>>
           \/ ~over /\ over' = over /\ (PollPublish \/ Answer)
           \/ Quit \/ Ingest
BY TurnSteps
   DEF turnVars, toolVars, muxVars, clientVars, ToolBegins, ToolSays, ToolStops, ToolRests,
       ToolTells, ToolAsks, PersonAnswers, Push, PluginLeaves, PollBegin, PollRead, PollMerge,
       PollPaneIdle, PollPlugin, PollApply, IdleFires, Admit, Type, Enter, WaitLooks,
       WaitSubscribes, WaitLooksAgain, WaitWakes, TurnTakes, SendFails, WaitTimesOut, RunBegin

LEMMA ViewFrame ==
    ASSUME [TurnNext]_turnVars
    PROVE  \/ UNCHANGED <<view>>
           \/ Ingest \/ WaitSubscribes
BY TurnSteps
   DEF turnVars, toolVars, muxVars, clientVars, ToolBegins, ToolSays, ToolStops, ToolRests,
       ToolTells, ToolAsks, PersonAnswers, Push, PluginLeaves, PollBegin, PollRead, PollMerge,
       PollPaneIdle, PollPlugin, PollApply, PollPublish, IdleFires, Admit, Type, Enter, Answer,
       Quit, WaitLooks, WaitLooksAgain, WaitWakes, TurnTakes, SendFails, WaitTimesOut, RunBegin

LEMMA TurnFrame ==
    ASSUME [TurnNext]_turnVars
    PROVE  \/ UNCHANGED <<turn>>
           \/ ~over /\ over' = over /\ (Enter)
           \/ Ingest \/ RunBegin \/ WaitLooks \/ WaitSubscribes \/ WaitLooksAgain \/ WaitWakes
           \/ WaitTimesOut \/ TurnTakes \/ SendFails
BY TurnSteps
   DEF turnVars, toolVars, muxVars, clientVars, ToolBegins, ToolSays, ToolStops, ToolRests,
       ToolTells, ToolAsks, PersonAnswers, Push, PluginLeaves, PollBegin, PollRead, PollMerge,
       PollPaneIdle, PollPlugin, PollApply, PollPublish, IdleFires, Admit, Type, Answer, Quit

-----------------------------------------------------------------------------
(* The types.                                                               *)
LEMMA ToolTypesHold == ASSUME TurnTypes, [TurnNext]_turnVars PROVE ToolTypes'
<1> USE DEF Phases
<1>1. /\ cfg \in [kind : {"claude", "plugin"}, found : BOOLEAN, hook : BOOLEAN]
      /\ IF Claude THEN cfg.hook => cfg.found ELSE ~cfg.found /\ ~cfg.hook
      /\ tool \in [phase : Phases, turn : Nat, said : Nat, told : BOOLEAN]
      /\ tool.said \in {0, tool.turn}
      /\ record \in Seq(Lines)
      /\ plug \in [saw : Phases, up : BOOLEAN]
  BY DEF TurnTypes, ToolTypes
<1>2. /\ cfg' \in [kind : {"claude", "plugin"}, found : BOOLEAN, hook : BOOLEAN]
      /\ (IF Claude THEN cfg.hook => cfg.found ELSE ~cfg.found /\ ~cfg.hook)'
      /\ plug' \in [saw : Phases, up : BOOLEAN]
  <2>1. CASE Push BY <1>1, <2>1 DEF Push, Claude
  <2>2. CASE PluginLeaves BY <1>1, <2>2 DEF PluginLeaves, Claude
  <2>3. CASE UNCHANGED <<cfg, plug>> BY <1>1, <2>3 DEF Claude
  <2> QED BY <2>1, <2>2, <2>3, PlugFrame
<1>3. /\ tool' \in [phase : Phases, turn : Nat, said : Nat, told : BOOLEAN]
      /\ tool'.said \in {0, tool'.turn}
      /\ record' \in Seq(Lines)
  <2>a. \A what \in {"user", "assistant", "tool", "stop"} :
          Append(record, [kind |-> what, turn |-> tool.turn]) \in Seq(Lines)
    <3>1. \A what \in {"user", "assistant", "tool", "stop"} :
            [kind |-> what, turn |-> tool.turn] \in Lines BY <1>1 DEF Lines
    <3> QED BY <1>1, <3>1
  <2>1. CASE ToolBegins BY <1>1, <2>a, <2>1 DEF ToolBegins, Writes
  <2>2. CASE ToolSays
    <3>1. PICK a \in {0, tool.turn} :
            /\ tool' = [tool EXCEPT !.phase = "said", !.said = a]
            /\ Writes(IF a = 0 THEN "tool" ELSE "assistant", tool.turn)
      BY <2>2 DEF ToolSays
    <3>2. record' \in Seq(Lines) BY <2>a, <3>1 DEF Writes
    <3>3. a \in Nat BY <1>1
    <3>4. tool' \in [phase : Phases, turn : Nat, said : Nat, told : BOOLEAN] BY <1>1, <3>1, <3>3
    <3>5. tool'.said = a /\ tool'.turn = tool.turn BY <1>1, <3>1
    <3> QED BY <3>2, <3>4, <3>5
  <2>3. CASE ToolStops BY <1>1, <2>a, <2>3 DEF ToolStops, Writes
  <2>4. CASE ToolRests BY <1>1, <2>4 DEF ToolRests
  <2>5. CASE ToolTells BY <1>1, <2>5 DEF ToolTells
  <2>6. CASE ToolAsks BY <1>1, <2>6 DEF ToolAsks
  <2>7. CASE PersonAnswers BY <1>1, <2>7 DEF PersonAnswers
  <2>8. CASE Enter
    <3>1. [tool EXCEPT !.phase = "entered", !.turn = @ + 1, !.said = 0, !.told = TRUE]
            \in [phase : Phases, turn : Nat, said : Nat, told : BOOLEAN]
      <4>1. tool.turn + 1 \in Nat BY <1>1
      <4>2. [tool EXCEPT !.phase = "entered", !.turn = tool.turn + 1, !.said = 0, !.told = TRUE]
              \in [phase : Phases, turn : Nat, said : Nat, told : BOOLEAN] BY <4>1, <1>1
      <4> QED BY <4>1, <4>2, <1>1
    <3>2. record' = record /\ (tool' = tool \/ (tool'.said = 0 /\
            tool' = [tool EXCEPT !.phase = "entered", !.turn = @ + 1, !.said = 0, !.told = TRUE]))
      BY <1>1, <2>8 DEF Enter
    <3> QED BY <1>1, <3>1, <3>2
  <2>9. CASE UNCHANGED <<tool, record>> BY <1>1, <2>9
  <2> QED BY <2>1, <2>2, <2>3, <2>4, <2>5, <2>6, <2>7, <2>8, <2>9, ToolFrame
<1> QED BY <1>2, <1>3 DEF ToolTypes

LEMMA MuxTypesHold == ASSUME TurnTypes, ReadSoFar, [TurnNext]_turnVars PROVE MuxTypes'
<1> DEFINE Panes == [ready : BOOLEAN, signal : {"", "osc", "2004", "title", "idle", "ctrl", "perm"},
                     newer : BOOLEAN, clock : BOOLEAN]
           Polls == [pc : {"wait", "read", "merge", "apply", "publish"}, size : Nat,
                     idle : BOOLEAN, ev : Shots]
           Sends == {"none", "asked", "admitted", "typed", "entered"}
<1>1. /\ pane \in Panes /\ ctrl \in Ctrls /\ pub \in Shots /\ poll \in Polls /\ send \in Sends
      /\ tool.said \in Nat /\ Len(record) \in Nat
  <2>1. record \in Seq(Lines) /\ tool.said \in Nat BY DEF TurnTypes, ToolTypes
  <2>2. Len(record) \in Nat BY <2>1
  <2> QED BY <2>1, <2>2 DEF TurnTypes, MuxTypes, Ctrls
<1>2. pane' \in Panes
  <2>1. CASE ToolBegins BY <1>1, <2>1 DEF ToolBegins, Output
  <2>2. CASE ToolSays BY <1>1, <2>2 DEF ToolSays, Output
  <2>3. CASE ToolAsks BY <1>1, <2>3 DEF ToolAsks, Output
  <2>4. CASE ToolTells BY <1>1, <2>4 DEF ToolTells, Output, Notices
  <2>5. CASE PersonAnswers BY <1>1, <2>5 DEF PersonAnswers, Cleared
  <2>6. CASE IdleFires BY <1>1, <2>6 DEF IdleFires
  <2>7. CASE PollRead BY <1>1, <2>7 DEF PollRead
  <2>8. CASE Push BY <1>1, <2>8 DEF Push
  <2>9. CASE PollApply BY <1>1, <2>9 DEF PollApply, Painted
  <2>10. CASE Type BY <1>1, <2>10 DEF Type, Cleared
  <2>11. CASE Enter BY <1>1, <2>11 DEF Enter, Cleared
  <2>12. CASE UNCHANGED pane BY <1>1, <2>12
  <2> QED BY <2>1, <2>2, <2>3, <2>4, <2>5, <2>6, <2>7, <2>8, <2>9, <2>10, <2>11, <2>12, PaneFrame
<1>3. Demoted(ctrl) \in Ctrls /\ Consumed(ctrl) \in Ctrls
  BY <1>1 DEF Demoted, Consumed, Ctrls, States, Settled
<1>4. \A c \in Ctrls, idle \in BOOLEAN : Merged(c, idle) \in Ctrls BY DEF Merged, Ctrls, States
<1>5. PaneIdle \in BOOLEAN BY <1>1 DEF PaneIdle
<1>6. ctrl' \in Ctrls /\ pub' \in Shots /\ poll' \in Polls
  <2>1. CASE PollBegin BY <1>1, <1>3, <2>1 DEF PollBegin
  <2>2. CASE PollRead
    <3>1. Scanned(ctrl, Len(record)) \in Ctrls BY ScanKeeps
    <3> QED BY <1>1, <2>2, <3>1 DEF PollRead, Ctrls
  <2>3. CASE PollMerge
    <3>1. ctrl' \in Ctrls BY <1>1, <1>4, <1>5, <2>3 DEF PollMerge
    <3>2. Snap(ctrl'.state, ctrl'.resp) \in Shots BY <3>1 DEF Snap, Shots, Ctrls
    <3> QED BY <1>1, <2>3, <3>1, <3>2 DEF PollMerge
  <2>4. CASE PollPlugin
    <3>1. ctrl' \in Ctrls BY <1>1, <1>3, <1>4, <2>4 DEF PollPlugin
    <3>2. Snap(ctrl'.state, ctrl'.resp) \in Shots BY <3>1 DEF Snap, Shots, Ctrls
    <3> QED BY <1>1, <2>4, <3>1, <3>2 DEF PollPlugin
  <2>5. CASE PollPaneIdle BY <1>1, <1>5, <2>5 DEF PollPaneIdle
  <2>6. CASE PollApply BY <1>1, <2>6 DEF PollApply
  <2>7. CASE PollPublish BY <1>1, <2>7 DEF PollPublish
  <2>8. CASE Push
    <3>1. Reported \in States BY DEF Reported, States
    <3> QED BY <1>1, <2>8, <3>1 DEF Push, Ctrls
  <2>9. CASE Admit BY <1>1, <2>9 DEF Admit, Ctrls
  <2>10. CASE UNCHANGED ctrl /\ UNCHANGED <<poll, pub>> BY <1>1, <2>10
  <2> QED BY <2>1, <2>2, <2>3, <2>4, <2>5, <2>6, <2>7, <2>8, <2>9, <2>10, PollFrame, CtrlFrame
<1>7. send' \in Sends
  <2>1. CASE Admit \/ Type \/ Enter \/ Answer \/ RunBegin
    BY <2>1 DEF Admit, Type, Enter, Answer, RunBegin
  <2> QED BY <1>1, <2>1, SendFrame
<1> QED BY <1>2, <1>6, <1>7 DEF MuxTypes, Ctrls

LEMMA ClientTypesHold == ASSUME TurnTypes, [TurnNext]_turnVars PROVE ClientTypes'
<1> DEFINE Seen  == States \cup {"unknown"}
           Views == [state : Seen, resp : Nat, closed : BOOLEAN, ended : BOOLEAN]
           Turns == [pc : {"rest", "sent", "look", "sub", "again", "park", "take"},
                     phase : {"start", "settle"}, sends : Nat, before : Nat, mine : Nat,
                     result : [how : {"none", "turn", "unseen", "stalled", "error"},
                               state : Seen, resp : Nat]]
<1>1. /\ wire \in Seq(News) /\ view \in Views /\ turn \in Turns /\ over \in BOOLEAN
      /\ pub \in Shots /\ poll.ev \in Shots /\ pane.ready \in BOOLEAN /\ tool.turn \in Nat
  BY DEF TurnTypes, ClientTypes, MuxTypes, ToolTypes
<1>2. Entry \in Shots /\ NoSnap \in Shots
  BY <1>1 DEF Entry, NoSnap, Snap, Shots, States
<1>3. wire' \in Seq(News)
  <2>1. CASE PollPublish
    <3>1. Message("snapshot", poll.ev) \in News BY <1>1 DEF Message, News
    <3> QED BY <1>1, <2>1, <3>1 DEF PollPublish
  <2>2. CASE Answer
    <3>1. Message("reply", NoSnap) \in News BY <1>2 DEF Message, News
    <3> QED BY <1>1, <2>2, <3>1 DEF Answer
  <2>3. CASE Quit
    <3>1. Message("results", Entry) \in News /\ Message("end", NoSnap) \in News
      BY <1>2 DEF Message, News
    <3>2. <<Message("results", Entry), Message("end", NoSnap)>> \in Seq(News) BY <3>1
    <3> QED BY <1>1, <2>3, <3>2 DEF Quit
  <2>4. CASE Ingest BY <1>1, <2>4 DEF Ingest
  <2> QED BY <1>1, <2>1, <2>2, <2>3, <2>4, WireFrame
<1>4. wire # <<>> => Head(wire) \in News BY <1>1
<1>5. view' \in Views
  <2>1. CASE Ingest
    <3>1. Head(wire) \in News /\ Head(wire).at \in Shots BY <1>4, <2>1 DEF Ingest, News
    <3>2. \A s \in Shots : ApplyPane(view, s) \in Views /\ Seed(view, s) \in Views
      BY <1>1 DEF ApplyPane, Seed, Bump, Shots
    <3>3. Bump([view EXCEPT !.ended = TRUE]) \in Views BY <1>1 DEF Bump
    <3>4. \/ view' = ApplyPane(view, Head(wire).at) \/ view' = view
          \/ view' = Seed(view, Head(wire).at) \/ view' = Bump([view EXCEPT !.ended = TRUE])
      BY <2>1 DEF Ingest
    <3> QED BY <1>1, <3>1, <3>2, <3>3, <3>4
  <2>2. CASE WaitSubscribes BY <1>1, <2>2 DEF WaitSubscribes
  <2> QED BY <1>1, <2>1, <2>2, ViewFrame
<1>6. turn' \in Turns
  <2>a. \A how \in {"none", "turn", "unseen", "stalled", "error"} : Ended(turn, how) \in Turns
    BY <1>1 DEF Ended
  <2>b. Fails(turn) \in Turns BY <2>a DEF Fails
  <2>c. Holds(turn) \in Turns BY <1>1 DEF Holds
  <2>1. CASE Enter BY <1>1, <2>1 DEF Enter
  <2>2. CASE Ingest BY <1>1, <2>2 DEF Ingest
  <2>3. CASE RunBegin
    <3>1. NoResult \in [how : {"none", "turn", "unseen", "stalled", "error"},
                        state : Seen, resp : Nat] BY DEF NoResult, States
    <3>2. turn' = [turn EXCEPT !.pc = "sent", !.sends = @ + 1, !.before = view.resp,
                               !.mine = 0, !.result = NoResult]
      BY <2>3 DEF RunBegin
    <3>3. /\ turn \in Turns /\ turn.phase \in {"start", "settle"}
          /\ turn.sends + 1 \in Nat /\ view.resp \in Nat
      BY <1>1
    <3>4. turn' = [pc |-> "sent", phase |-> turn.phase, sends |-> turn.sends + 1,
                   before |-> view.resp, mine |-> 0, result |-> NoResult]
      BY <3>2, <3>3
    <3> HIDE DEF Seen
    <3> QED BY <3>1, <3>3, <3>4
  <2>4. CASE WaitLooks BY <1>1, <2>c, <2>4 DEF WaitLooks
  <2>5. CASE WaitSubscribes BY <1>1, <2>5 DEF WaitSubscribes
  <2>6. CASE WaitLooksAgain BY <1>1, <2>b, <2>c, <2>6 DEF WaitLooksAgain
  <2>7. CASE WaitWakes BY <1>1, <2>7 DEF WaitWakes
  <2>8. CASE WaitTimesOut BY <2>b, <2>8 DEF WaitTimesOut
  <2>9. CASE TurnTakes BY <2>a, <2>9 DEF TurnTakes
  <2>10. CASE SendFails BY <2>a, <2>10 DEF SendFails
  <2> QED BY <1>1, <2>1, <2>2, <2>3, <2>4, <2>5, <2>6, <2>7, <2>8, <2>9, <2>10, TurnFrame
<1>7. over' \in BOOLEAN BY <1>1, TurnSteps
     DEF Quit, Ingest, WaitLooks, WaitSubscribes, WaitLooksAgain, WaitWakes, TurnTakes, SendFails,
         WaitTimesOut, RunBegin, turnVars
<1> QED BY <1>3, <1>5, <1>6, <1>7 DEF ClientTypes

LEMMA TypesHold == ASSUME TurnTypes, ReadSoFar, [TurnNext]_turnVars PROVE TurnTypes'
BY ToolTypesHold, MuxTypesHold, ClientTypesHold DEF TurnTypes

-----------------------------------------------------------------------------
(* What the steps do to the fields.                                        *)
Waits == Waiter \/ WaitTimesOut

\* A client that waits changes its own state only, and stops for one of three
\* reasons.
LEMMA WaitsMove ==
    ASSUME TurnTypes, Waits
    PROVE  /\ UNCHANGED <<cfg, tool, record, plug, pane, ctrl, pub, poll, send, wire, over>>
           /\ view'.state = view.state /\ view'.resp = view.resp /\ view'.ended = view.ended
           /\ turn.pc # "rest" /\ (turn.pc = "sent" => view.ended)
           /\ turn'.pc # "sent" /\ turn'.mine = turn.mine
           /\ turn'.pc # "rest" => turn'.result = turn.result
           /\ turn'.pc = "rest" => TurnTakes \/ WaitTimesOut \/ view.ended
           /\ turn'.pc # "rest" =>
                \/ turn'.phase = turn.phase
                \/ turn'.phase = "settle" /\ view.state \notin Settled
           /\ turn'.pc = "take" =>
                turn'.phase = "settle" /\ turn.phase = "settle" /\ view.state \in Settled
<1>1. view \in [state : States \cup {"unknown"}, resp : Nat, closed : BOOLEAN, ended : BOOLEAN]
  BY DEF TurnTypes, ClientTypes
<1>2. turn \in [pc : {"rest", "sent", "look", "sub", "again", "park", "take"},
                phase : {"start", "settle"}, sends : Nat, before : Nat, mine : Nat,
                result : [how : {"none", "turn", "unseen", "stalled", "error"},
                          state : States \cup {"unknown"}, resp : Nat]]
  BY DEF TurnTypes, ClientTypes
<1>3. /\ \A how \in {"none", "turn", "unseen", "stalled", "error"} :
           Ended(turn, how).pc = "rest" /\ Ended(turn, how).mine = turn.mine
      /\ Fails(turn).pc = "rest" /\ Fails(turn).mine = turn.mine
  BY <1>2 DEF Ended, Fails
<1>4. /\ Holds(turn).mine = turn.mine /\ Holds(turn).result = turn.result
      /\ Holds(turn).phase = "settle"
      /\ Holds(turn).pc = IF turn.phase = "start" THEN "look" ELSE "take"
  BY <1>2 DEF Holds
<1> USE DEF toolVars, muxVars, clientVars
<1>5. CASE WaitLooks BY <1>1, <1>2, <1>4, <1>5 DEF WaitLooks, Pred
<1>6. CASE WaitSubscribes BY <1>1, <1>2, <1>6 DEF WaitSubscribes
<1>7. CASE WaitLooksAgain BY <1>1, <1>2, <1>3, <1>4, <1>7 DEF WaitLooksAgain, Pred
<1>8. CASE WaitWakes BY <1>1, <1>2, <1>8 DEF WaitWakes
<1>9. CASE TurnTakes BY <1>1, <1>2, <1>3, <1>9 DEF TurnTakes
<1>10. CASE SendFails BY <1>1, <1>2, <1>3, <1>10 DEF SendFails
<1>11. CASE WaitTimesOut BY <1>1, <1>2, <1>3, <1>11 DEF WaitTimesOut
<1> QED BY <1>5, <1>6, <1>7, <1>8, <1>9, <1>10, <1>11 DEF Waits, Waiter

\* The connection's reader takes the first message: news, or the answer to the send.
LEMMA IngestMoves ==
    ASSUME TurnTypes, Asking, Ingest, ~over
    PROVE  /\ UNCHANGED <<cfg, tool, record, plug, pane, ctrl, pub, poll, send, over>>
           /\ wire # <<>> /\ wire' = Tail(wire) /\ Len(wire) \in Nat /\ Len(wire) > 0
           /\ Len(wire') = Len(wire) - 1
           /\ \A i \in 1..Len(wire') : wire'[i] = wire[i + 1]
           /\ view'.ended = view.ended /\ turn'.mine = turn.mine /\ turn'.result = turn.result
           /\ \/ /\ wire[1].kind = "snapshot" /\ turn' = turn
                 /\ view'.state = wire[1].at.state /\ view'.resp = wire[1].at.resp
                 /\ view'.closed
              \/ /\ wire[1].kind = "reply" /\ view' = view
                 /\ turn.pc = "sent" /\ send = "none"
                 /\ turn'.pc = "look" /\ turn'.phase = "start"
<1>1. view \in [state : States \cup {"unknown"}, resp : Nat, closed : BOOLEAN, ended : BOOLEAN]
  BY DEF TurnTypes, ClientTypes
<1>2. turn \in [pc : {"rest", "sent", "look", "sub", "again", "park", "take"},
                phase : {"start", "settle"}, sends : Nat, before : Nat, mine : Nat,
                result : [how : {"none", "turn", "unseen", "stalled", "error"},
                          state : States \cup {"unknown"}, resp : Nat]]
  BY DEF TurnTypes, ClientTypes
<1>3. wire \in Seq(News) /\ wire # <<>> /\ wire' = Tail(wire)
  BY DEF TurnTypes, ClientTypes, Ingest
<1>4. /\ Len(wire) \in Nat /\ Len(wire) > 0 /\ Len(wire') = Len(wire) - 1
      /\ \A i \in 1..Len(wire') : wire'[i] = wire[i + 1]
      /\ Head(wire) = wire[1]
  BY <1>3
<1>5. wire[1].kind \in {"snapshot", "reply"} BY <1>4 DEF Asking
<1>6. UNCHANGED <<cfg, tool, record, plug, pane, ctrl, pub, poll, send, over>>
  BY DEF Ingest, toolVars, muxVars
<1>7. CASE wire[1].kind = "snapshot"
  <2>1. view' = ApplyPane(view, wire[1].at) /\ turn' = turn
    BY <1>4, <1>7 DEF Ingest
  <2> QED BY <1>1, <1>3, <1>4, <1>6, <1>7, <2>1 DEF ApplyPane, Bump
<1>8. CASE wire[1].kind = "reply"
  <2>1. turn' = [turn EXCEPT !.pc = "look", !.phase = "start"] /\ view' = view
    BY <1>4, <1>8 DEF Ingest
  <2>2. IsReply(1) BY <1>4, <1>8 DEF IsReply
  <2>3. turn.pc = "sent" /\ send = "none" BY <1>4, <2>2 DEF Asking
  <2> QED BY <1>2, <1>3, <1>4, <1>6, <1>8, <2>1, <2>3
<1> QED BY <1>5, <1>7, <1>8

\* A turn begins on a pane at rest.
LEMMA RunBeginMoves ==
    ASSUME TurnTypes, RunBegin
    PROVE  /\ UNCHANGED <<cfg, tool, record, plug, pane, ctrl, pub, poll, wire, view, over>>
           /\ turn.pc = "rest" /\ send = "none" /\ send' = "asked"
           /\ view.state \in Settled /\ view.state = ctrl.state
           /\ tool.phase = "idle" /\ tool.told /\ Recorded
           /\ turn'.pc = "sent" /\ turn'.mine = 0 /\ turn'.result = NoResult
<1>1. turn' = [turn EXCEPT !.pc = "sent", !.sends = turn.sends + 1, !.before = view.resp,
                               !.mine = 0, !.result = NoResult]
  BY DEF RunBegin, TurnTypes, ClientTypes
<1>2. turn'.pc = "sent" /\ turn'.mine = 0 /\ turn'.result = NoResult
  BY <1>1 DEF TurnTypes, ClientTypes
<1> QED BY <1>2 DEF RunBegin, toolVars

\* The tool takes the instruction, or drops it.
LEMMA EnterMoves ==
    ASSUME TurnTypes, Enter
    PROVE  /\ UNCHANGED <<cfg, record, plug, ctrl, pub, poll, wire, view>>
           /\ send = "typed" /\ send' = "entered" /\ pane' = Cleared
           /\ turn'.pc = turn.pc /\ turn'.phase = turn.phase /\ turn'.result = turn.result
           /\ \/ /\ tool.phase = "idle" /\ tool'.phase = "entered" /\ tool'.told
                 /\ tool'.turn = tool.turn + 1 /\ turn'.mine = tool.turn + 1
                 /\ tool'.said = 0
              \/ tool' = tool /\ turn'.mine = 0
BY DEF Enter, TurnTypes, ToolTypes, ClientTypes

\* The pane: what is evidence of idleness, and when it is gone.
LEMMA PaneMoves ==
    ASSUME TurnTypes
    PROVE  /\ ~Cleared.ready /\ Cleared.newer = pane.newer
           /\ \A off \in BOOLEAN : Output(off) =>
                /\ pane'.ready => pane.ready
                /\ pane'.signal = pane.signal /\ pane'.newer = pane.newer /\ pane'.clock
           /\ \A signal \in {"osc", "2004"} : Notices(signal) =>
                pane'.ready /\ pane'.signal = signal /\ pane'.newer /\ pane'.clock
BY DEF TurnTypes, MuxTypes, Cleared, Output, Notices

\* What applyControllerSnapshot may do to the pane's readiness.
LEMMA PaintedMoves ==
    ASSUME TurnTypes, NEW state
    PROVE  /\ Painted(pane, state).clock = pane.clock
           /\ \/ Painted(pane, state) = pane
              \/ Painted(pane, state).ready /\ Painted(pane, state).signal \in {"ctrl", "perm"}
              \/ ~Painted(pane, state).ready
           /\ state \in {"working", "starting"} /\ pane.signal # "perm" =>
                ~Painted(pane, state).ready
           /\ state \in {"working", "starting"} => Painted(pane, state).signal = pane.signal
BY DEF TurnTypes, MuxTypes, Painted

\* The controller.
LEMMA ConsumedMoves ==
    ASSUME TurnTypes
    PROVE  /\ Consumed(ctrl) \in Ctrls /\ ~Consumed(ctrl).injected
           /\ Consumed(ctrl).read = ctrl.read
           /\ ~ctrl.injected => Consumed(ctrl) = ctrl
           /\ ctrl.injected => /\ Consumed(ctrl).state \notin Settled
                               /\ Consumed(ctrl).resp = 0 \/ ctrl.state \notin Settled
           /\ ctrl.state \notin Settled => Consumed(ctrl).state = ctrl.state
           /\ Consumed(ctrl).resp \in {0, ctrl.resp}
           /\ Consumed(ctrl).state = "awaiting_permission" => ctrl.state = "awaiting_permission"
BY DEF TurnTypes, MuxTypes, Consumed, Demoted, Settled, States, Ctrls

\* mergeTerminalIdle settles a controller at work, and nothing else.
LEMMA MergedMoves ==
    ASSUME NEW c \in Ctrls, NEW idle \in BOOLEAN
    PROVE  /\ Merged(c, idle) \in Ctrls
           /\ Merged(c, idle).injected = c.injected /\ Merged(c, idle).resp = c.resp
           /\ Merged(c, idle).read = c.read
           /\ c.state \in Settled => Merged(c, idle) = c
           /\ c.state \notin Settled /\ ~idle => Merged(c, idle) = c
           /\ c.state \notin Settled /\ idle => Merged(c, idle).state = "awaiting_input"
BY DEF Merged, Ctrls, States

\* One instruction at a time: its answer is on the wire once, after it.
LEMMA AskingHolds == ASSUME TurnTypes, Asking, [TurnNext]_turnVars PROVE Asking'
<1> DEFINE Replies == {i \in 1..Len(wire) : wire[i].kind = "reply"}
<1>1. wire \in Seq(News) /\ Len(wire) \in Nat BY DEF TurnTypes, ClientTypes
<1>2. CASE UNCHANGED <<send, wire, over>> /\ turn'.pc = turn.pc /\ view'.ended = view.ended
  BY <1>2 DEF Asking, IsReply
<1>3. CASE Waits
  <2>1. /\ UNCHANGED <<send, wire, over>> /\ view'.ended = view.ended
        /\ turn.pc = "sent" => view.ended
        /\ turn'.pc # "sent"
    BY <1>3, WaitsMove
  <2> QED BY <2>1 DEF Asking, IsReply
<1>4. CASE Ingest
  <2>1. CASE ~over
    <3>1. /\ Len(wire) > 0 /\ Len(wire') = Len(wire) - 1
          /\ \A i \in 1..Len(wire') : wire'[i] = wire[i + 1]
          /\ UNCHANGED <<send, over>> /\ view'.ended = view.ended
      BY <1>4, <2>1, IngestMoves
    <3>2. \A i \in 1..Len(wire') : IsReply(i)' <=> IsReply(i + 1)
      BY <1>1, <3>1 DEF IsReply
    <3>3. \A i \in 1..Len(wire') : i + 1 \in 1..Len(wire) BY <1>1, <3>1
    <3>4. \A i \in 1..Len(wire) : i = 1 \/ (i - 1 \in 1..Len(wire') /\ i = (i - 1) + 1)
      BY <1>1, <3>1
    <3>5. /\ ~view'.ended
          /\ \A i \in 1..Len(wire') : wire'[i].kind \in {"snapshot", "reply"}
          /\ \A i, j \in 1..Len(wire') : IsReply(i)' /\ IsReply(j)' => i = j
      <4>1. ASSUME NEW i \in 1..Len(wire'), NEW j \in 1..Len(wire'), IsReply(i)', IsReply(j)'
            PROVE  i = j
        <5>1. i + 1 = j + 1 BY <4>1, <3>2, <3>3, <2>1 DEF Asking
        <5> QED BY <5>1
      <4> QED BY <2>1, <3>1, <3>3, <4>1 DEF Asking
    <3>6. CASE wire[1].kind = "snapshot" /\ turn' = turn
      <4>1. ~IsReply(1) BY <3>6 DEF IsReply
      <4>2. (\E i \in 1..Len(wire') : IsReply(i)') <=> (\E i \in 1..Len(wire) : IsReply(i))
        BY <3>2, <3>3, <3>4, <4>1
      <4>3. send # "none" => \A i \in 1..Len(wire') : ~IsReply(i)' BY <2>1, <3>2, <3>3 DEF Asking
      <4> QED BY <2>1, <3>1, <3>5, <3>6, <4>2, <4>3 DEF Asking
    <3>7. CASE wire[1].kind = "reply" /\ send = "none" /\ turn'.pc = "look"
      <4>1. IsReply(1) /\ 1 \in 1..Len(wire) BY <1>1, <3>1, <3>7 DEF IsReply
      <4>2. \A i \in 1..Len(wire') : ~IsReply(i)'
        <5> SUFFICES ASSUME NEW i \in 1..Len(wire'), IsReply(i)' PROVE FALSE OBVIOUS
        <5>1. i + 1 = 1 BY <4>1, <3>2, <3>3, <2>1 DEF Asking
        <5> QED BY <5>1
      <4> QED BY <2>1, <3>1, <3>5, <3>7, <4>2 DEF Asking
    <3> QED BY <1>4, <2>1, <3>6, <3>7, IngestMoves
  <2>2. CASE over
    <3>1. /\ Len(wire) > 0 /\ Len(wire') = Len(wire) - 1 /\ Head(wire) = wire[1]
          /\ \A i \in 1..Len(wire') : wire'[i] = wire[i + 1]
          /\ over' = over
      BY <1>1, <1>4 DEF Ingest
    <3>2. view.ended => view'.ended
      BY <1>4 DEF Ingest, ApplyPane, Seed, Bump, TurnTypes, ClientTypes
    <3>3. wire[1].kind = "end" => view'.ended
      BY <1>4, <3>1 DEF Ingest, Bump, TurnTypes, ClientTypes
    <3>4. \A i \in 1..Len(wire) : i = 1 \/ (i - 1 \in 1..Len(wire') /\ i = (i - 1) + 1)
      BY <1>1, <3>1
    <3>5. view'.ended \/ \E i \in 1..Len(wire') : wire'[i].kind = "end"
      BY <2>2, <3>1, <3>2, <3>3, <3>4 DEF Asking
    <3> QED BY <2>2, <3>1, <3>5 DEF Asking
  <2> QED BY <2>1, <2>2
<1>5. CASE Quit
  <2>1. over' /\ wire' = wire \o <<Message("results", Entry), Message("end", NoSnap)>>
    BY <1>5 DEF Quit
  <2>2. Len(wire) + 2 \in 1..Len(wire') /\ wire'[Len(wire) + 2] = Message("end", NoSnap)
    BY <1>1, <2>1
  <2> QED BY <2>1, <2>2 DEF Asking, Message
<1>6. CASE ~over /\ over' = over /\ PollPublish
  <2>1. /\ UNCHANGED <<send, view, turn>>
        /\ wire' = Append(wire, Message("snapshot", poll.ev))
    BY <1>6 DEF PollPublish, clientVars
  <2>2. /\ Len(wire') = Len(wire) + 1 /\ wire'[Len(wire) + 1].kind = "snapshot"
        /\ \A i \in 1..Len(wire) : wire'[i] = wire[i]
    BY <1>1, <2>1 DEF Message
  <2>3. \A i \in Nat : IsReply(i)' <=> IsReply(i)
    BY <1>1, <2>2 DEF IsReply
  <2>4. \A i \in 1..Len(wire') : i \in 1..Len(wire) \/ i = Len(wire) + 1 BY <1>1, <2>2
  <2>5. \A i \in 1..Len(wire) : i \in 1..Len(wire') BY <1>1, <2>2
  <2>6. \A i \in 1..Len(wire') : i \in Nat BY <1>1, <2>2
  <2>7. ~IsReply(Len(wire) + 1) BY <1>1 DEF IsReply
  <2> QED BY <1>6, <2>1, <2>2, <2>3, <2>4, <2>5, <2>6, <2>7 DEF Asking
<1>7. CASE ~over /\ over' = over /\ Answer
  <2>1. /\ UNCHANGED <<view, turn>> /\ send = "entered" /\ send' = "none"
        /\ wire' = Append(wire, Message("reply", NoSnap))
    BY <1>7 DEF Answer, clientVars
  <2>2. /\ Len(wire') = Len(wire) + 1 /\ wire'[Len(wire) + 1].kind = "reply"
        /\ \A i \in 1..Len(wire) : wire'[i] = wire[i]
    BY <1>1, <2>1 DEF Message
  <2>3. \A i \in 1..Len(wire) : ~IsReply(i) /\ wire[i].kind \in {"snapshot", "reply"}
    BY <1>7, <2>1 DEF Asking
  <2>4. \A i \in 1..Len(wire') : i \in 1..Len(wire) \/ i = Len(wire) + 1 BY <1>1, <2>2
  <2>5. \A i \in 1..Len(wire') : IsReply(i)' <=> i = Len(wire) + 1
    BY <1>1, <2>2, <2>3, <2>4 DEF IsReply
  <2>6. Len(wire) + 1 \in 1..Len(wire') BY <1>1, <2>2
  <2> QED BY <1>7, <2>1, <2>2, <2>3, <2>4, <2>5, <2>6 DEF Asking
<1>8. CASE ~over /\ over' = over /\ (Admit \/ Type \/ Enter)
  <2>1. UNCHANGED <<wire, view, over>> /\ turn'.pc = turn.pc /\ send # "none" /\ send' # "none"
    BY <1>8, EnterMoves DEF Admit, Type, clientVars
  <2> QED BY <2>1 DEF Asking, IsReply
<1>9. CASE RunBegin
  <2>1. UNCHANGED <<wire, view, over>> /\ turn.pc = "rest" /\ turn'.pc = "sent" /\ send' # "none"
    BY <1>9, RunBeginMoves
  <2> QED BY <2>1 DEF Asking, IsReply
<1> QED BY <1>2, <1>3, <1>4, <1>5, <1>6, <1>7, <1>8, <1>9, OverFrame, SendFrame, WireFrame,
           ViewFrame, TurnFrame DEF Waits, Waiter

-----------------------------------------------------------------------------
(* The record.                                                             *)
LEMMA RecordGrows ==
    ASSUME TurnTypes, NEW what, NEW n, Writes(what, n)
    PROVE  /\ Len(record) \in Nat /\ Len(record') = Len(record) + 1
           /\ \A k \in 1..Len(record) : record'[k] = record[k]
           /\ record'[Len(record) + 1].kind = what /\ record'[Len(record) + 1].turn = n
<1>1. record \in Seq(Lines) BY DEF TurnTypes, ToolTypes
<1> QED BY <1>1 DEF Writes

\* The offset kept is the one measured, never past the end.
LEMMA ReadSoFarHolds ==
    ASSUME TurnTypes, ReadSoFar, [TurnNext]_turnVars PROVE ReadSoFar'
<1>1. /\ Len(record) \in Nat /\ ctrl.read \in Nat /\ poll.size \in Nat
      /\ record' = record \/ Len(record') = Len(record) + 1
  <2>1. record \in Seq(Lines) /\ ctrl.read \in Nat /\ poll.size \in Nat
    BY DEF TurnTypes, ToolTypes, MuxTypes
  <2>2. record' = record \/ \E what, n : Writes(what, n)
    <3>1. CASE ToolBegins BY <3>1 DEF ToolBegins
    <3>2. CASE ToolSays BY <3>2 DEF ToolSays
    <3>3. CASE ToolStops BY <3>3 DEF ToolStops
    <3>4. CASE ToolRests \/ ToolTells \/ ToolAsks \/ PersonAnswers \/ Enter
      BY <3>4 DEF ToolRests, ToolTells, ToolAsks, PersonAnswers, Enter
    <3> QED BY <3>1, <3>2, <3>3, <3>4, ToolFrame
  <2>3. Len(record) \in Nat BY <2>1
  <2> QED BY <2>1, <2>2, <2>3, RecordGrows
<1>2. cfg' = cfg BY PlugFrame DEF Push, PluginLeaves
<1>3. CASE UNCHANGED <<ctrl, poll>> BY <1>1, <1>2, <1>3 DEF ReadSoFar
<1>4. CASE PollBegin
  <2>1. ctrl'.read = ctrl.read /\ record' = record /\ poll'.size = Len(record)
        /\ poll'.pc = IF cfg.found /\ Len(record) > ctrl.read THEN "read" ELSE "merge"
    BY <1>4, ConsumedMoves DEF PollBegin, toolVars, TurnTypes, MuxTypes
  <2> QED BY <1>1, <1>2, <2>1 DEF ReadSoFar
<1>5. CASE PollRead
  <2>1. Scanned(ctrl, Len(record)) \in Ctrls BY ScanKeeps
  <2>2. ctrl'.read = poll.size /\ record' = record /\ poll'.size = poll.size /\ poll'.pc = "merge"
    BY <1>5, <2>1 DEF PollRead, toolVars, TurnTypes, MuxTypes, Ctrls
  <2> QED BY <1>1, <1>2, <1>5, <2>2 DEF ReadSoFar, PollRead
<1>6. CASE PollMerge \/ PollPlugin
  <2>1. PaneIdle \in BOOLEAN /\ poll.idle \in BOOLEAN /\ ctrl \in Ctrls
    BY DEF PaneIdle, TurnTypes, MuxTypes, Ctrls
  <2>2. ctrl'.read = ctrl.read
    BY <1>6, <2>1, ConsumedMoves, MergedMoves DEF PollMerge, PollPlugin
  <2>3. record' = record /\ poll'.size = poll.size /\ poll'.pc = "apply" /\ poll.pc = "merge"
    BY <1>6 DEF PollMerge, PollPlugin, toolVars, TurnTypes, MuxTypes
  <2> QED BY <1>1, <1>2, <2>2, <2>3 DEF ReadSoFar
<1>7. CASE PollPaneIdle \/ PollApply \/ PollPublish
  <2>1. record' = record /\ ctrl' = ctrl /\ poll'.size = poll.size /\ poll'.pc # "read"
        /\ (poll'.pc = "merge" => ~Claude)
    BY <1>7 DEF PollPaneIdle, PollApply, PollPublish, toolVars, TurnTypes, MuxTypes
  <2> QED BY <1>1, <1>2, <2>1 DEF ReadSoFar, TurnTypes, ToolTypes
<1>8. CASE Push \/ Admit
  <2>1. record' = record /\ ctrl'.read = ctrl.read /\ poll'.size = poll.size /\ poll'.pc = poll.pc
    BY <1>8 DEF Push, Admit, toolVars, TurnTypes, MuxTypes
  <2> QED BY <1>1, <1>2, <2>1 DEF ReadSoFar
<1> QED BY <1>3, <1>4, <1>5, <1>6, <1>7, <1>8, CtrlFrame, PollFrame

\* The tool writes its turns one after the other.
LEMMA InOrderHolds ==
    ASSUME TurnTypes, Numbered, InOrder, [TurnNext]_turnVars PROVE InOrder'
<1>1. /\ Len(record) \in Nat /\ tool.turn \in Nat
      /\ \A k \in 1..Len(record) : record[k].turn \in Nat
  <2>1. record \in Seq(Lines) /\ tool.turn \in Nat BY DEF TurnTypes, ToolTypes
  <2>2. Len(record) \in Nat /\ \A k \in 1..Len(record) : record[k] \in Lines BY <2>1
  <2> QED BY <2>1, <2>2 DEF Lines
<1>2. CASE /\ record' = record /\ tool'.turn = tool.turn
           /\ tool'.phase = "entered" <=> tool.phase = "entered"
           /\ (tool'.phase \in {"busy", "said", "asking"} => tool.phase \in {"busy", "said", "asking"})
  BY <1>2 DEF InOrder
<1>3. ASSUME NEW what, Writes(what, tool.turn), tool'.turn = tool.turn, tool.turn > 0,
             what = "user" <=> tool.phase = "entered",
             what = "stop" => tool'.phase = "stopped",
             tool'.phase \in {"busy", "said", "asking"} =>
               tool.phase \in {"busy", "said", "asking", "entered"},
             tool'.phase # "entered"
      PROVE  InOrder'
  <2> DEFINE n == Len(record) + 1
  <2>1. /\ Len(record') = n /\ \A k \in 1..Len(record) : record'[k] = record[k]
        /\ record'[n].kind = what /\ record'[n].turn = tool.turn
    BY <1>3, RecordGrows
  <2>2. \A k \in 1..Len(record') : k \in 1..Len(record) \/ k = n BY <1>1, <2>1
  <2>3. \A k \in 1..Len(record) : k < n /\ k \in 1..Len(record') BY <1>1, <2>1
  <2>4. n \in 1..Len(record') BY <1>1, <2>1
  <2> HIDE DEF n
  <2>5. \A k \in 1..Len(record') : record'[k].turn \in 1..tool'.turn
    BY <1>1, <1>3, <2>1, <2>2 DEF InOrder
  <2>6. ASSUME NEW k \in 1..Len(record'), NEW l \in 1..Len(record'), k < l
        PROVE  /\ record'[k].turn <= record'[l].turn
               /\ record'[l].kind = "user" => record'[k].turn < record'[l].turn
    <3>1. k \in 1..Len(record) BY <1>1, <2>2, <2>6, <2>1
    <3>2. CASE l \in 1..Len(record) BY <3>1, <3>2, <2>1, <2>6 DEF InOrder
    <3>3. CASE l = n
      <4>1. record[k].turn \in 1..tool.turn BY <3>1 DEF InOrder
      <4>2. tool.phase = "entered" => record[k].turn < tool.turn BY <3>1 DEF InOrder
      <4> QED BY <1>1, <1>3, <2>1, <3>1, <3>3, <4>1, <4>2
    <3> QED BY <2>2, <3>2, <3>3
  <2>7. \E k \in 1..Len(record') : record'[k].kind = "user" /\ record'[k].turn = tool'.turn
    BY <1>3, <2>1, <2>3, <2>4 DEF InOrder
  <2>8. tool'.phase \in {"busy", "said", "asking"} =>
          \A k \in 1..Len(record') : record'[k].kind = "stop" => record'[k].turn < tool'.turn
    BY <1>3, <2>1, <2>2 DEF InOrder
  <2> QED BY <1>3, <2>5, <2>6, <2>7, <2>8 DEF InOrder
<1>4. CASE Enter
  <2>1. CASE tool' = tool BY <2>1, <1>2, <1>4, EnterMoves
  <2>2. CASE tool'.phase = "entered" /\ tool'.turn = tool.turn + 1
    <3>1. record' = record BY <1>4, EnterMoves
    <3>2. \A k \in 1..Len(record) : record[k].turn < tool.turn + 1
                                       /\ record[k].turn \in 1..tool.turn + 1
      BY <1>1 DEF InOrder
    <3> QED BY <2>2, <3>1, <3>2 DEF InOrder
  <2> QED BY <1>4, <2>1, <2>2, EnterMoves
<1>5. tool.phase # "idle" => tool.turn > 0 BY <1>1 DEF Numbered
<1>6. CASE ToolBegins
  <2>1. Writes("user", tool.turn) /\ tool.phase = "entered" /\ tool'.turn = tool.turn
        /\ tool'.phase = "busy"
    BY <1>6 DEF ToolBegins, TurnTypes, ToolTypes
  <2> QED BY <2>1, <1>3, <1>5
<1>7. CASE ToolSays
  <2>1. /\ Writes("tool", tool.turn) \/ Writes("assistant", tool.turn)
        /\ tool.phase = "busy" /\ tool'.turn = tool.turn /\ tool'.phase = "said"
    BY <1>7 DEF ToolSays, TurnTypes, ToolTypes
  <2> QED BY <2>1, <1>3, <1>5
<1>8. CASE ToolStops
  <2>1. /\ Writes("stop", tool.turn) \/ record' = record
        /\ tool.phase = "said" /\ tool'.turn = tool.turn /\ tool'.phase = "stopped"
    BY <1>8 DEF ToolStops, TurnTypes, ToolTypes
  <2> QED BY <2>1, <1>2, <1>3, <1>5
<1>9. CASE ToolRests \/ ToolTells \/ ToolAsks \/ PersonAnswers
  <2>1. record' = record /\ tool'.turn = tool.turn
    BY <1>9 DEF ToolRests, ToolTells, ToolAsks, PersonAnswers, TurnTypes, ToolTypes
  <2>2. (tool'.phase = "entered" <=> tool.phase = "entered")
        /\ (tool'.phase \in {"busy", "said", "asking"} => tool.phase \in {"busy", "said", "asking"})
    BY <1>9 DEF ToolRests, ToolTells, ToolAsks, PersonAnswers, TurnTypes, ToolTypes
  <2> QED BY <2>1, <2>2, <1>2
<1>10. CASE UNCHANGED <<tool, record>> BY <1>10, <1>2
<1> QED BY <1>4, <1>6, <1>7, <1>8, <1>9, <1>10, ToolFrame

\* A turn is taken only when it is over.
LEMMA TakenIsOver ==
    ASSUME TurnTypes, NewsIsTrue, turn.pc = "take", ~over
    PROVE  /\ SawWork /\ Rests(0) /\ Late(0) /\ TurnRests
           /\ turn.mine # 0 => view.resp \in {0, turn.mine}
<1>1. Waiting /\ SawWork /\ Rests(0) BY DEF NewsIsTrue, TakenLate, Waiting
<1>2. Late(0) BY <1>1 DEF Late
<1>3. TurnRests /\ (turn.mine # 0 => Heard(0).resp \in {0, turn.mine})
  BY <1>1, <1>2 DEF NewsIsTrue, LateIsOver
<1>4. Heard(0).resp = view.resp BY DEF Heard, Snap
<1> QED BY <1>1, <1>2, <1>3, <1>4

\* A client that stops waiting, or whose instruction was dropped, leaves the tool
\* on no turn of its own that is not over.
LEMMA NumberedHolds ==
    ASSUME TurnTypes, Asking, Numbered, NewsIsTrue, [TurnNext]_turnVars PROVE Numbered'
<1>1. tool.turn \in Nat /\ turn.mine \in Nat BY DEF TurnTypes, ToolTypes, ClientTypes
<1>2. CASE UNCHANGED <<tool, over, send>> /\ UNCHANGED turn BY <1>2 DEF Numbered, Before, Waiting
<1>3. CASE Quit
  <2>1. over' /\ UNCHANGED <<tool, turn, send>> BY <1>3 DEF Quit, toolVars, muxVars, clientVars
  <2> QED BY <2>1 DEF Numbered, Before, Waiting
<1>4. CASE UNCHANGED <<send, over>> /\ UNCHANGED turn /\ ~over
           /\ (ToolBegins \/ ToolSays \/ ToolStops \/ ToolRests \/ ToolTells \/ ToolAsks
               \/ PersonAnswers)
  <2>1. /\ tool'.turn = tool.turn
        /\ tool'.phase # "entered"
        /\ tool.phase = "idle" => tool'.phase = "idle" /\ tool'.told
        /\ tool'.phase = tool.phase => tool'.told
    BY <1>4 DEF ToolBegins, ToolSays, ToolStops, ToolRests, ToolTells, ToolAsks, PersonAnswers,
       TurnTypes, ToolTypes
  <2>2. Before => tool.phase = "idle" BY <1>4 DEF Asking, Numbered, Before, Waiting
  <2> QED BY <1>1, <1>4, <2>1, <2>2 DEF Numbered, Before, Waiting
<1>5. CASE Enter /\ UNCHANGED over /\ ~over
  <2>1. turn.pc = "sent" /\ turn.mine = 0 /\ tool.phase = "idle" /\ tool.told
    BY <1>5, EnterMoves DEF Asking, Numbered, Before, Waiting
  <2>2. /\ turn'.pc = "sent" /\ turn'.result = turn.result /\ send' = "entered"
        /\ \/ /\ tool'.phase = "entered" /\ tool'.told
              /\ tool'.turn = tool.turn + 1 /\ turn'.mine = tool.turn + 1
           \/ tool' = tool /\ turn'.mine = 0
    BY <1>5, <2>1, EnterMoves
  <2> QED BY <1>1, <1>5, <2>1, <2>2 DEF Numbered, Before, Waiting
<1>6. CASE (Admit \/ Type \/ Answer) /\ UNCHANGED over
  <2>1. UNCHANGED <<tool, turn>> /\ (send' \in {"asked", "admitted", "typed"} => Before)
    BY <1>6 DEF Admit, Type, Answer, toolVars, clientVars, Before
  <2> QED BY <1>6, <2>1 DEF Numbered, Before, Waiting
<1>7. CASE RunBegin
  <2>1. /\ UNCHANGED <<tool, over>> /\ turn.pc = "rest"
        /\ tool.phase = "idle" /\ tool.told /\ turn'.mine = 0 /\ turn'.result = NoResult
    BY <1>7, RunBeginMoves
  <2> QED BY <1>1, <2>1 DEF Numbered, Before, Waiting, NoResult
<1>8. CASE Ingest
  <2>1. UNCHANGED <<tool, over, send>> /\ turn'.mine = turn.mine /\ turn'.result = turn.result
        /\ (turn'.pc = turn.pc \/ turn'.pc = "look")
    BY <1>8 DEF Ingest, toolVars, muxVars, TurnTypes, ClientTypes
  <2>2. ~over => turn'.pc = turn.pc \/ turn.pc = "sent" BY <1>8, IngestMoves
  <2>3. CASE ~over BY <1>1, <2>1, <2>2, <2>3, <1>8, IngestMoves DEF Numbered, Before, Waiting
  <2>4. CASE over
    <3>1. turn'.pc = turn.pc \/ (wire # <<>> /\ Head(wire).kind = "reply")
      BY <1>8 DEF Ingest
    <3> QED BY <2>1, <2>4, <3>1 DEF Numbered, Before, Waiting
  <2> QED BY <2>3, <2>4
<1>9. CASE Waits
  <2>1. /\ UNCHANGED <<tool, over, send>> /\ turn'.mine = turn.mine /\ turn.pc # "rest"
        /\ turn'.pc # "rest" => turn'.result = turn.result
        /\ turn'.pc = "rest" => TurnTakes \/ WaitTimesOut \/ view.ended
    BY <1>9, WaitsMove
  <2>2. ~over /\ turn'.pc = "rest" => tool.phase # "entered"
    <3>1. CASE TurnTakes /\ ~over BY <3>1, TakenIsOver DEF TurnTakes, TurnRests
    <3>2. CASE WaitTimesOut BY <3>2 DEF WaitTimesOut, AtRest
    <3>3. CASE view.ended BY <3>3 DEF Asking
    <3> QED BY <2>1, <3>1, <3>2, <3>3
  <2> QED BY <1>1, <2>1, <2>2 DEF Numbered, Before, Waiting
<1> QED BY <1>2, <1>3, <1>4, <1>5, <1>6, <1>7, <1>8, <1>9, OverFrame, SendFrame, ToolFrame, TurnFrame
     DEF Waits, Waiter, ToolBegins, ToolSays, ToolStops, ToolRests, ToolTells, ToolAsks,
         PersonAnswers, clientVars, muxVars

\* Before an instruction has been entered, the tool rests, and everyone knows.
LEMMA BeforeAtRest ==
    ASSUME TurnTypes, Asking, Numbered, Concluded, Before, ~over
    PROVE  /\ turn.pc = "sent" /\ Waiting /\ turn.mine = 0
           /\ tool.phase = "idle" /\ tool.told
           /\ ~Claude /\ plug.up => plug.saw = "idle"
BY DEF Asking, Numbered, Concluded, Before, Waiting

-----------------------------------------------------------------------------
(* The pane's own signs.                                                    *)
LEMMA PaneSignsHold ==
    ASSUME TurnTypes, Asking, Numbered, ReadSoFar, Concluded, PaneSigns,
           [TurnNext]_turnVars
    PROVE  PaneSigns'
<1>1. CASE UNCHANGED <<tool, record>> /\ UNCHANGED <<cfg, plug>> /\ UNCHANGED pane
           /\ UNCHANGED <<poll, pub>> /\ UNCHANGED <<over>> /\ UNCHANGED send
  BY <1>1 DEF PaneSigns, AtRestThere, PaneIdle, Claude
<1>2. /\ pane.ready \in BOOLEAN /\ pane.newer \in BOOLEAN /\ poll.idle \in BOOLEAN
  BY DEF TurnTypes, MuxTypes
<1>3. CASE (ToolBegins \/ ToolSays \/ ToolAsks \/ ToolStops \/ ToolRests) /\ ~over /\ over' = over
  <2>1. /\ UNCHANGED <<cfg, plug, poll, over, send>> /\ poll.pc # "merge"
        /\ tool.phase \in {"entered", "busy", "said", "stopped"} /\ tool'.phase # "entered"
        /\ tool'.phase \in {"idle", "asking"} => ~tool'.told
        /\ pane'.ready => pane.ready
        /\ pane'.signal = pane.signal /\ pane'.newer = pane.newer
    <3>1. CASE ToolBegins BY <1>3, <3>1, PaneMoves DEF ToolBegins, Brief, TurnTypes, ToolTypes
    <3>2. CASE ToolSays BY <1>3, <3>2, PaneMoves DEF ToolSays, Brief, TurnTypes, ToolTypes
    <3>3. CASE ToolAsks BY <1>3, <3>3, PaneMoves DEF ToolAsks, Brief, TurnTypes, ToolTypes
    <3>4. CASE ToolStops BY <1>3, <3>4 DEF ToolStops, Brief, TurnTypes, ToolTypes
    <3>5. CASE ToolRests BY <1>3, <3>5 DEF ToolRests, Brief, TurnTypes, ToolTypes
    <3> QED BY <1>3, <3>1, <3>2, <3>3, <3>4, <3>5
  <2> QED BY <1>3, <2>1 DEF PaneSigns, AtRestThere, PaneIdle, Claude
<1>4. CASE ToolTells /\ ~over /\ over' = over
  <2>1. /\ UNCHANGED <<cfg, plug, poll, over, send>>
        /\ tool.phase \in {"idle", "asking"} /\ tool'.phase = tool.phase /\ tool'.told /\ ~tool.told
        /\ Recorded
    BY <1>4 DEF ToolTells, TurnTypes, ToolTypes
  <2>2. send # "typed" BY <1>4, <2>1, BeforeAtRest DEF Before
  <2> QED BY <1>4, <2>1, <2>2 DEF PaneSigns, AtRestThere, PaneIdle, Claude, Recorded
<1>5. CASE PersonAnswers /\ ~over /\ over' = over
  <2>1. /\ UNCHANGED <<cfg, plug, poll, over, send>> /\ poll.pc = "wait" /\ tool'.phase = "busy"
        /\ pane' = Cleared
    BY <1>5 DEF PersonAnswers, AtRest, TurnTypes, ToolTypes
  <2> QED BY <2>1, PaneMoves DEF PaneSigns, AtRestThere, PaneIdle, Claude
<1>6. CASE IdleFires /\ ~over /\ over' = over
  <2>1. /\ UNCHANGED <<cfg, plug, poll, over, send, tool>> /\ send # "typed"
        /\ AtRestThere
    BY <1>6 DEF IdleFires, toolVars, AtRestThere
  <2> QED BY <2>1 DEF PaneSigns, AtRestThere, Claude
<1>7. CASE (PollRead) /\ ~over /\ over' = over
  <2>1. /\ UNCHANGED <<cfg, plug, over, send, tool>> /\ ~pane'.newer
        /\ pane'.ready = pane.ready /\ pane'.signal = pane.signal /\ poll'.idle = poll.idle
        /\ poll.pc = "read"
    BY <1>7 DEF PollRead, toolVars, TurnTypes, MuxTypes
  <2>2. Claude BY <2>1 DEF ReadSoFar, TurnTypes, ToolTypes, Claude
  <2> QED BY <2>1, <2>2 DEF PaneSigns, AtRestThere, PaneIdle, Claude
<1>8. CASE Push /\ ~over /\ over' = over
  <2>1. /\ UNCHANGED <<cfg, over, send, tool>> /\ ~pane'.newer /\ plug'.saw = tool.phase
        /\ pane'.ready = pane.ready /\ pane'.signal = pane.signal /\ ~poll'.idle
    BY <1>8 DEF Push, TurnTypes, MuxTypes, ToolTypes
  <2> QED BY <2>1 DEF PaneSigns, AtRestThere, PaneIdle, Claude
<1>9. CASE PluginLeaves /\ ~over /\ over' = over
  <2>1. UNCHANGED <<cfg, over, send, tool, pane, poll>> /\ ~plug'.up
    BY <1>9 DEF PluginLeaves, TurnTypes, ToolTypes, muxVars
  <2> QED BY <2>1 DEF PaneSigns, AtRestThere, PaneIdle, Claude
<1>10. CASE (PollBegin \/ PollMerge \/ PollPlugin \/ PollPublish) /\ ~over /\ over' = over
  <2>1. /\ UNCHANGED <<cfg, plug, over, send, tool, pane>>
        /\ poll'.pc = "merge" => Claude
    BY <1>10 DEF PollBegin, PollMerge, PollPlugin, PollPublish, toolVars, TurnTypes, MuxTypes
  <2> QED BY <2>1 DEF PaneSigns, AtRestThere, PaneIdle, Claude
<1>11. CASE (PollPaneIdle) /\ ~over /\ over' = over
  <2>1. UNCHANGED <<cfg, plug, over, send, tool, pane>> /\ poll'.idle = PaneIdle
    BY <1>11 DEF PollPaneIdle, toolVars, TurnTypes, MuxTypes
  <2> QED BY <2>1 DEF PaneSigns, AtRestThere, PaneIdle, Claude
<1>12. CASE (PollApply) /\ ~over /\ over' = over
  <2>1. UNCHANGED <<cfg, plug, over, send, tool>> /\ pane' = Painted(pane, poll.ev.state)
        /\ poll'.pc # "merge"
    BY <1>12 DEF PollApply, toolVars, TurnTypes, MuxTypes
  <2> QED BY <2>1, PaintedMoves DEF PaneSigns, AtRestThere, PaneIdle, Claude
<1>13. CASE RunBegin \/ ((Admit \/ Answer) /\ over' = over)
  <2>1. UNCHANGED <<cfg, plug, over, tool, pane, poll>> /\ send' # "typed"
    BY <1>13, RunBeginMoves DEF Admit, Answer, toolVars
  <2> QED BY <2>1 DEF PaneSigns, AtRestThere, PaneIdle, Claude
<1>14. CASE (Type) /\ ~over /\ over' = over
  <2>1. UNCHANGED <<cfg, plug, over, tool, poll>> /\ ~pane'.ready
    BY <1>14, PaneMoves DEF Type, toolVars, Cleared, TurnTypes, MuxTypes
  <2> QED BY <2>1 DEF PaneSigns, AtRestThere, PaneIdle, Claude
<1>15. CASE Enter /\ ~over /\ over' = over
  <2>1. /\ UNCHANGED <<cfg, plug, poll>> /\ ~pane'.ready
        /\ tool' = tool \/ tool'.phase = "entered"
    BY <1>15, EnterMoves, PaneMoves
  <2> QED BY <2>1 DEF PaneSigns, AtRestThere, PaneIdle, Claude
<1>16. CASE Quit
  <2>1. UNCHANGED <<cfg, plug, poll, tool, pane>> /\ over'
    BY <1>16 DEF Quit, toolVars, muxVars
  <2> QED BY <2>1 DEF PaneSigns, AtRestThere, PaneIdle, Claude
<1> QED BY <1>1, <1>3, <1>4, <1>5, <1>6, <1>7, <1>8, <1>9, <1>10, <1>11, <1>12, <1>13, <1>14, <1>15,
          <1>16, ToolFrame, PlugFrame, PaneFrame, PollFrame, OverFrame, SendFrame

\* A controller at work takes back the readiness that only it had given.
LEMMA ShownAtWorkHolds ==
    ASSUME TurnTypes, PaneSigns, ShownAtWork, [TurnNext]_turnVars
    PROVE  ShownAtWork'
<1> USE DEF ShownAtWork
<1>1. CASE UNCHANGED pane /\ UNCHANGED <<poll, pub>> BY <1>1
<1>2. CASE ToolBegins \/ ToolSays \/ ToolAsks \/ ToolTells
  <2>1. UNCHANGED <<poll, pub>>
    BY <1>2 DEF ToolBegins, ToolSays, ToolAsks, ToolTells
  <2>2. \/ \E off \in BOOLEAN : Output(off)
        \/ \E signal \in {"osc", "2004"} : Notices(signal)
    BY <1>2 DEF ToolBegins, ToolSays, ToolAsks, ToolTells
  <2>3. \/ (pane'.ready => pane.ready) /\ pane'.signal = pane.signal /\ pane'.newer = pane.newer
        \/ pane'.signal \in {"osc", "2004"} /\ pane'.newer
    BY <2>2, PaneMoves
  <2> QED BY <2>1, <2>3
<1>3. CASE PersonAnswers \/ Type \/ Enter
  <2>1. ~pane'.ready
    BY <1>3, PaneMoves DEF PersonAnswers, Type, Enter, Cleared, TurnTypes, MuxTypes
  <2> QED BY <2>1
<1>4. CASE IdleFires
  <2>1. UNCHANGED <<poll, pub>> /\ pane'.newer /\ pane'.signal \in {"title", "idle"}
    BY <1>4 DEF IdleFires, TurnTypes, MuxTypes
  <2> QED BY <2>1
<1>5. CASE PollBegin \/ PollRead \/ PollMerge \/ PollPlugin \/ PollPaneIdle
  <2>1. poll'.pc \in {"read", "merge", "apply"}
    BY <1>5 DEF PollBegin, PollRead, PollMerge, PollPlugin, PollPaneIdle, TurnTypes, MuxTypes
  <2> QED BY <2>1
<1>6. CASE PollApply
  <2>1. pub'.state = poll.ev.state /\ pane' = Painted(pane, poll.ev.state) BY <1>6 DEF PollApply
  <2> QED BY <2>1, PaintedMoves
<1>7. CASE PollPublish
  <2>1. UNCHANGED <<pane, pub>> /\ poll.pc = "publish" BY <1>7 DEF PollPublish
  <2> QED BY <2>1
<1>8. CASE Push
  <2>1. /\ pane'.ready = pane.ready /\ pane'.signal = pane.signal /\ poll'.pc = poll.pc /\ pub' = pub
        /\ ~Claude /\ plug.up /\ plug.saw # tool.phase
    BY <1>8 DEF Push, TurnTypes, MuxTypes
  <2> QED BY <2>1 DEF PaneSigns
<1> QED BY <1>1, <1>2, <1>3, <1>4, <1>5, <1>6, <1>7, <1>8, PaneFrame, PollFrame

\* A client that waits has been waiting, or begins; it stays with its turn.
LEMMA WaitingFrom ==
    ASSUME TurnTypes, Asking, [TurnNext]_turnVars
    PROVE  /\ Waiting' => (Waiting \/ RunBegin) /\ ~over
           /\ turn'.mine = turn.mine \/ Enter \/ RunBegin
<1>1. over => over' BY OverFrame DEF Quit
<1>2. CASE Ingest /\ ~over BY <1>1, <1>2, IngestMoves DEF Waiting
<1>3. CASE UNCHANGED turn \/ Waits \/ Enter \/ RunBegin
  BY <1>1, <1>3, WaitsMove, EnterMoves DEF Waiting
<1>4. CASE Ingest /\ over BY <1>1, <1>4 DEF Ingest, TurnTypes, ClientTypes, Waiting
<1> QED BY <1>2, <1>3, <1>4, TurnFrame DEF Waits, Waiter

\* Whatever the tool shows when it comes to rest starts the clocks.
LEMMA ClockRunsHolds ==
    ASSUME TurnTypes, Asking, Numbered, Concluded, ClockRuns, [TurnNext]_turnVars
    PROVE  ClockRuns'
<1> USE DEF ClockRuns
<1>1. Waiting' => Waiting \/ RunBegin BY WaitingFrom
<1>2. CASE RunBegin BY <1>2, RunBeginMoves
<1>3. CASE (ToolBegins \/ ToolSays \/ ToolStops \/ ToolRests \/ ToolAsks \/ PersonAnswers)
  <2>1. ~(tool'.phase \in {"idle", "asking"} /\ tool'.told)
    BY <1>3
       DEF ToolBegins, ToolSays, ToolStops, ToolRests, ToolAsks, PersonAnswers, TurnTypes,
           ToolTypes
  <2> QED BY <2>1 DEF AtRestThere
<1>4. CASE ToolTells
  <2>1. \/ \E off \in BOOLEAN : Output(off)
        \/ \E signal \in {"osc", "2004"} : Notices(signal)
    BY <1>4 DEF ToolTells
  <2>2. pane'.clock BY <2>1, PaneMoves
  <2> QED BY <2>2
<1>5. CASE Enter
  <2>1. tool'.phase = "entered" \/ turn'.mine = 0 BY <1>5, EnterMoves
  <2> QED BY <2>1 DEF AtRestThere
<1>6. CASE UNCHANGED <<tool, record>> /\ turn'.mine = turn.mine
           /\ (IdleFires \/ PollRead \/ Push \/ PollApply \/ Type \/ UNCHANGED pane) /\ ~RunBegin
  <2>1. pane.clock => pane'.clock
    <3>1. CASE IdleFires \/ PollRead \/ Push
      BY <3>1 DEF IdleFires, PollRead, Push, TurnTypes, MuxTypes
    <3>2. CASE PollApply BY <3>2, PaintedMoves DEF PollApply
    <3>3. CASE Type BY <3>3 DEF Type, Cleared, TurnTypes, MuxTypes
    <3> QED BY <1>6, <3>1, <3>2, <3>3
  <2> QED BY <1>1, <1>6, <2>1 DEF AtRestThere, Waiting
<1>7. turn'.mine = turn.mine \/ Enter \/ RunBegin BY WaitingFrom
<1> QED BY <1>2, <1>3, <1>4, <1>5, <1>6, <1>7, ToolFrame, PaneFrame

\* A sign newer than what was read is looked at after the record.
LEMMA IdleIsReadHolds ==
    ASSUME TurnTypes, ReadSoFar, IdleIsRead, [TurnNext]_turnVars
    PROVE  IdleIsRead'
<1> USE DEF IdleIsRead, PaneIdle
<1>1. Len(record) \in Nat /\ ctrl.read \in Nat BY ScanStarts
<1>2. cfg' = cfg BY PlugFrame DEF Push, PluginLeaves
<1>3. cfg.found => Claude BY DEF TurnTypes, ToolTypes
<1>4. CASE UNCHANGED <<tool, record>> /\ UNCHANGED pane /\ UNCHANGED ctrl /\ UNCHANGED <<poll, pub>>
  BY <1>2, <1>4
<1>5. CASE ToolBegins \/ ToolSays \/ ToolStops \/ ToolRests \/ ToolAsks \/ PersonAnswers
  <2>1. poll'.pc # "merge"
    BY <1>5 DEF ToolBegins, ToolSays, ToolStops, ToolRests, ToolAsks, PersonAnswers, Brief, AtRest
  <2> QED BY <2>1
<1>6. CASE ToolTells
  <2>1. UNCHANGED <<ctrl, record, poll>> /\ Measured BY <1>6 DEF ToolTells
  <2> QED BY <1>2, <2>1 DEF Measured, ReadSoFar
<1>7. CASE IdleFires
  <2>1. poll'.pc # "merge" BY <1>7 DEF IdleFires
  <2> QED BY <2>1
<1>8. CASE Type \/ Enter
  <2>1. ~pane'.ready
    BY <1>8, PaneMoves DEF Type, Enter, Cleared, TurnTypes, MuxTypes
  <2> QED BY <2>1
<1>9. CASE PollRead
  <2>1. ~pane'.newer BY <1>9 DEF PollRead, TurnTypes, MuxTypes
  <2> QED BY <2>1
<1>10. CASE Push \/ PollPaneIdle \/ PollPlugin
  <2>1. ~Claude BY <1>10 DEF Push, PollPaneIdle, PollPlugin
  <2> QED BY <1>2, <1>3, <2>1
<1>11. CASE PollBegin
  <2>1. /\ record' = record /\ ctrl'.read = ctrl.read
        /\ poll'.pc = "merge" /\ cfg.found => ~(Len(record) > ctrl.read)
    BY <1>11, ConsumedMoves DEF PollBegin, toolVars, TurnTypes, MuxTypes
  <2> QED BY <1>1, <1>2, <2>1 DEF ReadSoFar
<1>12. CASE PollMerge \/ PollApply \/ PollPublish
  <2>1. poll'.pc # "merge" BY <1>12 DEF PollMerge, PollApply, PollPublish, TurnTypes, MuxTypes
  <2> QED BY <2>1
<1>13. CASE Admit
  <2>1. UNCHANGED <<record, pane, poll>> /\ ctrl'.read = ctrl.read
    BY <1>13 DEF Admit, toolVars, TurnTypes, MuxTypes
  <2> QED BY <1>2, <2>1
<1> QED BY <1>4, <1>5, <1>6, <1>7, <1>8, <1>9, <1>10, <1>11, <1>12, <1>13, ToolFrame, PaneFrame,
          CtrlFrame, PollFrame

LEMMA SignsHold ==
    ASSUME TurnTypes, Asking, Numbered, ReadSoFar, Concluded, Signs, [TurnNext]_turnVars
    PROVE  Signs'
BY PaneSignsHold, ShownAtWorkHolds, ClockRunsHolds, IdleIsReadHolds DEF Signs

-----------------------------------------------------------------------------
(* The controller's conclusions and the answer it holds.                    *)
LEMMA ConcludedHolds ==
    ASSUME TurnTypes, ReadSoFar, Asking, Numbered, Concluded, [TurnNext]_turnVars
    PROVE  Concluded'
<1>1. /\ cfg.found => Claude
      /\ tool.phase \in Phases /\ plug.saw \in Phases
      /\ ctrl \in Ctrls /\ PaneIdle \in BOOLEAN /\ poll.idle \in BOOLEAN
  BY DEF TurnTypes, ToolTypes, MuxTypes, Ctrls, PaneIdle
<1>2. cfg' = cfg BY PlugFrame DEF Push, PluginLeaves
<1>3. CASE UNCHANGED ctrl /\ plug'.saw = plug.saw /\ (plug'.up => plug.up)
  <2>1. Waiting' /\ turn'.mine = 0 /\ ~Claude /\ plug.up => plug.saw = "idle"
    <3>1. CASE Waiting /\ turn'.mine = turn.mine BY <3>1 DEF Concluded
    <3>2. CASE RunBegin BY <3>2, RunBeginMoves DEF Recorded
    <3>3. CASE Enter /\ Waiting BY <3>3, EnterMoves, BeforeAtRest DEF Before, Waiting
    <3> QED BY <3>1, <3>2, <3>3, WaitingFrom
  <2> QED BY <1>2, <1>3, <2>1 DEF Concluded, Claude
<1>4. CASE PollBegin
  <2>1. Claude /\ ctrl' = Consumed(ctrl) BY <1>4 DEF PollBegin
  <2> QED BY <1>1, <1>2, <2>1, ConsumedMoves DEF Concluded, Claude
<1>5. CASE PollRead
  <2>1. Claude /\ cfg.found BY <1>1, <1>5 DEF PollRead, ReadSoFar
  <2>2. ctrl'.state = Scanned(ctrl, Len(record)).state
    BY <1>5, ScanKeeps DEF PollRead, Ctrls
  <2> QED BY <1>2, <2>1, <2>2, ScanKeeps DEF Concluded, Claude
<1>6. CASE PollMerge
  <2>1. Claude /\ ctrl' = Merged(ctrl, PaneIdle) BY <1>6 DEF PollMerge
  <2> QED BY <1>1, <1>2, <2>1, MergedMoves DEF Concluded, Claude
<1>7. CASE (PollPlugin \/ Push \/ Admit) /\ over' = over /\ ~over
  <2>1. UNCHANGED turn BY <1>7 DEF PollPlugin, Push, Admit, clientVars
  <2>2. Waiting' = Waiting BY <1>7, <2>1 DEF Waiting
  <2>3. CASE PollPlugin
    <3>1. ~Claude /\ ctrl' = Merged(Consumed(ctrl), poll.idle) /\ plug' = plug
      BY <2>3 DEF PollPlugin, toolVars
    <3>2. ctrl'.state \notin Settled => ctrl'.resp = 0
      BY <1>1, <3>1, ConsumedMoves, MergedMoves DEF Concluded
    <3>3. plug.up /\ plug.saw = "asking" => ctrl' = ctrl
      BY <1>1, <3>1, ConsumedMoves, MergedMoves DEF Concluded, Settled
    <3>4. plug.up /\ plug.saw = "idle" => ctrl'.state # "awaiting_permission"
      BY <1>1, <3>1, ConsumedMoves, MergedMoves DEF Concluded
    <3> QED BY <1>2, <2>1, <2>2, <3>1, <3>2, <3>3, <3>4 DEF Concluded, Claude
  <2>4. CASE Push
    <3>1. /\ ~Claude /\ plug'.saw = tool.phase /\ ctrl'.state = Reported /\ ~ctrl'.injected
          /\ ctrl'.resp = IF tool.phase = "idle" THEN tool.said ELSE 0
      BY <2>4 DEF Push, TurnTypes, ToolTypes, MuxTypes
    <3>2. /\ Reported = "awaiting_permission" <=> tool.phase = "asking"
          /\ tool.phase = "idle" => Reported \in Settled
      BY <1>1 DEF Reported, Settled
    <3>3. Waiting /\ turn.mine = 0 => tool.phase = "idle" BY DEF Numbered
    <3> QED BY <1>2, <2>1, <2>2, <3>1, <3>2, <3>3 DEF Concluded, Claude
  <2>5. CASE Admit
    <3>1. /\ send = "asked" /\ plug' = plug
          /\ ctrl'.state = ctrl.state /\ ctrl'.resp = ctrl.resp
      BY <2>5 DEF Admit, toolVars, TurnTypes, MuxTypes
    <3>2. ~Claude /\ plug.up => plug.saw = "idle" BY <1>7, <3>1, BeforeAtRest DEF Before
    <3> QED BY <1>2, <2>1, <2>2, <3>1, <3>2 DEF Concluded, Claude
  <2> QED BY <1>7, <2>3, <2>4, <2>5
<1>8. CASE PluginLeaves
  <2>1. UNCHANGED ctrl /\ ~plug'.up /\ plug'.saw = plug.saw
    BY <1>8 DEF PluginLeaves, muxVars, TurnTypes, ToolTypes
  <2> QED BY <1>3, <2>1
<1> QED BY <1>3, <1>4, <1>5, <1>6, <1>7, <1>8, CtrlFrame, PlugFrame

\* A poll that reads leaves the client's own answer, or none.
LEMMA ReadAnswers ==
    ASSUME TurnTypes, ReadSoFar, InOrder, Numbered, OwnAnswer, Waiting, turn.mine # 0,
           tool.phase # "entered", PollRead
    PROVE  ctrl'.resp \in {0, turn.mine}
<1>1. cfg.found BY DEF PollRead, ReadSoFar
<1>2. Scanned(ctrl, Len(record)).resp \in {0, turn.mine}
  BY <1>1, ScanAnswers DEF OwnAnswer, Numbered
<1> QED BY <1>2, ScanKeeps DEF PollRead, Ctrls

\* The answer of an earlier turn is taken back by the user's line of this one, or
\* by the poll that takes note of the instruction.
LEMMA OwnAnswerHolds ==
    ASSUME TurnTypes, ReadSoFar, InOrder, Asking, Numbered, Concluded, OwnAnswer, OwnAnswerToCome,
           [TurnNext]_turnVars
    PROVE  OwnAnswer'
<1>1. /\ cfg.found => Claude
      /\ ctrl \in Ctrls /\ PaneIdle \in BOOLEAN /\ poll.idle \in BOOLEAN
      /\ Len(record) \in Nat /\ ctrl.read \in Nat /\ ctrl.read <= Len(record)
      /\ tool.turn \in Nat /\ turn.mine \in Nat
  BY ScanStarts DEF TurnTypes, ToolTypes, MuxTypes, ClientTypes, Ctrls, PaneIdle
<1>2. cfg' = cfg BY PlugFrame DEF Push, PluginLeaves
<1>3. CASE RunBegin BY <1>3, RunBeginMoves DEF OwnAnswer
<1>4. CASE Enter /\ ~over
  <2>1. /\ UNCHANGED <<ctrl, record>> /\ send = "typed"
        /\ turn'.mine = 0 \/ tool'.phase = "entered"
    BY <1>4, EnterMoves
  <2>2. Waiting BY <1>4, <2>1, BeforeAtRest DEF Before
  <2>3. ~Claude => ctrl.injected \/ ctrl.resp = 0 BY <2>1, <2>2 DEF OwnAnswerToCome
  <2> QED BY <1>2, <2>1, <2>3 DEF OwnAnswer, Claude
<1> SUFFICES ASSUME Waiting, turn'.mine = turn.mine, turn.mine # 0
             PROVE  /\ cfg.found /\ tool'.phase # "entered" =>
                         \/ ctrl'.resp \in {0, turn.mine}
                         \/ \E k \in Unread' : record'[k].kind = "user" /\ record'[k].turn = turn.mine
                    /\ ~Claude => ctrl'.injected \/ ctrl'.resp \in {0, turn.mine}
  <2>1. CASE turn'.mine = 0 BY <2>1 DEF OwnAnswer
  <2> QED BY <1>2, <1>3, <1>4, <2>1, WaitingFrom, TurnFrame DEF OwnAnswer, Claude
<1>5. turn.mine = tool.turn BY DEF Numbered
<1>6. CASE UNCHANGED ctrl /\ tool'.phase # "entered" /\ tool.phase # "entered"
           /\ (record' = record \/ \E what, n : Writes(what, n))
  <2>1. /\ Len(record') = Len(record) \/ Len(record') = Len(record) + 1
        /\ \A k \in 1..Len(record) : record'[k] = record[k]
    BY <1>1, <1>6, RecordGrows
  <2>2. \A k \in Unread : k \in Unread' /\ k \in 1..Len(record) BY <1>1, <1>6, <2>1 DEF Unread
  <2> QED BY <1>6, <2>1, <2>2 DEF OwnAnswer
<1>7. CASE ToolBegins
  <2>1. UNCHANGED ctrl /\ Writes("user", tool.turn) BY <1>7 DEF ToolBegins
  <2>2. /\ Len(record') = Len(record) + 1 /\ record'[Len(record) + 1].kind = "user"
        /\ record'[Len(record) + 1].turn = tool.turn
    BY <2>1, RecordGrows
  <2>3. Len(record) + 1 \in Unread' BY <1>1, <2>1, <2>2 DEF Unread
  <2> QED BY <1>5, <2>1, <2>2, <2>3 DEF OwnAnswer
<1>8. CASE ToolSays \/ ToolStops \/ ToolRests \/ ToolTells \/ ToolAsks \/ PersonAnswers
  <2>1. UNCHANGED ctrl /\ tool'.phase # "entered" /\ tool.phase # "entered"
    BY <1>8
       DEF ToolSays, ToolStops, ToolRests, ToolTells, ToolAsks, PersonAnswers, TurnTypes,
           ToolTypes
  <2>2. record' = record \/ \E what, n : Writes(what, n)
    BY <1>8 DEF ToolSays, ToolStops, ToolRests, ToolTells, ToolAsks, PersonAnswers
  <2> QED BY <1>6, <2>1, <2>2
<1>9. CASE UNCHANGED ctrl /\ UNCHANGED <<tool, record>> BY <1>9 DEF OwnAnswer, Unread
<1>10. CASE PollBegin
  <2>1. ctrl' = Consumed(ctrl) /\ UNCHANGED <<tool, record>> /\ Claude BY <1>10 DEF PollBegin, toolVars
  <2>2. ctrl'.read = ctrl.read /\ ctrl'.resp \in {0, ctrl.resp} BY <2>1, ConsumedMoves
  <2>3. Unread' = Unread BY <2>1, <2>2 DEF Unread
  <2> QED BY <2>1, <2>2, <2>3 DEF OwnAnswer
<1>11. CASE PollRead
  <2>1. tool' = tool /\ Claude BY <1>1, <1>11 DEF PollRead, toolVars, ReadSoFar
  <2> QED BY <1>11, <2>1, ReadAnswers
<1>12. CASE PollMerge
  <2>1. ctrl' = Merged(ctrl, PaneIdle) /\ UNCHANGED <<tool, record>> /\ Claude
    BY <1>12 DEF PollMerge, toolVars
  <2>2. ctrl'.read = ctrl.read /\ ctrl'.resp = ctrl.resp BY <1>1, <2>1, MergedMoves
  <2>3. Unread' = Unread BY <2>1, <2>2 DEF Unread
  <2> QED BY <2>1, <2>2, <2>3 DEF OwnAnswer
<1>13. CASE PollPlugin
  <2>1. ctrl' = Merged(Consumed(ctrl), poll.idle) /\ ~Claude BY <1>13 DEF PollPlugin
  <2>2. ctrl'.resp = Consumed(ctrl).resp BY <1>1, <2>1, ConsumedMoves, MergedMoves
  <2>3. ctrl'.resp \in {0, turn.mine}
    <3>1. CASE ~ctrl.injected BY <2>1, <2>2, <3>1, ConsumedMoves DEF OwnAnswer
    <3>2. CASE ctrl.injected
      <4>1. Consumed(ctrl).resp = 0 \/ ctrl.resp = 0 BY <2>1, <3>2, ConsumedMoves DEF Concluded
      <4> QED BY <2>2, <4>1, ConsumedMoves
    <3> QED BY <3>1, <3>2
  <2> QED BY <1>1, <2>1, <2>3
<1>14. CASE Push
  <2>1. ~Claude /\ ctrl'.resp \in {0, tool.said} BY <1>14 DEF Push, TurnTypes, MuxTypes
  <2>2. tool.said \in {0, tool.turn} BY DEF TurnTypes, ToolTypes
  <2> QED BY <1>1, <1>5, <2>1, <2>2
<1>15. CASE Admit
  <2>1. /\ UNCHANGED <<tool, record>> /\ ctrl'.injected
        /\ ctrl'.read = ctrl.read /\ ctrl'.resp = ctrl.resp
    BY <1>15 DEF Admit, toolVars, TurnTypes, MuxTypes
  <2>2. Unread' = Unread BY <2>1 DEF Unread
  <2> QED BY <2>1, <2>2 DEF OwnAnswer
<1>16. CASE Enter BY <1>16, EnterMoves DEF Numbered, Before
<1> QED BY <1>7, <1>8, <1>9, <1>10, <1>11, <1>12, <1>13, <1>14, <1>15, <1>16, CtrlFrame, ToolFrame

LEMMA OwnAnswerToComeHolds ==
    ASSUME TurnTypes, ReadSoFar, Asking, Numbered, Concluded, OwnAnswerToCome, [TurnNext]_turnVars
    PROVE  OwnAnswerToCome'
<1>1. /\ ctrl \in Ctrls /\ poll.idle \in BOOLEAN
  BY DEF TurnTypes, MuxTypes, Ctrls
<1>2. cfg' = cfg BY PlugFrame DEF Push, PluginLeaves
<1> USE DEF OwnAnswerToCome
<1>3. CASE Admit
  <2>1. ctrl'.injected BY <1>3 DEF Admit, TurnTypes, MuxTypes
  <2> QED BY <2>1
<1>4. send' \in {"admitted", "typed"} => send \in {"admitted", "typed"} \/ Admit
  BY SendFrame DEF Admit, Type, Enter, Answer, RunBegin
<1>5. CASE UNCHANGED ctrl
  <2>1. CASE RunBegin BY <2>1, RunBeginMoves
  <2> QED BY <1>2, <1>3, <1>4, <1>5, <2>1, WaitingFrom DEF Claude
<1>6. CASE PollBegin \/ PollRead \/ PollMerge
  <2>1. Claude BY <1>6 DEF PollBegin, PollRead, PollMerge, ReadSoFar, TurnTypes, ToolTypes
  <2> QED BY <1>2, <2>1 DEF Claude
<1>7. CASE PollPlugin
  <2>1. ctrl' = Merged(Consumed(ctrl), poll.idle) /\ ~Claude /\ UNCHANGED <<send, turn>>
    BY <1>7 DEF PollPlugin, clientVars
  <2>2. ctrl'.resp = Consumed(ctrl).resp BY <1>1, <2>1, ConsumedMoves, MergedMoves
  <2>3. ctrl.injected => Consumed(ctrl).resp = 0 \/ ctrl.resp = 0
    BY <2>1, ConsumedMoves DEF Concluded
  <2>4. Waiting' => Waiting BY <2>1, WaitingFrom DEF Waiting
  <2> QED BY <2>1, <2>2, <2>3, <2>4, ConsumedMoves
<1>8. CASE Push
  <2>1. UNCHANGED <<send, turn>> /\ ~Claude /\ plug.up /\ plug.saw # tool.phase
    BY <1>8 DEF Push, clientVars
  <2>2. Waiting' => Waiting /\ ~over BY <2>1, WaitingFrom DEF Waiting
  <2> QED BY <2>1, <2>2, BeforeAtRest DEF Before
<1> QED BY <1>3, <1>5, <1>6, <1>7, <1>8, CtrlFrame

\* What is still to be read: the end of the same record.
LEMMA UnreadShrinks ==
    ASSUME TurnTypes, ReadSoFar, cfg' = cfg, record' = record,
           ctrl'.read \in Nat, ctrl.read <= ctrl'.read
    PROVE  (StaysSettled => StaysSettled') /\ (WillSettle' => WillSettle)
<1>1. Len(record) \in Nat /\ ctrl.read \in Nat BY ScanStarts
<1>2. Unread' \subseteq Unread /\ Unread \subseteq Nat BY <1>1 DEF Unread
<1>3. \A k \in Unread', l \in Unread : k < l => l \in Unread' BY <1>1 DEF Unread
<1> QED BY <1>2, <1>3 DEF StaysSettled, WillSettle

\* A line more, of a turn under way.
LEMMA UnreadGrows ==
    ASSUME TurnTypes, ReadSoFar, cfg' = cfg, ctrl'.read = ctrl.read, NEW what, NEW n, Writes(what, n)
    PROVE  /\ what # "user" => (StaysSettled => StaysSettled')
           /\ what # "stop" => (WillSettle' => WillSettle)
           /\ what = "user" => ~WillSettle'
<1>1. Len(record) \in Nat /\ ctrl.read \in Nat /\ ctrl.read <= Len(record) BY ScanStarts
<1> DEFINE m == Len(record) + 1
<1>2. /\ Len(record') = m /\ \A k \in 1..Len(record) : record'[k] = record[k]
      /\ record'[m].kind = what
  BY RecordGrows
<1>3. /\ \A k \in Unread' : k \in Unread \/ k = m
      /\ \A k \in Unread : k \in Unread' /\ k \in 1..Len(record) /\ k < m
      /\ m \in Unread' /\ m \in Nat
  BY <1>1, <1>2 DEF Unread
<1> HIDE DEF m
<1>4. \A k \in Unread : record'[k].kind = record[k].kind BY <1>2, <1>3
<1> QED BY <1>2, <1>3, <1>4 DEF StaysSettled, WillSettle

\* A poll that has read looks at the pane with no line unread that it would
\* conclude otherwise from.
LEMMA CaughtHolds ==
    ASSUME TurnTypes, ReadSoFar, InOrder, Asking, Numbered, Concluded, OwnAnswer, Caught,
           [TurnNext]_turnVars
    PROVE  Caught'
<1>1. /\ cfg.found => Claude
      /\ ctrl \in Ctrls /\ Len(record) \in Nat /\ ctrl.read \in Nat
  BY ScanStarts DEF TurnTypes, ToolTypes, MuxTypes, Ctrls
<1>2. cfg' = cfg BY PlugFrame DEF Push, PluginLeaves
<1>3. CASE PollBegin
  <2>1. /\ UNCHANGED <<record, tool, turn>> /\ ctrl' = Consumed(ctrl)
        /\ poll'.pc = "merge" /\ cfg.found => ~(Len(record) > ctrl.read)
    BY <1>3 DEF PollBegin, toolVars, clientVars, TurnTypes, MuxTypes
  <2>2. ctrl'.read = ctrl.read /\ ctrl'.resp \in {0, ctrl.resp} BY <2>1, ConsumedMoves
  <2>3. poll'.pc = "merge" /\ cfg.found => Unread = {} /\ Unread' = {}
    BY <1>1, <2>1, <2>2 DEF Unread
  <2>4. Waiting' => Waiting BY <2>1, WaitingFrom DEF Waiting
  <2> QED BY <1>2, <2>1, <2>2, <2>3, <2>4 DEF Caught, StaysSettled, WillSettle, OwnAnswer
<1>4. CASE PollRead
  <2>1. /\ UNCHANGED <<record, tool, turn>> /\ cfg.found
        /\ ctrl'.state = Scanned(ctrl, Len(record)).state /\ ctrl'.read = poll.size
        /\ ctrl.read <= poll.size /\ poll.size \in Nat
    <3>1. poll.size \in Nat BY DEF TurnTypes, MuxTypes
    <3>2. ctrl.read <= poll.size /\ cfg.found BY <1>1, <1>4, <3>1 DEF PollRead, ReadSoFar
    <3> QED BY <1>4, <3>1, <3>2, ScanKeeps DEF PollRead, toolVars, clientVars, Ctrls
  <2>2. /\ ctrl'.state \in Settled => StaysSettled
        /\ ctrl'.state \notin Settled => ~WillSettle
    BY <2>1, ScanSettles
  <2>3. (StaysSettled => StaysSettled') /\ (WillSettle' => WillSettle) BY <1>2, <2>1, UnreadShrinks
  <2>4. Waiting' => Waiting BY <2>1, WaitingFrom DEF Waiting
  <2> QED BY <1>4, <2>1, <2>2, <2>3, <2>4, ReadAnswers DEF Caught
<1> SUFFICES ASSUME poll.pc = "merge", poll'.pc = "merge", cfg.found, Caught PROVE Caught'
  <2>1. poll'.pc = "merge" => poll.pc = "merge" \/ PollBegin \/ PollRead \/ ~Claude
    BY PollFrame
       DEF PollMerge, PollPaneIdle, PollPlugin, Push, PollApply, PollPublish, TurnTypes, MuxTypes
  <2> QED BY <1>1, <1>2, <1>3, <1>4, <2>1 DEF Caught
<1>5. record' = record /\ (tool'.phase = tool.phase \/ Enter)
  BY ToolFrame
     DEF ToolBegins, ToolSays, ToolStops, ToolRests, ToolTells, ToolAsks, PersonAnswers, Enter,
     Brief, AtRest, TurnTypes, ToolTypes
<1>6. ctrl'.state = ctrl.state /\ ctrl'.resp = ctrl.resp /\ ctrl'.read = ctrl.read
  <2>1. CASE UNCHANGED ctrl BY <2>1
  <2>2. CASE Admit BY <2>2 DEF Admit, TurnTypes, MuxTypes
  <2>3. ~PollBegin /\ ~PollRead /\ ~PollPlugin /\ ~Push
    BY <1>1 DEF PollBegin, PollRead, PollPlugin, Push
  <2>4. PollMerge => poll'.pc = "apply" BY DEF PollMerge, TurnTypes, MuxTypes
  <2> QED BY <2>1, <2>2, <2>3, <2>4, CtrlFrame
<1>7. (StaysSettled => StaysSettled') /\ (WillSettle' => WillSettle)
  BY <1>1, <1>2, <1>5, <1>6, UnreadShrinks
<1>8. ASSUME Waiting', turn'.mine # 0, tool'.phase # "entered"
      PROVE  ctrl'.resp \in {0, turn'.mine}
  <2>1. CASE RunBegin BY <1>8, <2>1, RunBeginMoves
  <2>2. CASE Enter BY <1>8, <2>2, EnterMoves
  <2>3. CASE Waiting /\ turn'.mine = turn.mine /\ ~Enter BY <1>5, <1>6, <1>8, <2>3 DEF Caught
  <2> QED BY <1>8, <2>1, <2>2, <2>3, WaitingFrom
<1> QED BY <1>6, <1>7, <1>8 DEF Caught

\* No change falls between the look, the subscription and the second look.
LEMMA WaiterIsToldHolds ==
    ASSUME TurnTypes, Asking, WaiterIsTold, [TurnNext]_turnVars
    PROVE  WaiterIsTold'
<1>1. /\ view \in [state : States \cup {"unknown"}, resp : Nat, closed : BOOLEAN, ended : BOOLEAN]
      /\ turn \in [pc : {"rest", "sent", "look", "sub", "again", "park", "take"},
                   phase : {"start", "settle"}, sends : Nat, before : Nat, mine : Nat,
                   result : [how : {"none", "turn", "unseen", "stalled", "error"},
                             state : States \cup {"unknown"}, resp : Nat]]
  BY DEF TurnTypes, ClientTypes
<1> USE DEF WaiterIsTold, Pred
<1>2. CASE UNCHANGED view /\ turn'.pc = turn.pc /\ turn'.phase = turn.phase
  BY <1>2
<1>3. CASE Ingest
  <2>1. \/ view'.closed
        \/ view' = view /\ turn'.pc = "look"
    BY <1>1, <1>3 DEF Ingest, ApplyPane, Seed, Bump
  <2> QED BY <2>1
<1>4. CASE RunBegin BY <1>4, RunBeginMoves
<1>5. CASE WaitLooks \/ WaitSubscribes \/ WaitWakes \/ TurnTakes \/ SendFails \/ WaitTimesOut
  <2>1. turn'.pc # "park"
    BY <1>1, <1>5
       DEF WaitLooks, WaitSubscribes, WaitWakes, TurnTakes, SendFails, WaitTimesOut, Holds,
       Fails, Ended
  <2> QED BY <2>1
<1>6. CASE WaitLooksAgain
  <2>1. Pred => turn'.pc # "park" BY <1>1, <1>6 DEF WaitLooksAgain, Holds
  <2>2. ~Pred /\ view.ended => turn'.pc # "park" BY <1>1, <1>6 DEF WaitLooksAgain, Fails, Ended
  <2>3. ~Pred /\ ~view.ended => turn'.phase = turn.phase BY <1>1, <1>6 DEF WaitLooksAgain
  <2>4. view' = view BY <1>6 DEF WaitLooksAgain
  <2> QED BY <2>1, <2>2, <2>3, <2>4
<1> QED BY <1>2, <1>3, <1>4, <1>5, <1>6, ViewFrame, TurnFrame, EnterMoves

\* Nothing else is to be heard at rest than what the controller says.
LEMMA AtRestHeard ==
    ASSUME TurnTypes, LastIsPublished, AtRest, ~over
    PROVE  view.state = ctrl.state /\ view.resp = ctrl.resp
<1>1. wire = <<>> /\ poll.pc = "wait" /\ pub = Snap(ctrl.state, ctrl.resp) BY DEF AtRest
<1>2. Len(wire) = 0 BY <1>1
<1>3. pub # NoSnap BY <1>1 DEF NoSnap, Snap, TurnTypes, MuxTypes, States
<1>4. 0 \in 0..Len(wire) /\ IsNews(0) /\ \A q \in 0 + 1 .. Len(wire) : FALSE BY <1>2 DEF IsNews
<1>5. Heard(0) = pub
  <2>1. \A p \in 0..Len(wire) :
          IsNews(p) /\ (\A q \in p + 1 .. Len(wire) : ~IsNews(q)) => Heard(p) = pub
    BY <1>1, <1>3 DEF LastIsPublished
  <2> QED BY <1>4, <2>1
<1> QED BY <1>1, <1>5 DEF Heard, Snap

\* A result is taken where news of rest is late, or where nothing is on its way.
LEMMA NoStaleAnswerHolds ==
    ASSUME TurnTypes, Asking, Numbered, Concluded, OwnAnswer, LastIsPublished, NewsIsTrue,
           NoStaleAnswer,
           [TurnNext]_turnVars
    PROVE  NoStaleAnswer'
<1> USE DEF NoStaleAnswer
<1>1. over => over' BY OverFrame DEF Quit
<1>2. CASE UNCHANGED turn BY <1>1, <1>2
<1>3. CASE RunBegin BY <1>3, RunBeginMoves DEF NoResult
<1>4. CASE Enter /\ over' = over
  <2>1. turn'.result = turn.result /\ send = "typed" BY <1>4, EnterMoves
  <2> QED BY <1>4, <2>1 DEF Asking, Numbered, Waiting
<1>5. CASE Ingest
  <2>1. turn'.result = turn.result /\ turn'.mine = turn.mine
    BY <1>5 DEF Ingest, TurnTypes, ClientTypes
  <2> QED BY <1>1, <2>1
<1>6. CASE Waits
  <2>1. /\ turn'.mine = turn.mine /\ over' = over /\ turn.pc # "rest"
        /\ turn'.pc # "rest" => turn'.result = turn.result
        /\ turn'.pc = "rest" => TurnTakes \/ WaitTimesOut \/ view.ended
    BY <1>6, WaitsMove
  <2>2. CASE turn'.pc # "rest" \/ over BY <2>1, <2>2
  <2>3. CASE TurnTakes /\ ~over
    <3>1. turn'.result.resp = view.resp /\ turn.pc = "take"
      BY <2>3 DEF TurnTakes, Ended, TurnTypes, ClientTypes
    <3> QED BY <2>1, <2>3, <3>1, TakenIsOver
  <2>4. CASE WaitTimesOut /\ ~over
    <3>1. turn'.result.resp = view.resp /\ AtRest
      BY <2>4 DEF WaitTimesOut, Fails, Ended, TurnTypes, ClientTypes
    <3>2. view.resp = ctrl.resp BY <2>4, <3>1, AtRestHeard
    <3>3. ~ctrl.injected /\ tool.phase # "entered" /\ (cfg.found => Unread = {})
      <4>1. cfg.found => ctrl.read = Len(record) BY <3>1 DEF AtRest
      <4>2. Len(record) \in Nat
        <5>1. record \in Seq(Lines) BY DEF TurnTypes, ToolTypes
        <5> QED BY <5>1
      <4> QED BY <3>1, <4>1, <4>2 DEF AtRest, Unread
    <3>4. Waiting BY <2>1, <2>4 DEF Waiting
    <3>5. ~cfg.found /\ Claude => ctrl.resp = 0 BY DEF Concluded
    <3> QED BY <2>1, <3>1, <3>2, <3>3, <3>4, <3>5 DEF OwnAnswer
  <2> QED BY <2>1, <2>2, <2>3, <2>4 DEF Asking
<1> QED BY <1>2, <1>3, <1>4, <1>5, <1>6, TurnFrame DEF Waits, Waiter

-----------------------------------------------------------------------------
(* The news.                                                               *)

\* What is to be heard after a step was so before, in the same order.
NewsFrom(m) ==
    /\ \A p \in Nat : IsNews(p)' => m[p] \in Nat /\ IsNews(m[p]) /\ Heard(p)' = Heard(m[p])
    /\ \A p, q \in Nat : p < q /\ IsNews(p)' /\ IsNews(q)' => m[p] < m[q]
OldNews == \E m : NewsFrom(m)

\* The controller's own word comes last.
Last == Len(wire) + 1
NewsOfCtrl ==
    /\ \A p \in Nat : IsNews(p)' <=> IsNews(p) \/ p = Last
    /\ \A p \in Nat : IsNews(p) => p < Last /\ Heard(p)' = Heard(p)
    /\ Last \in Nat
    /\ \A p \in Nat : p = Last => Heard(p)' = Snap(ctrl'.state, ctrl'.resp)

Pending == poll.pc \in {"apply", "publish"}

LEMMA SameNews ==
    ASSUME TurnTypes, wire' = wire, view'.state = view.state, view'.resp = view.resp,
           Pending' => Pending /\ poll'.ev = poll.ev
    PROVE  OldNews
<1>1. Len(wire) \in Nat
  <2>1. wire \in Seq(News) BY DEF TurnTypes, ClientTypes
  <2> QED BY <2>1
<1> DEFINE m == [p \in Nat |-> p]
<1>2. \A p \in Nat : IsNews(p)' => IsNews(p) /\ Heard(p)' = Heard(p)
  BY <1>1 DEF IsNews, Heard, Pending
<1>3. NewsFrom(m) BY <1>2 DEF NewsFrom
<1> QED BY <1>3 DEF OldNews

\* A step only moves the news on, but for the poll that concludes.
LEMMA NewsMoves ==
    ASSUME TurnTypes, Asking, ~over, ~over', [TurnNext]_turnVars
    PROVE  OldNews \/ (NewsOfCtrl /\ (PollMerge \/ PollPlugin))
<1>1. wire \in Seq(News) /\ Len(wire) \in Nat
  <2>1. wire \in Seq(News) BY DEF TurnTypes, ClientTypes
  <2> QED BY <2>1
<1>2. CASE wire' = wire /\ (UNCHANGED view \/ Waits) /\ UNCHANGED <<poll, pub>>
  BY <1>2, SameNews, WaitsMove DEF Pending
<1>3. CASE PollBegin \/ PollRead \/ PollPaneIdle \/ PollApply \/ Push
  <2>1. UNCHANGED <<wire, view>>
    BY <1>3 DEF PollBegin, PollRead, PollPaneIdle, PollApply, Push, clientVars
  <2>2. Pending' => Pending /\ poll'.ev = poll.ev
    BY <1>3 DEF PollBegin, PollRead, PollPaneIdle, PollApply, Push, Pending, TurnTypes, MuxTypes
  <2> QED BY <2>1, <2>2, SameNews
<1>4. CASE PollMerge \/ PollPlugin
  <2>1. /\ UNCHANGED <<wire, view>> /\ poll.pc = "merge" /\ poll'.pc = "apply"
        /\ poll'.ev = Snap(ctrl'.state, ctrl'.resp)
    BY <1>4 DEF PollMerge, PollPlugin, clientVars, TurnTypes, MuxTypes
  <2>2. \A p \in Nat : IsNews(p)' <=> IsNews(p) \/ p = Last BY <1>1, <2>1 DEF IsNews, Last
  <2>3. \A p \in Nat : IsNews(p) => p < Last /\ Heard(p)' = Heard(p)
    BY <1>1, <2>1 DEF IsNews, Heard, Last
  <2>4. Last \in Nat /\ \A p \in Nat : p = Last => Heard(p)' = Snap(ctrl'.state, ctrl'.resp)
    BY <1>1, <2>1 DEF Heard, Last
  <2> QED BY <1>4, <2>2, <2>3, <2>4 DEF NewsOfCtrl
<1>5. CASE PollPublish
  <2>1. /\ view' = view /\ poll.pc = "publish" /\ poll'.pc = "wait"
        /\ wire' = Append(wire, Message("snapshot", poll.ev))
    BY <1>5 DEF PollPublish, clientVars, TurnTypes, MuxTypes
  <2>2. /\ Len(wire') = Len(wire) + 1 /\ wire'[Len(wire) + 1] = Message("snapshot", poll.ev)
        /\ \A i \in 1..Len(wire) : wire'[i] = wire[i]
    BY <1>1, <2>1
  <2> DEFINE m == [p \in Nat |-> p]
  <2>3. \A p \in Nat : IsNews(p)' => IsNews(p) /\ Heard(p)' = Heard(p)
    BY <1>1, <2>1, <2>2 DEF IsNews, Heard, Message
  <2>4. NewsFrom(m) BY <2>3 DEF NewsFrom
  <2> QED BY <2>4 DEF OldNews
<1>6. CASE Answer
  <2>1. UNCHANGED <<view, poll>> /\ wire' = Append(wire, Message("reply", NoSnap))
    BY <1>6 DEF Answer, clientVars
  <2>2. /\ Len(wire') = Len(wire) + 1 /\ wire'[Len(wire) + 1].kind = "reply"
        /\ \A i \in 1..Len(wire) : wire'[i] = wire[i]
    BY <1>1, <2>1 DEF Message
  <2> DEFINE m == [p \in Nat |-> IF p > Len(wire) THEN p - 1 ELSE p]
  <2>3. \A p \in Nat : IsNews(p)' => m[p] \in Nat /\ IsNews(m[p]) /\ Heard(p)' = Heard(m[p])
    BY <1>1, <2>1, <2>2 DEF IsNews, Heard
  <2>4. \A p, q \in Nat : p < q /\ IsNews(p)' /\ IsNews(q)' => m[p] < m[q]
    <3>1. \A p \in Nat : p = Len(wire) + 1 => ~IsNews(p)' BY <1>1, <2>2 DEF IsNews
    <3> QED BY <1>1, <3>1
  <2>5. NewsFrom(m)
    <3> HIDE DEF m
    <3> QED BY <2>3, <2>4 DEF NewsFrom
  <2> QED BY <2>5 DEF OldNews
<1>7. CASE Ingest
  <2>1. /\ poll' = poll /\ Len(wire) > 0 /\ Len(wire') = Len(wire) - 1
        /\ \A i \in 1..Len(wire') : wire'[i] = wire[i + 1]
        /\ \/ /\ wire[1].kind = "snapshot"
              /\ view'.state = wire[1].at.state /\ view'.resp = wire[1].at.resp
           \/ wire[1].kind = "reply" /\ view' = view
    BY <1>7, IngestMoves
  <2>2. CASE wire[1].kind = "snapshot" /\ view'.state = wire[1].at.state /\ view'.resp = wire[1].at.resp
    <3> DEFINE m == [p \in Nat |-> p + 1]
    <3>1. wire[1].at = Snap(wire[1].at.state, wire[1].at.resp)
      <4>1. wire[1] \in News BY <1>1, <2>1
      <4> QED BY <4>1 DEF News, Shots, Snap
    <3>2. \A p \in Nat : IsNews(p)' => IsNews(p + 1) /\ Heard(p)' = Heard(p + 1)
      <4> SUFFICES ASSUME NEW p \in Nat, IsNews(p)' PROVE IsNews(p + 1) /\ Heard(p)' = Heard(p + 1)
        OBVIOUS
      <4>1. CASE p = 0 BY <1>1, <2>1, <2>2, <3>1, <4>1 DEF IsNews, Heard
      <4>2. CASE p # 0 BY <1>1, <2>1, <2>2, <4>2 DEF IsNews, Heard
      <4> QED BY <4>1, <4>2
    <3>3. NewsFrom(m) BY <3>2 DEF NewsFrom
    <3> QED BY <3>3 DEF OldNews
  <2>3. CASE wire[1].kind = "reply" /\ view' = view
    <3> DEFINE m == [p \in Nat |-> IF p = 0 THEN 0 ELSE p + 1]
    <3>1. \A p \in Nat : IsNews(p)' => m[p] \in Nat /\ IsNews(m[p]) /\ Heard(p)' = Heard(m[p])
      <4> SUFFICES ASSUME NEW p \in Nat, IsNews(p)'
                   PROVE  m[p] \in Nat /\ IsNews(m[p]) /\ Heard(p)' = Heard(m[p])
        OBVIOUS
      <4>1. CASE p = 0 BY <1>1, <2>1, <2>3, <4>1 DEF IsNews, Heard
      <4>2. CASE p # 0 BY <1>1, <2>1, <2>3, <4>2 DEF IsNews, Heard
      <4> QED BY <4>1, <4>2
    <3>2. \A p, q \in Nat : p < q => m[p] < m[q] OBVIOUS
    <3>3. NewsFrom(m)
      <4> HIDE DEF m
      <4> QED BY <3>1, <3>2 DEF NewsFrom
    <3> QED BY <3>3 DEF OldNews
  <2> QED BY <2>1, <2>2, <2>3
<1>8. ~Quit BY DEF Quit
<1> QED BY <1>2, <1>3, <1>4, <1>5, <1>6, <1>7, <1>8, PollFrame, WireFrame, ViewFrame DEF Waits, Waiter

\* A verdict that is not published is the one published before it.
LEMMA LastIsPublishedHolds ==
    ASSUME TurnTypes, Asking, LastIsPublished, [TurnNext]_turnVars
    PROVE  LastIsPublished'
<1> SUFFICES ASSUME ~over, ~over' PROVE LastIsPublished'
  <2>1. over => over' BY OverFrame DEF Quit
  <2> QED BY <2>1 DEF LastIsPublished
<1>1. wire \in Seq(News) /\ Len(wire) \in Nat
  <2>1. wire \in Seq(News) BY DEF TurnTypes, ClientTypes
  <2> QED BY <2>1
<1>2. CASE /\ wire' = wire /\ view'.state = view.state /\ view'.resp = view.resp /\ pub' = pub
           /\ poll'.pc # "publish" /\ poll.pc # "publish"
  <2>1. \A p \in 0..Len(wire) : (IsNews(p)' <=> IsNews(p)) /\ Heard(p)' = Heard(p)
    BY <1>1, <1>2 DEF IsNews, Heard
  <2>2. \A p \in 0..Len(wire) : \A q \in p + 1 .. Len(wire) : q \in 0..Len(wire) BY <1>1
  <2> QED BY <1>2, <2>1, <2>2 DEF LastIsPublished
<1>3. CASE poll.pc = "publish" /\ poll'.pc = "publish" /\ poll'.ev = poll.ev /\ pub' = pub
  BY <1>3 DEF LastIsPublished
<1>4. CASE wire' = wire /\ (UNCHANGED view \/ Waits) /\ UNCHANGED <<poll, pub>>
  BY <1>2, <1>3, <1>4, WaitsMove
<1>5. CASE PollBegin \/ PollRead \/ PollMerge \/ PollPlugin \/ PollPaneIdle
  <2>1. UNCHANGED <<wire, view, pub>> /\ poll'.pc # "publish" /\ poll.pc # "publish"
    BY <1>5
       DEF PollBegin, PollRead, PollMerge, PollPlugin, PollPaneIdle, clientVars, TurnTypes,
           MuxTypes
  <2> QED BY <1>2, <2>1
<1>6. CASE Push
  <2>1. UNCHANGED <<wire, view, pub>> /\ poll'.pc = poll.pc /\ poll'.ev = poll.ev
    BY <1>6 DEF Push, clientVars, TurnTypes, MuxTypes
  <2> QED BY <1>2, <1>3, <2>1
<1>7. CASE PollApply
  <2>1. /\ UNCHANGED <<wire, view>> /\ pub' = poll.ev /\ poll'.ev = poll.ev /\ poll.pc = "apply"
        /\ poll'.pc = IF poll.ev # pub THEN "publish" ELSE "wait"
    BY <1>7 DEF PollApply, clientVars, TurnTypes, MuxTypes
  <2>2. CASE poll.ev = pub BY <1>2, <2>1, <2>2
  <2>3. CASE poll.ev # pub BY <2>1, <2>3 DEF LastIsPublished
  <2> QED BY <2>2, <2>3
<1>8. CASE PollPublish
  <2>1. /\ pub' = pub /\ poll.pc = "publish" /\ poll'.pc = "wait"
        /\ wire' = Append(wire, Message("snapshot", poll.ev))
    BY <1>8 DEF PollPublish, TurnTypes, MuxTypes
  <2>2. /\ Len(wire') = Len(wire) + 1 /\ wire'[Len(wire) + 1] = Message("snapshot", poll.ev)
    BY <1>1, <2>1
  <2>3. \A p \in Nat : p = Len(wire) + 1 => IsNews(p)' /\ Heard(p)' = poll.ev
    BY <1>1, <2>2 DEF IsNews, Heard, Message
  <2>4. \A p \in 0..Len(wire') :
          p \in Nat /\ (p = Len(wire) + 1 \/ Len(wire) + 1 \in p + 1 .. Len(wire'))
    BY <1>1, <2>2
  <2>5. poll.ev = pub BY <2>1 DEF LastIsPublished
  <2> QED BY <2>1, <2>3, <2>4, <2>5 DEF LastIsPublished
<1>9. CASE Answer
  <2>1. UNCHANGED <<view, poll, pub>> /\ wire' = Append(wire, Message("reply", NoSnap))
    BY <1>9 DEF Answer, clientVars
  <2>2. /\ Len(wire') = Len(wire) + 1 /\ wire'[Len(wire) + 1].kind = "reply"
        /\ \A i \in 1..Len(wire) : wire'[i] = wire[i]
    BY <1>1, <2>1 DEF Message
  <2>3. \A p \in 0..Len(wire) : (IsNews(p)' <=> IsNews(p)) /\ Heard(p)' = Heard(p)
    BY <1>1, <2>1, <2>2 DEF IsNews, Heard
  <2>4. \A p \in 0..Len(wire') : p = Len(wire) + 1 => ~IsNews(p)' BY <1>1, <2>2 DEF IsNews
  <2>5. \A p \in 0..Len(wire') : p \in 0..Len(wire) \/ p = Len(wire) + 1 BY <1>1, <2>2
  <2>6. \A p \in 0..Len(wire) : \A q \in p + 1 .. Len(wire) :
          q \in 0..Len(wire) /\ q \in p + 1 .. Len(wire')
    BY <1>1, <2>2
  <2> QED BY <2>1, <2>3, <2>4, <2>5, <2>6 DEF LastIsPublished
<1>10. CASE Ingest
  <2>1. /\ UNCHANGED <<poll, pub>> /\ Len(wire) > 0 /\ Len(wire') = Len(wire) - 1
        /\ \A i \in 1..Len(wire') : wire'[i] = wire[i + 1]
        /\ \/ /\ wire[1].kind = "snapshot"
              /\ view'.state = wire[1].at.state /\ view'.resp = wire[1].at.resp
           \/ wire[1].kind = "reply" /\ view' = view
    BY <1>10, IngestMoves
  <2>2. SUFFICES ASSUME poll.pc # "publish", pub # NoSnap, NEW p \in 0..Len(wire'), IsNews(p)',
                        \A q \in p + 1 .. Len(wire') : ~IsNews(q)'
                 PROVE  Heard(p)' = pub
    BY <2>1 DEF LastIsPublished
  <2>3. \A k \in 0..Len(wire) :
          IsNews(k) /\ (\A q \in k + 1 .. Len(wire) : ~IsNews(q)) => Heard(k) = pub
    BY <2>2 DEF LastIsPublished
  <2>4. \A q \in 1..Len(wire') : IsNews(q)' <=> IsNews(q + 1) BY <1>1, <2>1 DEF IsNews
  <2>5. ASSUME NEW q \in p + 2 .. Len(wire) PROVE ~IsNews(q)
    <3>1. q - 1 \in p + 1 .. Len(wire') /\ q - 1 \in 1..Len(wire') /\ q = (q - 1) + 1
      BY <1>1, <2>1, <2>5
    <3> QED BY <2>2, <2>4, <3>1
  <2>6. CASE p # 0
    <3>1. IsNews(p + 1) /\ p + 1 \in 0..Len(wire) BY <1>1, <2>1, <2>2, <2>4, <2>6
    <3>2. Heard(p + 1) = pub
      <4>1. \A q \in (p + 1) + 1 .. Len(wire) : ~IsNews(q) BY <1>1, <2>1, <2>5
      <4> QED BY <2>3, <3>1, <4>1
    <3>3. Heard(p)' = Heard(p + 1) BY <1>1, <2>1, <2>6 DEF Heard
    <3> QED BY <3>2, <3>3
  <2>7. CASE p = 0 /\ wire[1].kind = "snapshot" /\ view'.state = wire[1].at.state
             /\ view'.resp = wire[1].at.resp
    <3>1. IsNews(1) /\ 1 \in 0..Len(wire) BY <1>1, <2>1, <2>7 DEF IsNews
    <3>2. Heard(1) = pub
      <4>1. \A q \in 1 + 1 .. Len(wire) : ~IsNews(q) BY <1>1, <2>1, <2>5, <2>7
      <4> QED BY <2>3, <3>1, <4>1
    <3>3. wire[1].at = Snap(wire[1].at.state, wire[1].at.resp)
      <4>1. wire[1] \in News BY <1>1, <2>1
      <4> QED BY <4>1 DEF News, Shots, Snap
    <3>4. Heard(p)' = Heard(1) BY <1>1, <2>1, <2>7, <3>3 DEF Heard
    <3> QED BY <3>2, <3>4
  <2>8. CASE p = 0 /\ wire[1].kind = "reply" /\ view' = view
    <3>1. IsNews(0) /\ 0 \in 0..Len(wire) /\ ~IsNews(1) BY <1>1, <2>1, <2>8 DEF IsNews
    <3>2. \A q \in 0 + 1 .. Len(wire) : ~IsNews(q)
      <4>1. \A q \in 0 + 1 .. Len(wire) : q = 1 \/ q \in p + 2 .. Len(wire) BY <1>1, <2>1, <2>8
      <4> QED BY <2>5, <3>1, <4>1
    <3>3. Heard(0) = pub BY <2>3, <3>1, <3>2
    <3>4. Heard(p)' = Heard(0) BY <2>8 DEF Heard
    <3> QED BY <3>3, <3>4
  <2> QED BY <2>1, <2>6, <2>7, <2>8
<1>11. ~Quit BY DEF Quit
<1> QED BY <1>4, <1>5, <1>6, <1>7, <1>8, <1>9, <1>10, <1>11, PollFrame, WireFrame, ViewFrame
     DEF Waits, Waiter

\* News that was in the right order stays so as it moves on.
LEMMA OldNewsIsTrue ==
    ASSUME OldNews, SawWork' => SawWork \/ Works(0)
    PROVE  /\ SomeWork' => SomeWork
           /\ \A p \in Nat : Late(p)' => \E k \in Nat : Late(k) /\ Heard(p)' = Heard(k)
           /\ RestIsLast => RestIsLast'
<1>1. PICK m : NewsFrom(m) BY DEF OldNews
<1>2. \A p \in Nat : IsNews(p)' =>
         /\ m[p] \in Nat /\ IsNews(m[p]) /\ Heard(p)' = Heard(m[p])
         /\ Rests(p)' <=> Rests(m[p])
         /\ Works(p)' <=> Works(m[p])
  BY <1>1 DEF NewsFrom, Rests, Works
<1>3. \A p \in Nat : (Rests(p)' => IsNews(p)') /\ (Works(p)' => IsNews(p)')
  BY DEF Rests, Works
<1>4. \A p, q \in Nat : p < q /\ IsNews(p)' /\ IsNews(q)' => m[p] < m[q]
  BY <1>1 DEF NewsFrom
<1>5. SomeWork' => SomeWork BY <1>2, <1>3 DEF SomeWork
<1>6. ASSUME NEW p \in Nat, Late(p)' PROVE Late(m[p])
  <2>1. Rests(p)' /\ IsNews(p)' /\ m[p] \in Nat /\ Rests(m[p]) BY <1>2, <1>3, <1>6 DEF Late
  <2>2. CASE SawWork BY <2>1, <2>2 DEF Late
  <2>3. CASE Works(0)
    <3>1. m[p] # 0 BY <2>1, <2>3 DEF Works, Rests
    <3>2. 0 < m[p] BY <2>1, <3>1
    <3> QED BY <2>1, <2>3, <3>2 DEF Late
  <2>4. CASE \E q \in Nat : q < p /\ Works(q)'
    <3>1. PICK q \in Nat : q < p /\ Works(q)' BY <2>4
    <3>2. m[q] \in Nat /\ m[q] < m[p] /\ Works(m[q]) BY <1>2, <1>3, <1>4, <2>1, <3>1
    <3> QED BY <2>1, <3>2 DEF Late
  <2> QED BY <1>6, <2>2, <2>3, <2>4 DEF Late
<1>7. \A p \in Nat : Late(p)' => IsNews(p)' BY DEF Late, Rests
<1>8. ASSUME RestIsLast, NEW p \in Nat, NEW q \in Nat, Late(p)', p < q, IsNews(q)'
      PROVE  Rests(q)'
  <2>1. Late(m[p]) /\ m[p] < m[q] /\ IsNews(m[q]) /\ m[p] \in Nat /\ m[q] \in Nat
    BY <1>2, <1>4, <1>6, <1>7, <1>8
  <2>2. Rests(m[q]) BY <1>8, <2>1 DEF RestIsLast
  <2> QED BY <1>2, <1>8, <2>2
<1> QED BY <1>2, <1>5, <1>6, <1>7, <1>8 DEF RestIsLast

\* A person who answers a dialog answers nobody who has heard of rest.
LEMMA AnswerersHear ==
    ASSUME TurnTypes, LastIsPublished, WaiterIsTold, PersonAnswers, Waiting, SomeWork
    PROVE  view.state \notin Settled /\ ctrl.state \notin Settled /\ ~PaneIdle
           /\ \A p \in Nat : ~Late(p)
<1>1. AtRest /\ turn.pc = "park" /\ ~view.closed BY DEF PersonAnswers, Waiting
<1>2. wire = <<>> /\ poll.pc = "wait" /\ Len(wire) = 0 BY <1>1 DEF AtRest
<1>3. \A p \in Nat : IsNews(p) => p = 0 BY <1>2 DEF IsNews
<1>4. Heard(0).state = view.state BY DEF Heard, Snap
<1>5. SawWork \/ Works(0) BY <1>3 DEF SomeWork, Works
<1>6. turn.phase \in {"start", "settle"} BY DEF TurnTypes, ClientTypes
<1>7. view.state \notin Settled
  BY <1>1, <1>4, <1>5, <1>6 DEF WaiterIsTold, Pred, SawWork, Works
<1>8. view.state = ctrl.state BY <1>1, AtRestHeard DEF Waiting
<1>9. \A p \in Nat : ~Late(p) BY <1>3, <1>4, <1>7 DEF Late, Rests
<1> QED BY <1>1, <1>7, <1>8, <1>9 DEF AtRest

\* A turn that is over, and heard to be over after work, stays so while its client
\* waits.
LEMMA OverStays ==
    ASSUME TurnTypes, ReadSoFar, InOrder, Numbered, Asking, OwnAnswer, LastIsPublished, WaiterIsTold,
           Waiting, Waiting', TurnRests, NEW p \in Nat, Late(p), [TurnNext]_turnVars
    PROVE  TurnRests' /\ (Stays => Stays') /\ turn'.mine = turn.mine
<1>1. /\ ctrl \in Ctrls /\ PaneIdle \in BOOLEAN /\ poll.idle \in BOOLEAN /\ Len(record) \in Nat
      /\ ctrl.read \in Nat
  BY ScanStarts DEF TurnTypes, MuxTypes, Ctrls, PaneIdle
<1>2. cfg' = cfg BY PlugFrame DEF Push, PluginLeaves
<1>3. ~Before /\ ctrl.state \in Settled /\ ~ctrl.injected /\ StaysSettled
      /\ tool.phase \in {"stopped", "idle", "asking"}
      /\ (turn.mine # 0 => ctrl.resp \in {0, turn.mine})
  BY DEF TurnRests
<1>4. ~RunBegin /\ ~Enter /\ turn'.mine = turn.mine
  BY <1>3, WaitingFrom, RunBeginMoves, EnterMoves DEF Waiting, Before
<1>5. ~Before' BY <1>3, <1>4, SendFrame DEF Before, Admit, Type, Answer
<1>6. SomeWork BY DEF Late, SomeWork
<1>7. ~PersonAnswers BY <1>6, AnswerersHear
<1>8. record' = record /\ (tool'.phase = tool.phase \/ (tool.phase = "stopped" /\ tool'.phase = "idle"))
  <2>1. ~ToolBegins /\ ~ToolSays /\ ~ToolAsks /\ ~ToolStops
    BY <1>3 DEF ToolBegins, ToolSays, ToolAsks, ToolStops
  <2>2. ToolTells => record' = record /\ tool'.phase = tool.phase
    BY DEF ToolTells, TurnTypes, ToolTypes
  <2>3. ToolRests => record' = record /\ tool.phase = "stopped" /\ tool'.phase = "idle"
    BY DEF ToolRests, TurnTypes, ToolTypes
  <2> QED BY <1>4, <1>7, <2>1, <2>2, <2>3, ToolFrame
<1>9. ~Push BY DEF Push, TurnRests
<1>10. ~Claude /\ plug'.up => plug.up /\ plug'.saw = plug.saw /\ tool'.phase = tool.phase
  <2>1. plug' = plug \/ ~plug'.up
    BY <1>9, PlugFrame DEF PluginLeaves, TurnTypes, ToolTypes
  <2>2. ~Claude /\ plug.up => tool.phase # "stopped" BY DEF TurnRests
  <2> QED BY <1>8, <2>1, <2>2
<1>11. /\ ctrl'.state \in Settled /\ ~ctrl'.injected /\ StaysSettled'
       /\ (turn.mine # 0 => ctrl'.resp \in {0, turn.mine})
  <2>1. CASE ctrl' = ctrl
    BY <1>1, <1>2, <1>3, <1>8, <2>1, UnreadShrinks
  <2>2. CASE PollBegin BY <1>3, <2>1, <2>2, ConsumedMoves DEF PollBegin
  <2>3. CASE PollMerge BY <1>1, <1>3, <2>1, <2>3, MergedMoves DEF PollMerge
  <2>4. CASE PollPlugin
    <3>1. ctrl' = Merged(ctrl, poll.idle) BY <1>3, <2>4, ConsumedMoves DEF PollPlugin
    <3> QED BY <1>1, <1>3, <2>1, <3>1, MergedMoves
  <2>5. CASE PollRead
    <3>1. /\ ctrl'.state = Scanned(ctrl, Len(record)).state /\ ctrl'.read = poll.size
          /\ ctrl'.injected = ctrl.injected
      BY <2>5, ScanKeeps DEF PollRead, Ctrls
    <3>2. poll.size \in Nat BY DEF TurnTypes, MuxTypes
    <3>3. ctrl.read <= poll.size /\ cfg.found BY <1>1, <2>5, <3>2 DEF PollRead, ReadSoFar
    <3>4. ctrl'.state \in Settled BY <1>3, <3>1, <3>3, ScanSettles
    <3>5. StaysSettled' BY <1>2, <1>3, <1>8, <3>1, <3>2, <3>3, UnreadShrinks
    <3>6. turn.mine # 0 => ctrl'.resp \in {0, turn.mine} BY <1>3, <2>5, ReadAnswers
    <3> QED BY <1>3, <3>1, <3>4, <3>5, <3>6
  <2>6. ~Admit BY <1>3 DEF Admit, Before
  <2> QED BY <1>9, <2>1, <2>2, <2>3, <2>4, <2>5, <2>6, CtrlFrame
<1>12. tool'.phase \in {"stopped", "idle", "asking"} BY <1>3, <1>8
<1>13. ~Claude /\ plug'.up => tool'.phase \in {"idle", "asking"} /\ plug'.saw = tool'.phase
  BY <1>10 DEF TurnRests
<1>14. TurnRests' BY <1>2, <1>4, <1>5, <1>11, <1>12, <1>13 DEF TurnRests, Claude
<1>15. Stays => Stays' BY <1>2, <1>10, <1>11 DEF Stays, Claude
<1> QED BY <1>4, <1>14, <1>15

\* A tool at work was at work, unless a person has just let it go on.
LEMMA AtWorkBefore ==
    ASSUME TurnTypes, Numbered, Asking, Waiting, Waiting', AtWork', ~PersonAnswers, [TurnNext]_turnVars
    PROVE  AtWork
<1>1. ~RunBegin BY RunBeginMoves DEF Waiting
<1>2. cfg' = cfg BY PlugFrame DEF Push, PluginLeaves
<1>3. Before' => Before
  BY <1>1, SendFrame DEF Before, Admit, Type, Enter, Answer
<1>4. Enter => Before BY EnterMoves DEF Before
<1>5. ~Enter => turn'.mine = turn.mine BY <1>1, WaitingFrom
<1>6. ~Enter /\ tool'.phase \in {"entered", "busy", "said"} =>
        tool.phase \in {"entered", "busy", "said"}
  BY ToolFrame
     DEF ToolBegins, ToolSays, ToolStops, ToolRests, ToolTells, ToolAsks, TurnTypes, ToolTypes
<1>7. ASSUME PluginBehind', ~PluginBehind, ~Enter
      PROVE  tool.phase \in {"entered", "busy", "said"}
  <2>1. ~Claude /\ plug'.up /\ (plug'.up => plug.up)
    BY <1>2, <1>7, PlugFrame DEF PluginBehind, Claude, Push, PluginLeaves, TurnTypes, ToolTypes
  <2>2. tool.phase \in {"idle", "asking"} /\ plug.saw = tool.phase BY <1>7, <2>1 DEF PluginBehind
  <2>3. plug' = plug BY <2>1, <2>2, PlugFrame DEF Push, PluginLeaves, TurnTypes, ToolTypes
  <2>4. tool'.phase = tool.phase
    BY <1>7, <2>2, ToolFrame
       DEF ToolBegins, ToolSays, ToolStops, ToolRests, ToolTells, ToolAsks, TurnTypes, ToolTypes
  <2> QED BY <1>7, <2>2, <2>3, <2>4 DEF PluginBehind
<1> QED BY <1>3, <1>4, <1>5, <1>6, <1>7 DEF AtWork

\* Once work is heard of, a tool still at work gives no sign of rest.
LEMMA StillAtWork ==
    ASSUME TurnTypes, ReadSoFar, Asking, Numbered, Concluded, Signs, LastIsPublished, WaiterIsTold,
           WorkShows, WorkIsNew, SomeWork, Waiting, Waiting', AtWork', [TurnNext]_turnVars
    PROVE  ctrl'.state \notin Settled /\ ~SignOfRest'
<1>1. /\ cfg.found => Claude
      /\ cfg.hook => cfg.found
      /\ ctrl \in Ctrls /\ PaneIdle \in BOOLEAN /\ poll.idle \in BOOLEAN /\ Len(record) \in Nat
      /\ ctrl.read \in Nat /\ poll.size \in Nat
  BY ScanStarts DEF TurnTypes, ToolTypes, MuxTypes, Ctrls, PaneIdle
<1>2. cfg' = cfg BY PlugFrame DEF Push, PluginLeaves
<1>3. CASE PersonAnswers
  <2>1. /\ UNCHANGED <<ctrl, record, poll>> /\ pane' = Cleared /\ AtRest
    BY <1>3 DEF PersonAnswers
  <2>2. ctrl.state \notin Settled BY <1>3, AnswerersHear
  <2>3. ~PaneIdle' BY <2>1, PaneMoves DEF PaneIdle
  <2>4. poll'.pc # "merge" BY <2>1 DEF AtRest
  <2>5. cfg.found => Unread' = {} BY <1>1, <2>1 DEF AtRest, Unread
  <2> QED BY <1>2, <2>1, <2>2, <2>3, <2>4, <2>5 DEF SignOfRest, WillSettle
<1> SUFFICES ASSUME ~PersonAnswers PROVE ctrl'.state \notin Settled /\ ~SignOfRest'
  BY <1>3
<1>4. AtWork /\ ctrl.state \notin Settled /\ ~SignOfRest BY AtWorkBefore DEF WorkShows
<1>5. ~RunBegin BY RunBeginMoves DEF Waiting
<1>6. send # "asked" /\ (send = "admitted" => poll.pc \notin {"read", "merge"})
      /\ (ctrl.injected => Claude /\ ~Before)
  BY DEF WorkIsNew
<1>7. send = "admitted" => send' = "admitted" \/ Type
  BY <1>5, SendFrame DEF Admit, Enter, Answer
<1>8. PaneIdle => send = "admitted" BY <1>4 DEF SignOfRest
<1>9. Push => tool.phase \notin {"idle", "asking"}
  <2> SUFFICES ASSUME Push, tool.phase \in {"idle", "asking"} PROVE FALSE OBVIOUS
  <2>1. /\ ~Claude /\ plug.up /\ plug.saw # tool.phase /\ plug'.saw = tool.phase
        /\ UNCHANGED <<tool, send>>
    BY DEF Push, TurnTypes, ToolTypes
  <2>2. ~PluginBehind' BY <2>1 DEF PluginBehind
  <2>3. Before BY <2>1, <2>2 DEF AtWork, Before
  <2> QED BY <2>1, <2>3, BeforeAtRest DEF Waiting
<1>10. ctrl'.state \notin Settled
  <2>1. CASE PollBegin BY <1>4, <2>1, ConsumedMoves DEF PollBegin
  <2>2. CASE PollRead
    <3>1. ctrl'.state = Scanned(ctrl, Len(record)).state BY <2>2, ScanKeeps DEF PollRead, Ctrls
    <3>2. cfg.found /\ ~WillSettle BY <1>4, <2>2 DEF PollRead, ReadSoFar, SignOfRest
    <3> QED BY <1>4, <3>1, <3>2, ScanSettles
  <2>3. CASE PollMerge
    <3>1. ~PaneIdle BY <1>6, <1>8, <2>3 DEF PollMerge
    <3> QED BY <1>1, <1>4, <2>3, <3>1, MergedMoves DEF PollMerge
  <2>4. CASE PollPlugin
    <3>1. ~poll.idle /\ ~ctrl.injected BY <1>1, <1>4, <1>6, <2>4 DEF PollPlugin, SignOfRest
    <3>2. ctrl' = Merged(ctrl, poll.idle) BY <2>4, <3>1, ConsumedMoves DEF PollPlugin
    <3> QED BY <1>1, <1>4, <3>1, <3>2, MergedMoves
  <2>5. CASE Push
    <3>1. ctrl'.state = Reported BY <2>5 DEF Push, TurnTypes, MuxTypes
    <3>2. tool.phase \in Phases BY DEF TurnTypes, ToolTypes
    <3> QED BY <1>9, <2>5, <3>1, <3>2 DEF Reported, Phases, Settled
  <2>6. CASE Admit BY <1>4, <2>6 DEF Admit, TurnTypes, MuxTypes
  <2> QED BY <1>4, <2>1, <2>2, <2>3, <2>4, <2>5, <2>6, CtrlFrame
<1>11. ~(PaneIdle' /\ send' # "admitted")
  <2>1. CASE UNCHANGED pane /\ ~Type BY <1>7, <1>8, <2>1 DEF PaneIdle
  <2>2. CASE ToolBegins \/ ToolSays \/ ToolAsks
    <3>1. send' = send BY <2>2 DEF ToolBegins, ToolSays, ToolAsks
    <3>2. \E off \in BOOLEAN : Output(off) BY <2>2 DEF ToolBegins, ToolSays, ToolAsks
    <3>3. PaneIdle' => PaneIdle BY <3>2, PaneMoves DEF PaneIdle
    <3> QED BY <1>8, <3>1, <3>3
  <2>3. CASE ToolTells
    <3>1. /\ UNCHANGED <<send, plug>> /\ tool.phase \in {"idle", "asking"} /\ ~tool.told
          /\ tool'.phase = tool.phase /\ Recorded
      BY <2>3 DEF ToolTells, TurnTypes, ToolTypes
    <3>2. ~Before' BY <3>1, BeforeAtRest DEF Before, Waiting
    <3>3. ~PluginBehind' BY <1>2, <3>1 DEF PluginBehind, Recorded, Claude
    <3> QED BY <3>1, <3>2, <3>3 DEF AtWork
  <2>4. CASE IdleFires
    <3>1. /\ UNCHANGED <<send, plug, tool>> /\ AtRestThere /\ send # "typed"
      BY <2>4 DEF IdleFires, toolVars, AtRestThere
    <3>2. ~PluginBehind BY <3>1 DEF PluginBehind, Signs, PaneSigns, AtRestThere
    <3>3. Before BY <1>4, <3>1, <3>2 DEF AtWork, AtRestThere
    <3> QED BY <1>6, <3>1, <3>3 DEF Before
  <2>5. CASE PollRead \/ Push
    <3>1. ~pane'.newer BY <2>5 DEF PollRead, Push, TurnTypes, MuxTypes
    <3> QED BY <3>1 DEF PaneIdle
  <2>6. CASE PollApply
    <3>1. pane' = Painted(pane, poll.ev.state) /\ send' = send BY <2>6 DEF PollApply
    <3>2. PaneIdle' => PaneIdle BY <3>1, PaintedMoves DEF PaneIdle
    <3> QED BY <1>8, <3>1, <3>2
  <2>7. CASE Type \/ Enter
    <3>1. ~pane'.ready BY <2>7, PaneMoves DEF Type, Enter, Cleared, TurnTypes, MuxTypes
    <3> QED BY <3>1 DEF PaneIdle
  <2> QED BY <2>1, <2>2, <2>3, <2>4, <2>5, <2>6, <2>7, PaneFrame
<1>12. ~(~Claude /\ poll'.pc = "merge" /\ poll'.idle)
  <2> SUFFICES ASSUME ~Claude, poll'.pc = "merge", poll'.idle PROVE FALSE OBVIOUS
  <2>1. CASE PollPaneIdle
    <3>1. PaneIdle /\ Prompt BY <2>1 DEF PollPaneIdle, TurnTypes, MuxTypes
    <3> QED BY <1>6, <1>8, <3>1 DEF Prompt
  <2>2. CASE UNCHANGED <<poll, pub>> BY <1>4, <2>2 DEF SignOfRest
  <2>3. ~PollBegin /\ ~PollRead /\ ~PollMerge BY <1>1 DEF PollBegin, PollRead, PollMerge, ReadSoFar
  <2>4. /\ PollPlugin => poll'.pc = "apply"
        /\ PollApply => poll'.pc \in {"publish", "wait"}
        /\ PollPublish => poll'.pc = "wait"
        /\ Push => ~poll'.idle
    BY DEF PollPlugin, PollApply, PollPublish, Push, TurnTypes, MuxTypes
  <2>5. ~PollPlugin /\ ~PollApply /\ ~PollPublish /\ ~Push BY <1>2, <2>4 DEF Claude
  <2>6. ~PollMerge /\ ~PollBegin /\ ~PollRead BY <1>1, <1>2, <2>3 DEF Claude
  <2> QED BY <1>2, <2>1, <2>2, <2>5, <2>6, PollFrame
<1>13. ~WillSettle'
  <2>1. ~WillSettle BY <1>4 DEF SignOfRest
  <2>2. ctrl'.read \in Nat /\ ctrl.read <= ctrl'.read /\ (ctrl' = ctrl => ctrl'.read = ctrl.read)
    <3>1. CASE PollRead BY <1>1, <3>1, ScanKeeps DEF PollRead, ReadSoFar, Ctrls
    <3>2. CASE PollBegin \/ PollMerge \/ PollPlugin \/ Push \/ Admit
      <4>1. PollBegin => ctrl'.read = ctrl.read BY ConsumedMoves DEF PollBegin
      <4>2. PollMerge => ctrl'.read = ctrl.read BY <1>1, MergedMoves DEF PollMerge
      <4>3. PollPlugin => ctrl'.read = ctrl.read
        BY <1>1, ConsumedMoves, MergedMoves DEF PollPlugin
      <4>4. Push \/ Admit => ctrl'.read = ctrl.read BY DEF Push, Admit, TurnTypes, MuxTypes
      <4>5. ctrl'.read = ctrl.read BY <3>2, <4>1, <4>2, <4>3, <4>4
      <4> QED BY <1>1, <4>5
    <3> QED BY <1>1, <3>1, <3>2, CtrlFrame
  <2>3. CASE record' = record BY <1>2, <2>1, <2>2, <2>3, UnreadShrinks
  <2>4. CASE ToolBegins
    <3>1. ctrl' = ctrl /\ Writes("user", tool.turn) BY <2>4 DEF ToolBegins
    <3> QED BY <1>2, <3>1, UnreadGrows
  <2>5. CASE ToolSays
    <3>1. ctrl' = ctrl /\ (Writes("tool", tool.turn) \/ Writes("assistant", tool.turn))
      BY <2>5 DEF ToolSays
    <3> QED BY <1>2, <2>1, <3>1, UnreadGrows
  <2>6. CASE ToolStops
    <3>1. tool.phase = "said" /\ tool'.phase = "stopped" /\ UNCHANGED <<send, plug>>
      BY <2>6 DEF ToolStops, TurnTypes, ToolTypes
    <3>2. ~Before' BY <3>1, BeforeAtRest DEF Before, Waiting
    <3>3. ~Claude BY <1>2, <3>1, <3>2 DEF AtWork, PluginBehind, Claude
    <3>4. record' = record BY <1>1, <2>6, <3>3 DEF ToolStops
    <3> QED BY <2>3, <3>4
  <2>7. ToolRests \/ ToolTells \/ ToolAsks \/ Enter => record' = record
    BY DEF ToolRests, ToolTells, ToolAsks, Enter
  <2> QED BY <2>3, <2>4, <2>5, <2>6, <2>7, ToolFrame
<1> QED BY <1>2, <1>10, <1>11, <1>12, <1>13 DEF SignOfRest, Claude

\* ... and the poll that demotes the last turn's conclusion is past.
LEMMA WorkStaysNew ==
    ASSUME TurnTypes, ReadSoFar, WorkIsNew, SomeWork, Waiting, [TurnNext]_turnVars
    PROVE  /\ send' # "asked"
           /\ send' = "admitted" => poll'.pc \notin {"read", "merge"}
           /\ ctrl'.injected => /\ Claude /\ poll'.pc \notin {"read", "merge"}
                                /\ ctrl'.state \notin Settled /\ ~Before'
<1>1. /\ cfg.found => Claude
      /\ ctrl \in Ctrls /\ PaneIdle \in BOOLEAN /\ poll.idle \in BOOLEAN
  BY DEF TurnTypes, ToolTypes, MuxTypes, Ctrls, PaneIdle
<1>2. /\ send # "asked"
      /\ send = "admitted" => poll.pc \notin {"read", "merge"} /\ ~ctrl.injected
      /\ ctrl.injected => /\ Claude /\ poll.pc \notin {"read", "merge"}
                          /\ ctrl.state \notin Settled /\ ~Before
  BY DEF WorkIsNew, Before
<1>3. ~RunBegin /\ ~Admit BY <1>2, RunBeginMoves DEF Waiting, Admit
<1>4. (send' = "admitted" => send = "admitted") /\ send' # "asked" /\ (Before' => Before)
  BY <1>2, <1>3, SendFrame DEF Type, Enter, Answer, Before
<1>5. poll'.pc \in {"read", "merge"} => poll.pc \in {"read", "merge"} \/ PollBegin \/ PollPaneIdle
  BY PollFrame
     DEF PollRead, PollMerge, PollPlugin, Push, PollApply, PollPublish, TurnTypes, MuxTypes
<1>6. PollBegin \/ PollPaneIdle => send # "admitted" BY <1>2 DEF PollBegin, PollPaneIdle, Prompt
<1>7. ASSUME ctrl'.injected
      PROVE  ctrl.injected /\ ctrl'.state = ctrl.state /\ ~PollBegin /\ ~PollPaneIdle
  <2>1. ~PollBegin BY <1>7, ConsumedMoves DEF PollBegin
  <2>2. ~PollPlugin BY <1>1, <1>7, ConsumedMoves, MergedMoves DEF PollPlugin
  <2>3. ~Push BY <1>7 DEF Push, TurnTypes, MuxTypes
  <2>4. ~PollRead
    <3>1. PollRead => ctrl'.injected = ctrl.injected BY ScanKeeps DEF PollRead, Ctrls
    <3> QED BY <1>2, <1>7, <3>1 DEF PollRead
  <2>5. ~PollMerge
    <3>1. PollMerge => ctrl'.injected = ctrl.injected BY <1>1, MergedMoves DEF PollMerge
    <3> QED BY <1>2, <1>7, <3>1 DEF PollMerge
  <2>6. ctrl' = ctrl BY <1>3, <2>1, <2>2, <2>3, <2>4, <2>5, CtrlFrame
  <2>7. ~PollPaneIdle BY <1>2, <1>7, <2>6 DEF PollPaneIdle
  <2> QED BY <1>7, <2>1, <2>6, <2>7
<1> QED BY <1>2, <1>4, <1>5, <1>6, <1>7

\* A wait that is over stays so.
LEMMA TakenLateHolds ==
    ASSUME TurnTypes, Asking, RestIsLast, TakenLate, Waiting, Waiting', [TurnNext]_turnVars
    PROVE  TakenLate'
<1> SUFFICES ASSUME turn'.pc = "take" PROVE SawWork' /\ Rests(0)'
  BY DEF TakenLate
<1>1. Rests(0) <=> view.state \in Settled
  BY DEF Rests, IsNews, Heard, Snap
<1>2. Rests(0)' <=> view'.state \in Settled
  BY DEF Rests, IsNews, Heard, Snap
<1>3. CASE UNCHANGED turn /\ ~Ingest
  <2>1. view'.state = view.state BY <1>3, ViewFrame, WaitsMove DEF Waits, Waiter
  <2> QED BY <1>1, <1>2, <1>3, <2>1 DEF TakenLate, SawWork
<1>4. CASE Enter
  <2>1. view' = view /\ turn'.pc = turn.pc /\ turn'.phase = turn.phase BY <1>4, EnterMoves
  <2> QED BY <1>1, <1>2, <2>1 DEF TakenLate, SawWork
<1>5. CASE Ingest
  <2>1. /\ Len(wire) \in Nat /\ Len(wire) > 0 /\ wire[1].kind = "snapshot" /\ turn' = turn
        /\ view'.state = wire[1].at.state
    BY <1>5, IngestMoves DEF Waiting
  <2>2. IsNews(1) /\ Heard(1) = wire[1].at BY <2>1 DEF IsNews, Heard
  <2>3. Late(0) BY <2>1 DEF Late, TakenLate
  <2>4. Rests(1) BY <2>2, <2>3 DEF RestIsLast
  <2> QED BY <1>2, <2>1, <2>2, <2>4 DEF Rests, TakenLate, SawWork
<1>6. CASE RunBegin BY <1>6, RunBeginMoves
<1>7. CASE Waits BY <1>2, <1>7, WaitsMove DEF SawWork
<1> QED BY <1>3, <1>4, <1>5, <1>6, <1>7, TurnFrame DEF Waits, Waiter

\* A client that begins a turn has heard of rest, and is about to hear of nothing else.
LEMMA BeginIsTrue ==
    ASSUME TurnTypes, Between, RunBegin, ~over
    PROVE  NewsIsTrue'
<1>1. /\ UNCHANGED <<cfg, tool, record, plug, pane, ctrl, pub, poll, wire, view, over>>
      /\ turn.pc = "rest" /\ turn'.pc = "sent"
      /\ view.state \in Settled /\ view.state = ctrl.state /\ tool.phase = "idle"
  BY RunBeginMoves
<1>2. ctrl.state \in {"awaiting_input", "awaiting_permission"}
  BY <1>1 DEF TurnTypes, MuxTypes, States, Settled
<1>3. IsNews(0) /\ Heard(0).state = view.state BY DEF IsNews, Heard, Snap
<1>4. \A p \in Nat : IsNews(p) => Heard(p).state \in Settled
  <2>1. CASE ctrl.state = "awaiting_permission"
    <3>1. \A p \in Nat : IsNews(p) => Heard(p).state = "awaiting_permission"
      BY <1>1, <2>1 DEF Between, StillAsking
    <3> QED BY <3>1 DEF Settled
  <2>2. CASE ctrl.state = "awaiting_input"
    <3>1. \A q \in Nat : 0 < q /\ IsNews(q) => Rests(q)
      BY <1>1, <1>3, <2>2 DEF Between, RestBetween
    <3>2. \A p \in Nat : p = 0 \/ 0 < p OBVIOUS
    <3> QED BY <1>1, <1>3, <3>1, <3>2 DEF Rests
  <2> QED BY <1>2, <2>1, <2>2
<1>5. \A p \in Nat : ~Works(p)'
  <2>1. \A p \in Nat : (IsNews(p)' <=> IsNews(p)) /\ Heard(p)' = Heard(p)
    BY <1>1 DEF IsNews, Heard
  <2> QED BY <1>4, <2>1 DEF Works
<1>6. ~SawWork' BY <1>1 DEF SawWork
<1>7. ~SomeWork' /\ \A p \in Nat : ~Late(p)' BY <1>5, <1>6 DEF SomeWork, Late
<1>8. TakenLate' BY <1>1 DEF TakenLate
<1> QED BY <1>7, <1>8 DEF NewsIsTrue, RestIsLast, LateIsOver, WorkShows, WorkIsNew

\* The start wait is over when the client has work in view.
LEMMA SawWorkFrom ==
    ASSUME TurnTypes, Asking, Waiting, Waiting', [TurnNext]_turnVars
    PROVE  SawWork' => SawWork \/ Works(0)
<1>1. Works(0) <=> view.state \notin Settled BY DEF Works, IsNews, Heard, Snap
<1>2. CASE UNCHANGED turn BY <1>2 DEF SawWork
<1>3. CASE Enter BY <1>3, EnterMoves DEF SawWork
<1>4. CASE Ingest BY <1>4, IngestMoves DEF SawWork, Waiting
<1>5. CASE RunBegin BY <1>5, RunBeginMoves DEF SawWork
<1>6. CASE Waits
  <2>1. /\ turn.pc # "rest" /\ (turn.pc = "sent" => view.ended)
        /\ turn'.pc # "rest" => turn'.phase = turn.phase \/ view.state \notin Settled
    BY <1>6, WaitsMove
  <2>2. ~view.ended BY DEF Asking, Waiting
  <2> QED BY <1>1, <2>1, <2>2 DEF SawWork
<1> QED BY <1>2, <1>3, <1>4, <1>5, <1>6, TurnFrame DEF Waits, Waiter

\* A controller settles on a turn that is over, once work was heard of.
LEMMA OverIsConcluded ==
    ASSUME TurnTypes, ReadSoFar, InOrder, Asking, Numbered, Concluded, Signs, Caught,
           OwnAnswer, OwnAnswerToCome, LastIsPublished, WaiterIsTold, WorkShows, WorkIsNew, SomeWork,
           Waiting, Waiting', PollMerge \/ PollPlugin, ctrl'.state \in Settled,
           [TurnNext]_turnVars
    PROVE  TurnRests' /\ (ctrl'.state = "awaiting_input" => Stays')
<1>1. /\ UNCHANGED <<cfg, tool, record, plug, pane, send, wire, view, turn>>
      /\ cfg.found => Claude
      /\ ctrl \in Ctrls /\ PaneIdle \in BOOLEAN /\ Len(record) \in Nat /\ ctrl.read \in Nat
  BY ScanStarts
     DEF PollMerge, PollPlugin, toolVars, clientVars, TurnTypes, ToolTypes, MuxTypes, Ctrls,
     PaneIdle
<1>2. ~AtWork' BY StillAtWork
<1>3. ~ctrl'.injected BY WorkStaysNew
<1>4. Concluded' /\ OwnAnswer' /\ Numbered'
  <2>1. Concluded' BY ConcludedHolds
  <2>2. OwnAnswer' BY OwnAnswerHolds
  <2>3. Numbered' BY <1>1 DEF Numbered, Before, Waiting
  <2> QED BY <2>1, <2>2, <2>3
<1>5. tool'.phase \in {"stopped", "idle", "asking"}
  <2>1. tool'.phase \in Phases BY <1>1 DEF TurnTypes, ToolTypes
  <2> QED BY <1>2, <1>4, <2>1 DEF AtWork, Numbered, Phases
<1>6. ~Claude' /\ plug'.up => tool'.phase \in {"idle", "asking"} /\ plug'.saw = tool'.phase
  BY <1>2, <1>4 DEF AtWork, PluginBehind, Numbered, Concluded
<1>7. /\ StaysSettled'
      /\ cfg.found /\ turn.mine # 0 => ctrl'.resp \in {0, turn.mine}
  <2>1. CASE ~cfg.found BY <1>1, <2>1 DEF StaysSettled
  <2>2. CASE cfg.found
    <3>1. PollMerge /\ poll.pc = "merge" /\ ctrl' = Merged(ctrl, PaneIdle)
      BY <1>1, <2>2 DEF PollMerge, PollPlugin
    <3>2. ctrl'.read = ctrl.read /\ ctrl'.resp = ctrl.resp BY <1>1, <3>1, MergedMoves
    <3>3. ASSUME ctrl.state \in Settled PROVE StaysSettled'
      <4>1. StaysSettled BY <2>2, <3>1, <3>3 DEF Caught
      <4> QED BY <1>1, <3>2, <4>1, UnreadShrinks
    <3>4. ASSUME ctrl.state \notin Settled PROVE StaysSettled'
      <4>1. PaneIdle BY <1>1, <3>1, <3>4, MergedMoves
      <4>2. ctrl.read = Len(record) BY <2>2, <3>1, <4>1 DEF Signs, IdleIsRead
      <4>3. Unread' = {} BY <1>1, <3>2, <4>2 DEF Unread
      <4> QED BY <4>3 DEF StaysSettled
    <3>5. turn.mine # 0 => ctrl'.resp \in {0, turn.mine}
      BY <1>1, <1>5, <2>2, <3>1, <3>2 DEF Caught
    <3> QED BY <1>1, <3>2, <3>3, <3>4, <3>5
  <2> QED BY <2>1, <2>2
<1>8. turn'.mine # 0 => ctrl'.resp \in {0, turn'.mine}
  BY <1>1, <1>3, <1>4, <1>7 DEF OwnAnswer, Concluded
<1>9. ~Before' BY <1>2 DEF AtWork
<1>10. TurnRests' BY <1>3, <1>5, <1>6, <1>7, <1>8, <1>9 DEF TurnRests
<1>11. ~Claude' /\ plug'.up => tool'.phase = "idle" \/ ctrl'.state = "awaiting_permission"
  BY <1>4, <1>6 DEF Concluded
<1> QED BY <1>10, <1>11 DEF Stays

\* A poll that comes with news after nothing but news of rest.
LEMMA FirstWorkIsTrue ==
    ASSUME TurnTypes, ReadSoFar, Asking, Numbered, Signs, Caught, Between,
           NewsOfCtrl, PollMerge \/ PollPlugin, ~SomeWork, ~over, Waiting, [TurnNext]_turnVars
    PROVE  RestIsLast' /\ LateIsOver' /\ WorkShows' /\ WorkIsNew'
<1>1. /\ UNCHANGED <<cfg, tool, record, plug, pane, send, wire, view, turn>>
      /\ poll.pc = "merge" /\ poll'.pc = "apply"
      /\ cfg.found => Claude
      /\ ctrl \in Ctrls /\ PaneIdle \in BOOLEAN /\ poll.idle \in BOOLEAN
      /\ Len(record) \in Nat /\ ctrl.read \in Nat
  BY ScanStarts
     DEF PollMerge, PollPlugin, toolVars, clientVars, TurnTypes, ToolTypes, MuxTypes, Ctrls,
     PaneIdle
<1>2. ~SawWork' /\ ~SawWork BY <1>1 DEF SawWork, SomeWork
<1>3. \A p \in Nat : IsNews(p)' /\ p # Last => Rests(p)'
  BY DEF NewsOfCtrl, SomeWork, Works, Rests
<1>4. \A p \in Nat : p = Last => Heard(p)'.state = ctrl'.state
  BY DEF NewsOfCtrl, Snap
<1>5. CASE ctrl'.state \in Settled
  <2>1. \A p \in Nat : ~Works(p)' BY <1>3, <1>4, <1>5 DEF Works, Rests
  <2>2. ~SomeWork' /\ \A p \in Nat : ~Late(p)' BY <1>2, <2>1 DEF SomeWork, Late
  <2> QED BY <2>2 DEF RestIsLast, LateIsOver, WorkShows, WorkIsNew
<1>6. CASE ctrl'.state \notin Settled
  <2>1. ASSUME NEW p \in Nat, Late(p)' PROVE FALSE
    <3>1. Rests(p)' /\ IsNews(p)' BY <2>1 DEF Late, Rests
    <3>2. p # Last BY <1>4, <1>6, <3>1 DEF Rests
    <3>3. p < Last BY <3>1, <3>2 DEF NewsOfCtrl
    <3>4. PICK q \in Nat : q < p /\ Works(q)' BY <1>2, <2>1 DEF Late
    <3>5. IsNews(q)' /\ ~Rests(q)' BY <3>4 DEF Works, Rests
    <3>6. q = Last BY <1>3, <3>5
    <3> QED BY <3>3, <3>4, <3>6 DEF NewsOfCtrl
  <2>2. PollMerge => ctrl' = Merged(ctrl, PaneIdle) BY DEF PollMerge
  <2>3. PollPlugin => ctrl' = Merged(Consumed(ctrl), poll.idle) /\ ~Claude BY DEF PollPlugin
  <2>4. PollPlugin => ~ctrl'.injected BY <1>1, <2>3, ConsumedMoves, MergedMoves
  <2>5. PollMerge => ctrl.state \notin Settled /\ ~PaneIdle /\ ctrl' = ctrl /\ Claude
    <3>1. PollMerge => Claude BY DEF PollMerge
    <3>2. ctrl.state \in Settled => Merged(ctrl, PaneIdle) = ctrl BY <1>1, MergedMoves
    <3>3. ctrl.state \notin Settled /\ PaneIdle => Merged(ctrl, PaneIdle).state \in Settled
      BY <1>1, MergedMoves DEF Settled
    <3>4. ctrl.state \notin Settled /\ ~PaneIdle => Merged(ctrl, PaneIdle) = ctrl BY <1>1, MergedMoves
    <3> QED BY <1>6, <2>2, <3>1, <3>2, <3>3, <3>4
  <2>6. send # "asked"
    <3> SUFFICES ASSUME send = "asked" PROVE FALSE OBVIOUS
    <3>1. ctrl.state \in Settled /\ ~ctrl.injected BY DEF Between, AskedAtRest, Before
    <3>2. PollPlugin => ctrl'.state \in Settled BY <1>1, <2>3, <3>1, ConsumedMoves, MergedMoves
    <3> QED BY <1>6, <2>5, <3>1, <3>2
  <2>7. ctrl'.injected => Claude /\ ~Before
    BY <2>4, <2>5 DEF Between, AskedAtRest
  <2>8. WorkIsNew' BY <1>1, <1>6, <2>6, <2>7 DEF WorkIsNew, Before, Claude
  <2>9. ASSUME AtWork PROVE ~(PaneIdle /\ send # "admitted")
    <3> SUFFICES ASSUME PaneIdle, send # "admitted", PollPlugin PROVE FALSE
      BY <2>5
    <3>1. AtRestThere /\ ~PluginBehind
      BY <2>3 DEF PaneIdle, Signs, PaneSigns, AtRestThere, PluginBehind
    <3>2. send = "typed" BY <2>6, <2>9, <3>1 DEF AtWork, AtRestThere, Before
    <3> QED BY <3>2 DEF Signs, PaneSigns
  <2>10. ~WillSettle
    <3>1. cfg.found => PollMerge BY <1>1, <2>3
    <3> QED BY <1>1, <2>5, <3>1 DEF Caught, WillSettle
  <2>11. ~WillSettle'
    <3>1. cfg.found => ctrl' = ctrl BY <1>1, <2>3, <2>5
    <3> QED BY <1>1, <2>10, <3>1 DEF WillSettle, Unread
  <2>12. (AtWork' <=> AtWork) /\ (PaneIdle' <=> PaneIdle)
    BY <1>1 DEF AtWork, Before, PluginBehind, Claude, PaneIdle
  <2>13. WorkShows' BY <1>1, <1>6, <2>9, <2>11, <2>12 DEF WorkShows, SignOfRest
  <2> QED BY <2>1, <2>8, <2>13 DEF RestIsLast, LateIsOver
<1> QED BY <1>5, <1>6

\* A poll that comes with news after news of work.
LEMMA MoreNewsIsTrue ==
    ASSUME TurnTypes, ReadSoFar, InOrder, Asking, Numbered, Concluded, Signs, Caught,
           OwnAnswer, OwnAnswerToCome, LastIsPublished, WaiterIsTold,
           RestIsLast, LateIsOver, WorkShows, WorkIsNew, SomeWork,
           NewsOfCtrl, PollMerge \/ PollPlugin, Waiting, Waiting', [TurnNext]_turnVars
    PROVE  RestIsLast' /\ LateIsOver' /\ WorkShows' /\ WorkIsNew'
<1>1. /\ UNCHANGED <<turn, wire, view>>
  BY DEF PollMerge, PollPlugin, clientVars
<1>2. WorkIsNew'
  <2>1. Claude' = Claude BY PlugFrame DEF Push, PluginLeaves, Claude
  <2> QED BY <2>1, WorkStaysNew DEF WorkIsNew
<1>3. WorkShows' BY StillAtWork DEF WorkShows
<1>4. SawWork' <=> SawWork BY <1>1 DEF SawWork
<1>5. \A p \in Nat : p # Last =>
         /\ IsNews(p)' <=> IsNews(p)
         /\ IsNews(p) => Heard(p)' = Heard(p)
         /\ Rests(p)' <=> Rests(p)
         /\ Works(p)' <=> Works(p)
  BY DEF NewsOfCtrl, Rests, Works
<1>6. \A p \in Nat : IsNews(p)' => p <= Last BY DEF NewsOfCtrl
<1>7. ASSUME NEW p \in Nat, Late(p)', p # Last PROVE Late(p)
  <2>1. Rests(p)' /\ IsNews(p)' BY <1>7 DEF Late, Rests
  <2>2. \A q \in Nat : q < p => q # Last BY <1>6, <2>1 DEF NewsOfCtrl
  <2> QED BY <1>4, <1>5, <1>7, <2>1, <2>2 DEF Late
<1>8. \A p \in Nat : p = Last => Heard(p)'.state = ctrl'.state /\ Heard(p)'.resp = ctrl'.resp
  BY DEF NewsOfCtrl, Snap
<1>9. ASSUME NEW p \in Nat, Late(p) PROVE TurnRests' /\ (Stays => Stays')
  BY <1>9, OverStays DEF LateIsOver
<1>10. ASSUME NEW p \in Nat, NEW q \in Nat, Late(p)', p < q, IsNews(q)' PROVE Rests(q)'
  <2>1. p # Last BY <1>6, <1>10 DEF NewsOfCtrl
  <2>2. Late(p) BY <1>7, <1>10, <2>1
  <2>3. CASE q = Last
    <3>1. ctrl'.state \in Settled BY <1>9, <2>2 DEF TurnRests
    <3> QED BY <1>8, <1>10, <2>3, <3>1 DEF Rests
  <2>4. CASE q # Last
    <3>1. Rests(q) BY <1>5, <1>10, <2>2, <2>4 DEF RestIsLast
    <3> QED BY <1>5, <2>4, <3>1
  <2> QED BY <2>3, <2>4
<1>11. ASSUME NEW p \in Nat, Late(p)'
       PROVE  /\ TurnRests' /\ (turn'.mine # 0 => Heard(p)'.resp \in {0, turn'.mine})
              /\ Heard(p)'.state = "awaiting_input" => Stays'
  <2>1. CASE p = Last
    <3>1. ctrl'.state \in Settled BY <1>8, <1>11, <2>1 DEF Late, Rests
    <3>2. TurnRests' /\ (ctrl'.state = "awaiting_input" => Stays') BY <3>1, OverIsConcluded
    <3> QED BY <1>8, <2>1, <3>2 DEF TurnRests
  <2>2. CASE p # Last
    <3>1. Late(p) /\ Heard(p)' = Heard(p) BY <1>5, <1>7, <1>11, <2>2 DEF Late, Rests
    <3> QED BY <1>1, <1>9, <3>1 DEF LateIsOver
  <2> QED BY <2>1, <2>2
<1>12. RestIsLast' BY <1>10 DEF RestIsLast
<1>13. LateIsOver' BY <1>11 DEF LateIsOver
<1> QED BY <1>2, <1>3, <1>12, <1>13

LEMMA NewsIsTrueHolds ==
    ASSUME TurnTypes, ReadSoFar, InOrder, Asking, Numbered, Concluded, Signs, Caught,
           OwnAnswer, OwnAnswerToCome, LastIsPublished, WaiterIsTold, NewsIsTrue, Between,
           [TurnNext]_turnVars
    PROVE  NewsIsTrue'
<1> SUFFICES ASSUME Waiting' PROVE NewsIsTrue'
  BY DEF NewsIsTrue
<1>1. (Waiting \/ RunBegin) /\ ~over /\ ~over' BY WaitingFrom DEF Waiting
<1>2. CASE RunBegin BY <1>1, <1>2, BeginIsTrue
<1> SUFFICES ASSUME Waiting PROVE NewsIsTrue'
  BY <1>1, <1>2
<1>3. RestIsLast /\ LateIsOver /\ WorkShows /\ WorkIsNew /\ TakenLate BY DEF NewsIsTrue
<1>4. TakenLate' BY <1>3, TakenLateHolds
<1>5. CASE NewsOfCtrl /\ (PollMerge \/ PollPlugin)
  BY <1>1, <1>3, <1>4, <1>5, FirstWorkIsTrue, MoreNewsIsTrue DEF NewsIsTrue
<1>6. CASE OldNews
  <2>1. SawWork' => SawWork \/ Works(0) BY SawWorkFrom
  <2>2. /\ SomeWork' => SomeWork
        /\ \A p \in Nat : Late(p)' => \E k \in Nat : Late(k) /\ Heard(p)' = Heard(k)
        /\ RestIsLast'
    BY <1>3, <1>6, <2>1, OldNewsIsTrue
  <2>3. ASSUME NEW p \in Nat, Late(p)'
        PROVE  /\ TurnRests' /\ (turn'.mine # 0 => Heard(p)'.resp \in {0, turn'.mine})
               /\ Heard(p)'.state = "awaiting_input" => Stays'
    <3>1. PICK k \in Nat : Late(k) /\ Heard(p)' = Heard(k) BY <2>2, <2>3
    <3>2. TurnRests' /\ (Stays => Stays') /\ turn'.mine = turn.mine
      BY <1>3, <3>1, OverStays DEF LateIsOver
    <3> QED BY <1>3, <3>1, <3>2 DEF LateIsOver
  <2>4. LateIsOver' BY <2>3 DEF LateIsOver
  <2>5. WorkShows' BY <1>3, <2>2, StillAtWork DEF WorkShows
  <2>6. WorkIsNew'
    <3>1. Claude' = Claude BY PlugFrame DEF Push, PluginLeaves, Claude
    <3> QED BY <1>3, <2>2, <3>1, WorkStaysNew DEF WorkIsNew
  <2> QED BY <1>4, <2>2, <2>4, <2>5, <2>6 DEF NewsIsTrue
<1> QED BY <1>1, <1>5, <1>6, NewsMoves

\* Who has spoken to the controller of an instruction.
LEMMA InjectedFrom ==
    ASSUME TurnTypes, ReadSoFar, [TurnNext]_turnVars
    PROVE  ctrl'.injected => ctrl.injected \/ Admit
<1> SUFFICES ASSUME ctrl'.injected, ~Admit PROVE ctrl.injected
  OBVIOUS
<1>1. ctrl \in Ctrls /\ PaneIdle \in BOOLEAN /\ poll.idle \in BOOLEAN
  BY DEF TurnTypes, MuxTypes, Ctrls, PaneIdle
<1>2. ~PollBegin BY ConsumedMoves DEF PollBegin
<1>3. ~PollPlugin BY <1>1, ConsumedMoves, MergedMoves DEF PollPlugin
<1>4. ~Push BY DEF Push, TurnTypes, MuxTypes
<1>5. PollRead => ctrl'.injected = ctrl.injected BY ScanKeeps DEF PollRead, Ctrls
<1>6. PollMerge => ctrl'.injected = ctrl.injected BY <1>1, MergedMoves DEF PollMerge
<1> QED BY <1>2, <1>3, <1>4, <1>5, <1>6, CtrlFrame

\* Only a push makes a controller say that a dialog is up, and it is at once so.
LEMMA StillAskingHolds ==
    ASSUME TurnTypes, ReadSoFar, Asking, LastIsPublished, StillAsking, [TurnNext]_turnVars
    PROVE  StillAsking'
<1> SUFFICES ASSUME ~over', ctrl'.state = "awaiting_permission", tool'.phase # "asking",
                    NEW p \in Nat, IsNews(p)'
             PROVE  Heard(p)'.state = "awaiting_permission"
  BY DEF StillAsking
<1>1. ~over BY OverFrame DEF Quit
<1>2. ctrl.state = "awaiting_permission"
  <2>1. /\ ctrl \in Ctrls /\ PaneIdle \in BOOLEAN /\ poll.idle \in BOOLEAN
        /\ tool.phase \in Phases
    BY DEF TurnTypes, ToolTypes, MuxTypes, Ctrls, PaneIdle
  <2>2. PollBegin => ctrl.state = "awaiting_permission" BY ConsumedMoves DEF PollBegin
  <2>3. PollRead => ctrl.state = "awaiting_permission" BY ScanKeeps DEF PollRead, Ctrls
  <2>4. \A c \in Ctrls, idle \in BOOLEAN :
          Merged(c, idle).state = "awaiting_permission" => c.state = "awaiting_permission"
    BY DEF Merged, Ctrls, Settled
  <2>5. PollMerge => ctrl.state = "awaiting_permission" BY <2>1, <2>4 DEF PollMerge
  <2>6. PollPlugin => ctrl.state = "awaiting_permission"
    BY <2>1, <2>4, ConsumedMoves DEF PollPlugin
  <2>7. ~Push
    <3>1. Push => ctrl'.state = Reported /\ tool' = tool BY DEF Push, TurnTypes, MuxTypes
    <3> QED BY <2>1, <3>1 DEF Reported, Phases
  <2>8. Admit => ctrl.state = "awaiting_permission" BY DEF Admit, TurnTypes, MuxTypes
  <2> QED BY <2>2, <2>3, <2>5, <2>6, <2>7, <2>8, CtrlFrame
<1>3. CASE tool.phase = "asking"
  <2>1. PersonAnswers
    BY <1>3, ToolFrame
       DEF ToolBegins, ToolSays, ToolStops, ToolRests, ToolTells, ToolAsks, Enter, TurnTypes,
          ToolTypes
  <2>2. /\ AtRest /\ UNCHANGED <<wire, poll, view>>
    BY <2>1 DEF PersonAnswers, clientVars
  <2>3. view.state = "awaiting_permission" BY <1>1, <1>2, <2>2, AtRestHeard
  <2>4. p = 0
    <3>1. Len(wire) = 0 /\ poll.pc = "wait" BY <2>2 DEF AtRest
    <3> QED BY <2>2, <3>1 DEF IsNews
  <2> QED BY <2>2, <2>3, <2>4 DEF Heard, Snap
<1>4. CASE tool.phase # "asking"
  <2>1. \A k \in Nat : IsNews(k) => Heard(k).state = "awaiting_permission"
    BY <1>1, <1>2, <1>4 DEF StillAsking
  <2>2. CASE OldNews BY <2>1, <2>2 DEF OldNews, NewsFrom
  <2>3. CASE NewsOfCtrl
    <3>1. CASE p = Last BY <2>3, <3>1 DEF NewsOfCtrl, Snap
    <3>2. CASE p # Last BY <2>1, <2>3, <3>2 DEF NewsOfCtrl
    <3> QED BY <3>1, <3>2
  <2> QED BY <1>1, <2>2, <2>3, NewsMoves
<1> QED BY <1>3, <1>4

LEMMA AskedAtRestHolds ==
    ASSUME TurnTypes, ReadSoFar, Asking, Numbered, Concluded, AskedAtRest, RestBetween,
           [TurnNext]_turnVars
    PROVE  AskedAtRest'
<1> SUFFICES ASSUME ~over', Before' PROVE AskedAtRest'
  BY DEF AskedAtRest
<1>1. ~over BY OverFrame DEF Quit
<1>2. /\ ctrl \in Ctrls /\ PaneIdle \in BOOLEAN /\ poll.idle \in BOOLEAN /\ Len(record) \in Nat
      /\ ctrl.read \in Nat /\ cfg' = cfg
  BY ScanStarts, PlugFrame DEF TurnTypes, MuxTypes, Ctrls, PaneIdle, Push, PluginLeaves
<1>3. CASE RunBegin
  <2>1. /\ UNCHANGED <<cfg, record, ctrl>> /\ turn.pc = "rest" /\ ctrl.state \in Settled
    BY <1>3, RunBeginMoves
  <2>2. ~ctrl.injected /\ StaysSettled BY <1>1, <2>1 DEF RestBetween
  <2> QED BY <2>1, <2>2 DEF AskedAtRest, StaysSettled, Unread
<1>4. CASE ~RunBegin
  <2>1. Before /\ (send' = "asked" => send = "asked") /\ ~Enter
        /\ (Admit => send = "asked" /\ send' = "admitted")
    BY <1>4, SendFrame DEF Before, Admit, Type, Enter, Answer
  <2>2. tool.phase = "idle" /\ (~Claude /\ plug.up => plug.saw = "idle")
    BY <1>1, <2>1, BeforeAtRest
  <2>3. record' = record
    BY <2>1, <2>2, ToolFrame
       DEF ToolBegins, ToolSays, ToolStops, ToolRests, ToolTells, ToolAsks, PersonAnswers
  <2>4. send' = "asked" => ~ctrl'.injected
    BY <1>1, <2>1, InjectedFrom DEF AskedAtRest
  <2>5. ASSUME ctrl'.injected \/ send' = "asked"
        PROVE  ctrl'.state \in Settled /\ StaysSettled'
    <3>1. ctrl.state \in Settled /\ StaysSettled
      BY <1>1, <2>1, <2>5, InjectedFrom DEF AskedAtRest
    <3>2. PollRead \/ (ctrl'.state = ctrl.state /\ ctrl'.read = ctrl.read)
      <4>1. PollBegin \/ PollPlugin => ~ctrl.injected /\ Consumed(ctrl) = ctrl
        <5>1. PollBegin \/ PollPlugin => ~ctrl'.injected
          BY <1>2, ConsumedMoves, MergedMoves DEF PollBegin, PollPlugin
        <5> QED BY <1>1, <2>1, <2>5, <5>1, ConsumedMoves DEF AskedAtRest
      <4>2. PollBegin => ctrl' = ctrl BY <4>1 DEF PollBegin
      <4>3. PollPlugin => ctrl' = ctrl BY <1>2, <3>1, <4>1, MergedMoves DEF PollPlugin
      <4>4. PollMerge => ctrl' = ctrl BY <1>2, <3>1, MergedMoves DEF PollMerge
      <4>5. ~Push BY <2>2 DEF Push
      <4>6. Admit => ctrl'.state = ctrl.state /\ ctrl'.read = ctrl.read
        BY DEF Admit, TurnTypes, MuxTypes
      <4> QED BY <4>2, <4>3, <4>4, <4>5, <4>6, CtrlFrame
    <3>3. CASE PollRead
      <4>1. ctrl'.state = Scanned(ctrl, Len(record)).state /\ ctrl'.read = poll.size
        BY <3>3, ScanKeeps DEF PollRead, Ctrls
      <4>2. poll.size \in Nat BY DEF TurnTypes, MuxTypes
      <4>3. ctrl.read <= poll.size /\ cfg.found BY <1>2, <3>3, <4>2 DEF PollRead, ReadSoFar
      <4>4. ctrl'.state \in Settled BY <3>1, <4>1, <4>3, ScanSettles
      <4> QED BY <1>2, <2>3, <3>1, <4>1, <4>2, <4>3, <4>4, UnreadShrinks
    <3>4. CASE ctrl'.state = ctrl.state /\ ctrl'.read = ctrl.read
      BY <1>2, <2>3, <3>1, <3>4, UnreadShrinks
    <3> QED BY <3>2, <3>3, <3>4
  <2> QED BY <2>4, <2>5 DEF AskedAtRest
<1> QED BY <1>3, <1>4

\* A client that has just stopped waiting.
LEMMA RestBegins ==
    ASSUME TurnTypes, ReadSoFar, Asking, Concluded, LastIsPublished, NewsIsTrue,
           Waits, turn'.pc = "rest", ~over, [TurnNext]_turnVars
    PROVE  RestBetween'
<1>1. /\ UNCHANGED <<cfg, tool, record, plug, pane, ctrl, pub, poll, send, wire, over>>
      /\ view'.state = view.state /\ view'.resp = view.resp
      /\ turn.pc # "rest" /\ (TurnTakes \/ WaitTimesOut \/ view.ended)
  BY WaitsMove
<1>2. ~view.ended /\ Waiting BY <1>1 DEF Asking, Waiting
<1>3. \A p \in Nat : (IsNews(p)' <=> IsNews(p)) /\ Heard(p)' = Heard(p)
  BY <1>1 DEF IsNews, Heard
<1>4. ASSUME ~ctrl.injected, ctrl.state \in Settled => StaysSettled,
             ctrl.state = "awaiting_input" => Stays,
             \A p \in Nat : IsNews(p) /\ Heard(p).state = "awaiting_input" =>
               Stays /\ \A q \in Nat : p < q /\ IsNews(q) => Rests(q)
      PROVE  RestBetween'
  <2>1. (StaysSettled' <=> StaysSettled) /\ (Stays' <=> Stays)
    BY <1>1 DEF StaysSettled, Stays, Claude, Unread
  <2>2. \A p \in Nat : Rests(p)' <=> Rests(p) BY <1>3 DEF Rests
  <2> QED BY <1>1, <1>3, <1>4, <2>1, <2>2 DEF RestBetween
<1>5. CASE TurnTakes
  <2>1. SawWork /\ TurnRests BY <1>2, <1>5, TakenIsOver DEF TurnTakes, Waiting
  <2>2. ctrl.state = "awaiting_input" => Stays
    BY <2>1 DEF TurnRests, Stays, Concluded
  <2>3. \A p \in Nat : IsNews(p) /\ Heard(p).state = "awaiting_input" => Late(p)
    BY <2>1 DEF Late, Rests, Settled
  <2>4. \A p \in Nat : IsNews(p) /\ Heard(p).state = "awaiting_input" =>
          Stays /\ \A q \in Nat : p < q /\ IsNews(q) => Rests(q)
    BY <1>2, <2>3 DEF NewsIsTrue, LateIsOver, RestIsLast
  <2> QED BY <1>4, <2>1, <2>2, <2>4 DEF TurnRests
<1>6. CASE WaitTimesOut
  <2>1. AtRest BY <1>6 DEF WaitTimesOut
  <2>2. StaysSettled
    <3>1. cfg.found => ctrl.read = Len(record) BY <2>1 DEF AtRest
    <3>2. Len(record) \in Nat BY ScanStarts
    <3> QED BY <3>1, <3>2 DEF StaysSettled, Unread
  <2>3. ctrl.state = "awaiting_input" => Stays
    BY <2>1 DEF AtRest, Recorded, Stays, Settled, Concluded
  <2>4. \A p \in Nat : IsNews(p) => p = 0
    <3>1. Len(wire) = 0 /\ poll.pc = "wait" BY <2>1 DEF AtRest
    <3> QED BY <3>1 DEF IsNews
  <2>5. Heard(0).state = ctrl.state BY <2>1, AtRestHeard DEF Heard, Snap
  <2> QED BY <1>4, <2>1, <2>2, <2>3, <2>4, <2>5 DEF AtRest
<1> QED BY <1>1, <1>2, <1>5, <1>6

\* While the client rests, the controller of a tool at rest stays where it is.
LEMMA RestStays ==
    ASSUME TurnTypes, ReadSoFar, Asking, Numbered, Concluded, Signs, RestBetween,
           ~over, turn.pc = "rest", turn'.pc = "rest", [TurnNext]_turnVars
    PROVE  /\ ~ctrl'.injected
           /\ ctrl'.state \in Settled => StaysSettled'
           /\ ctrl'.state = "awaiting_input" => Stays'
           /\ Stays => Stays'
<1>1. /\ cfg.found => Claude
      /\ ctrl \in Ctrls /\ PaneIdle \in BOOLEAN /\ poll.idle \in BOOLEAN /\ Len(record) \in Nat
      /\ ctrl.read \in Nat /\ poll.size \in Nat /\ tool.phase \in Phases
  BY ScanStarts DEF TurnTypes, ToolTypes, MuxTypes, Ctrls, PaneIdle
<1>2. cfg' = cfg BY PlugFrame DEF Push, PluginLeaves
<1>3. send = "none" /\ ~Admit /\ ~Enter /\ ~RunBegin
  BY RunBeginMoves DEF Asking, Admit, Enter
<1>4. /\ ~ctrl.injected
      /\ ctrl.state \in Settled => StaysSettled
      /\ ctrl.state = "awaiting_input" => Stays
  BY DEF RestBetween
<1>5. ~ctrl'.injected BY <1>3, <1>4, InjectedFrom
<1>6. tool.phase # "entered" BY DEF Numbered
<1>7. /\ PollBegin => ctrl' = ctrl
      /\ PollMerge => ctrl' = Merged(ctrl, PaneIdle)
      /\ PollPlugin => ctrl' = Merged(ctrl, poll.idle)
  BY <1>4, ConsumedMoves DEF PollBegin, PollMerge, PollPlugin
<1>8. ASSUME PollRead
      PROVE  /\ ctrl'.state = Scanned(ctrl, Len(record)).state /\ ctrl'.read = poll.size
             /\ cfg.found /\ ctrl.read <= poll.size /\ UNCHANGED <<record, tool, plug>>
  <2>1. UNCHANGED <<record, tool, plug>> BY <1>8 DEF PollRead, toolVars
  <2> QED BY <1>1, <1>8, <2>1, ScanKeeps DEF PollRead, ReadSoFar, Ctrls
<1>9. ctrl'.state \in Settled => StaysSettled'
  <2> SUFFICES ASSUME ctrl'.state \in Settled, cfg.found PROVE StaysSettled'
    BY <1>2 DEF StaysSettled
  <2>1. CASE PollRead
    <3>1. StaysSettled BY <1>8, <2>1, ScanSettles
    <3> QED BY <1>1, <1>2, <1>8, <2>1, <3>1, UnreadShrinks
  <2>2. CASE PollMerge
    <3>1. record' = record /\ ctrl'.read = ctrl.read /\ poll.pc = "merge"
      BY <1>1, <1>7, <2>2, MergedMoves DEF PollMerge, toolVars
    <3>2. CASE ctrl.state \in Settled BY <1>1, <1>2, <1>4, <3>1, <3>2, UnreadShrinks
    <3>3. CASE ctrl.state \notin Settled
      <4>1. PaneIdle BY <1>1, <1>7, <2>2, <3>3, MergedMoves
      <4>2. ctrl.read = Len(record) BY <3>1, <4>1 DEF Signs, IdleIsRead
      <4>3. Unread' = {} BY <1>1, <3>1, <4>2 DEF Unread
      <4> QED BY <4>3 DEF StaysSettled
    <3> QED BY <3>2, <3>3
  <2>3. CASE ctrl' = ctrl
    <3>1. StaysSettled BY <1>4, <2>3
    <3>2. CASE record' = record BY <1>1, <1>2, <2>3, <3>1, <3>2, UnreadShrinks
    <3>3. CASE ToolSays
      <4>1. Writes("tool", tool.turn) \/ Writes("assistant", tool.turn) BY <3>3 DEF ToolSays
      <4> QED BY <1>2, <2>3, <3>1, <4>1, UnreadGrows
    <3>4. CASE ToolStops
      <4>1. Writes("stop", tool.turn) \/ record' = record BY <3>4 DEF ToolStops
      <4> QED BY <1>2, <2>3, <3>1, <3>2, <4>1, UnreadGrows
    <3>5. ~ToolBegins BY <1>6 DEF ToolBegins
    <3>6. ToolRests \/ ToolTells \/ ToolAsks \/ PersonAnswers => record' = record
      BY DEF ToolRests, ToolTells, ToolAsks, PersonAnswers
    <3> QED BY <1>3, <3>2, <3>3, <3>4, <3>5, <3>6, ToolFrame
  <2>4. ~PollPlugin /\ ~Push BY <1>1 DEF PollPlugin, Push
  <2> QED BY <1>3, <1>7, <2>1, <2>2, <2>3, <2>4, CtrlFrame
<1>10. tool.phase = "idle" => tool'.phase = "idle"
  BY <1>3, ToolFrame
     DEF ToolBegins, ToolSays, ToolStops, ToolRests, ToolTells, ToolAsks, PersonAnswers,
        TurnTypes, ToolTypes
<1>11. plug'.up => plug.up
  BY PlugFrame DEF Push, PluginLeaves, TurnTypes, ToolTypes
<1>12. ASSUME Stays PROVE Stays'
  <2>1. ctrl'.state \in Settled
    <3>1. CASE PollRead BY <1>4, <1>8, <1>12, <3>1, ScanSettles DEF Stays
    <3>2. CASE Push
      <4>1. ctrl'.state = Reported /\ tool.phase = "idle"
        BY <1>12, <3>2 DEF Push, Stays, TurnTypes, MuxTypes
      <4> QED BY <4>1 DEF Reported, Settled
    <3>3. PollMerge \/ PollPlugin => ctrl' = ctrl BY <1>1, <1>7, <1>12, MergedMoves DEF Stays
    <3> QED BY <1>3, <1>7, <1>12, <3>1, <3>2, <3>3, CtrlFrame DEF Stays
  <2> QED BY <1>2, <1>10, <1>11, <1>12, <2>1 DEF Stays, Claude
<1>13. ASSUME ctrl'.state = "awaiting_input" PROVE Stays'
  <2>1. CASE ctrl.state = "awaiting_input" BY <1>4, <1>12, <2>1
  <2>2. CASE ctrl.state # "awaiting_input" /\ ~Claude /\ plug'.up
    <3>1. CASE Push
      <4>1. ctrl'.state = Reported /\ tool' = tool BY <3>1 DEF Push, TurnTypes, MuxTypes
      <4>2. tool.phase = "idle" BY <1>1, <1>13, <4>1 DEF Reported, Phases
      <4> QED BY <1>13, <4>1, <4>2 DEF Stays, Settled
    <3>2. CASE PollPlugin
      <4>1. poll.idle /\ ctrl.state \notin Settled /\ poll.pc = "merge"
        BY <1>1, <1>7, <1>13, <2>2, <3>2, MergedMoves DEF PollPlugin
      <4>2. AtRestThere BY <1>6, <2>2, <4>1 DEF Signs, PaneSigns
      <4>3. plug.saw = tool.phase /\ tool.phase # "asking"
        BY <1>11, <2>2, <4>1, <4>2 DEF Signs, PaneSigns, Concluded, Settled
      <4>4. tool.phase = "idle" BY <4>2, <4>3 DEF AtRestThere
      <4> QED BY <1>10, <1>13, <4>4 DEF Stays, Settled
    <3>3. ~PollBegin /\ ~PollRead /\ ~PollMerge BY <1>1, <1>8, <2>2 DEF PollBegin, PollMerge
    <3> QED BY <1>3, <1>13, <2>2, <3>1, <3>2, <3>3, CtrlFrame
  <2>3. CASE Claude \/ ~plug'.up BY <1>2, <1>13, <2>3 DEF Stays, Settled, Claude
  <2> QED BY <2>1, <2>2, <2>3
<1> QED BY <1>5, <1>9, <1>12, <1>13

LEMMA RestBetweenHolds ==
    ASSUME TurnTypes, ReadSoFar, Asking, Numbered, Concluded, Signs, LastIsPublished, NewsIsTrue,
           RestBetween, [TurnNext]_turnVars
    PROVE  RestBetween'
<1> SUFFICES ASSUME ~over', turn'.pc = "rest" PROVE RestBetween'
  BY DEF RestBetween
<1>1. ~over BY OverFrame DEF Quit
<1>2. CASE turn.pc # "rest"
  <2>1. Waits
    <3>1. ~RunBegin BY <1>2, RunBeginMoves
    <3>2. ~Enter BY <1>2, EnterMoves
    <3>3. ~Ingest BY <1>1, <1>2, IngestMoves
    <3> QED BY <1>2, <3>1, <3>2, <3>3, TurnFrame DEF Waits, Waiter
  <2> QED BY <1>1, <2>1, RestBegins
<1>3. CASE turn.pc = "rest"
  <2>1. /\ ~ctrl'.injected
        /\ ctrl'.state \in Settled => StaysSettled'
        /\ ctrl'.state = "awaiting_input" => Stays'
        /\ Stays => Stays'
    BY <1>1, <1>3, RestStays
  <2>2. \A p \in Nat : IsNews(p) /\ Heard(p).state = "awaiting_input" =>
           Stays /\ \A q \in Nat : p < q /\ IsNews(q) => Rests(q)
    BY <1>1, <1>3 DEF RestBetween
  <2>3. ASSUME NEW p \in Nat, IsNews(p)', Heard(p)'.state = "awaiting_input"
        PROVE  Stays' /\ \A q \in Nat : p < q /\ IsNews(q)' => Rests(q)'
    <3>1. CASE OldNews
      <4>1. PICK m : NewsFrom(m) BY <3>1 DEF OldNews
      <4>2. m[p] \in Nat /\ IsNews(m[p]) /\ Heard(m[p]).state = "awaiting_input"
        BY <2>3, <4>1 DEF NewsFrom
      <4>3. ASSUME NEW q \in Nat, p < q, IsNews(q)' PROVE Rests(q)'
        <5>1. m[q] \in Nat /\ m[p] < m[q] /\ IsNews(m[q]) /\ Heard(q)' = Heard(m[q])
          BY <2>3, <4>1, <4>3 DEF NewsFrom
        <5>2. Rests(m[q]) BY <2>2, <4>2, <5>1
        <5> QED BY <4>3, <5>1, <5>2 DEF Rests
      <4> QED BY <2>1, <2>2, <4>2, <4>3
    <3>2. CASE NewsOfCtrl
      <4>1. Stays'
        <5>1. CASE p = Last BY <2>1, <2>3, <3>2, <5>1 DEF NewsOfCtrl, Snap
        <5>2. CASE p # Last BY <2>1, <2>2, <2>3, <3>2, <5>2 DEF NewsOfCtrl
        <5> QED BY <5>1, <5>2
      <4>2. ASSUME NEW q \in Nat, p < q, IsNews(q)' PROVE Rests(q)'
        <5>1. p # Last /\ IsNews(p) /\ Heard(p).state = "awaiting_input"
          BY <2>3, <3>2, <4>2 DEF NewsOfCtrl
        <5>2. CASE q = Last BY <3>2, <4>1, <4>2, <5>2 DEF NewsOfCtrl, Snap, Rests, Stays
        <5>3. CASE q # Last
          <6>1. Rests(q) BY <2>2, <3>2, <4>2, <5>1, <5>3 DEF NewsOfCtrl
          <6> QED BY <3>2, <4>2, <6>1 DEF NewsOfCtrl, Rests
        <5> QED BY <5>2, <5>3
      <4> QED BY <4>1, <4>2
    <3> QED BY <1>1, <3>1, <3>2, NewsMoves
  <2> QED BY <2>1, <2>3 DEF RestBetween
<1> QED BY <1>2, <1>3

LEMMA TurnBegins == TurnInit => TurnIInv
<1> SUFFICES ASSUME TurnInit PROVE TurnIInv
  OBVIOUS
<1>1. /\ cfg \in [kind : {"claude", "plugin"}, found : BOOLEAN, hook : BOOLEAN]
      /\ IF Claude THEN cfg.hook => cfg.found ELSE ~cfg.found /\ ~cfg.hook
      /\ tool = [phase |-> "idle", turn |-> 0, said |-> 0, told |-> TRUE]
      /\ record = <<>> /\ plug = [saw |-> "idle", up |-> TRUE]
      /\ pane = [ready |-> FALSE, signal |-> "", newer |-> FALSE, clock |-> TRUE]
      /\ ctrl = [state |-> "starting", resp |-> 0, injected |-> FALSE, read |-> 0]
      /\ pub = NoSnap /\ poll = [pc |-> "wait", size |-> 0, idle |-> FALSE, ev |-> NoSnap]
      /\ send = "none" /\ wire = <<>> /\ ~over
      /\ view = [state |-> "working", resp |-> 0, closed |-> FALSE, ended |-> FALSE]
      /\ turn = [pc |-> "rest", phase |-> "start", sends |-> 0, before |-> 0, mine |-> 0,
                 result |-> NoResult]
  BY DEF TurnInit
<1>0. <<>> \in Seq(Lines) /\ <<>> \in Seq(News) /\ Len(<<>>) = 0 OBVIOUS
<1>2. TurnTypes
  <2>1. ToolTypes
    <3>1. record \in Seq(Lines) BY <1>1, <1>0
    <3>2. tool \in [phase : Phases, turn : Nat, said : Nat, told : BOOLEAN] BY <1>1 DEF Phases
    <3>3. tool.said \in {0, tool.turn} BY <1>1
    <3>4. plug \in [saw : Phases, up : BOOLEAN] BY <1>1 DEF Phases
    <3> QED BY <1>1, <3>1, <3>2, <3>3, <3>4 DEF ToolTypes
  <2>2. MuxTypes BY <1>1 DEF MuxTypes, NoSnap, Snap, Shots, States
  <2>3. ClientTypes
    <3>1. over \in BOOLEAN BY DEF TurnInit
    <3>2. wire \in Seq(News) BY <1>1, <1>0
    <3>3. view \in [state : States \cup {"unknown"}, resp : Nat, closed : BOOLEAN, ended : BOOLEAN]
      BY <1>1 DEF States
    <3>4. turn \in [pc : {"rest", "sent", "look", "sub", "again", "park", "take"},
                    phase : {"start", "settle"}, sends : Nat, before : Nat, mine : Nat,
                    result : [how : {"none", "turn", "unseen", "stalled", "error"},
                              state : States \cup {"unknown"}, resp : Nat]]
      BY <1>1 DEF NoResult
    <3> QED BY <3>1, <3>2, <3>3, <3>4 DEF ClientTypes
  <2> QED BY <2>1, <2>2, <2>3 DEF TurnTypes
<1>3. Len(wire) = 0 /\ Len(record) = 0 BY <1>1, <1>0
<1>4. Asking
  <2>1. \A i : i \notin 1..Len(wire) BY <1>3
  <2> QED BY <1>1, <2>1 DEF Asking, IsReply
<1>5. Numbered
  <2>1. tool.turn = 0 /\ tool.phase = "idle" /\ tool.told /\ turn.mine = 0 BY <1>1
  <2>2. turn.pc = "rest" /\ send = "none" BY <1>1
  <2> QED BY <2>1, <2>2 DEF Numbered, Before, Waiting
<1>6. Signs BY <1>1 DEF Signs, PaneSigns, ShownAtWork, ClockRuns, IdleIsRead, PaneIdle, Waiting
<1>7. LastIsPublished BY <1>1 DEF LastIsPublished
<1>8. InOrder /\ ReadSoFar
  <2>1. \A i : i \notin 1..Len(record) BY <1>3
  <2>2. tool.phase = "idle" /\ tool.turn = 0 BY <1>1
  <2>3. InOrder BY <2>1, <2>2 DEF InOrder
  <2>4. ctrl.read = 0 /\ poll.size = 0 /\ poll.pc = "wait" BY <1>1
  <2> QED BY <1>3, <2>3, <2>4 DEF ReadSoFar
<1>9. Concluded /\ Caught /\ OwnAnswer /\ OwnAnswerToCome
  BY <1>1 DEF Concluded, Caught, OwnAnswer, OwnAnswerToCome, Waiting, Settled
<1>10. NewsIsTrue BY <1>1 DEF NewsIsTrue, Waiting
<1>11. Between
  <2>1. \A p \in Nat : IsNews(p) => p = 0
    <3>1. poll.pc = "wait" BY <1>1
    <3>2. \A p : p \notin 1..Len(wire) BY <1>3
    <3> QED BY <3>1, <3>2 DEF IsNews
  <2>2. Heard(0).state = "working" BY <1>1 DEF Heard, Snap
  <2>3. RestBetween BY <1>1, <2>1, <2>2 DEF RestBetween, Settled
  <2> QED BY <1>1, <2>3 DEF Between, AskedAtRest, StillAsking, Before
<1>12. WaiterIsTold /\ NoStaleAnswer BY <1>1 DEF WaiterIsTold, NoStaleAnswer, NoResult
<1> QED BY <1>2, <1>4, <1>5, <1>6, <1>7, <1>8, <1>9, <1>10, <1>11, <1>12 DEF TurnIInv

LEMMA TurnGoesOn == TurnIInv /\ [TurnNext]_turnVars => TurnIInv'
<1> SUFFICES ASSUME TurnIInv, [TurnNext]_turnVars PROVE TurnIInv'
  OBVIOUS
<1> USE DEF TurnIInv
<1>1. TurnTypes' BY TypesHold
<1>2. Asking' BY AskingHolds
<1>3. Numbered' BY NumberedHolds
<1>4. Signs' BY SignsHold
<1>5. LastIsPublished' BY LastIsPublishedHolds
<1>6. InOrder' /\ ReadSoFar' BY InOrderHolds, ReadSoFarHolds
<1>7. Concluded' /\ Caught' BY ConcludedHolds, CaughtHolds
<1>8. OwnAnswer' /\ OwnAnswerToCome' BY OwnAnswerHolds, OwnAnswerToComeHolds
<1>9. NewsIsTrue' BY NewsIsTrueHolds
<1>10. Between'
  <2>1. RestBetween /\ AskedAtRest /\ StillAsking BY DEF Between
  <2>2. RestBetween' BY <2>1, RestBetweenHolds
  <2>3. AskedAtRest' BY <2>1, AskedAtRestHolds
  <2>4. StillAsking' BY <2>1, StillAskingHolds
  <2> QED BY <2>2, <2>3, <2>4 DEF Between
<1>11. WaiterIsTold' BY WaiterIsToldHolds
<1>12. NoStaleAnswer' BY NoStaleAnswerHolds
<1> QED BY <1>1, <1>2, <1>3, <1>4, <1>5, <1>6, <1>7, <1>8, <1>9, <1>10, <1>11, <1>12

\* What is known of a turn at every moment, from the tool's signs to the client's wait
\* (TurnIInv).
THEOREM TurnsAreInOrder == TurnSpec => []TurnIInv
BY TurnBegins, TurnGoesOn, PTL DEF TurnSpec

\* What a client is told is the answer to its instruction is that turn's answer or
\* none, in every order of the record, the pushes, the terminal's signs and the
\* polls, and for any number of turns (RunInstruction, ApplyPane, demoteSettled).
THEOREM NobodyGetsAStaleAnswer == TurnSpec => []NoStaleAnswer
<1>1. TurnIInv => NoStaleAnswer BY DEF TurnIInv
<1> QED BY <1>1, TurnsAreInOrder, PTL

\* A turn that is reported as over is over: the tool is not at work on it
\* (RunInstruction's two waits, mergeTerminalIdle).
THEOREM TurnsAreOver == TurnSpec => TurnIsOver
<1>1. TurnIInv /\ [TurnNext]_turnVars =>
        [turn.pc = "take" /\ turn'.result.how = "turn" /\ ~over /\ tool.turn = turn.mine =>
           tool.phase \in {"stopped", "idle", "asking"}]_turnVars
  BY TakenIsOver DEF TurnIInv, TurnRests
<1> QED BY <1>1, TurnsAreInOrder, PTL DEF TurnSpec, TurnIsOver

\* A tool at rest of which everything was heard has a ready pane, whose sign is
\* newer than what was read: the controller has settled, and its client saw it.
LEMMA NothingIsAwaited == ASSUME GridMode, TurnIInv PROVE NobodyWaitsForNothing
<1> SUFFICES ASSUME turn.pc = "park", turn.phase = "settle", turn.mine # 0, ~view.closed,
                    AtRest, pane.signal # "perm"
             PROVE  FALSE
  BY DEF NobodyWaitsForNothing
<1> USE DEF TurnIInv
<1>1. ~view.ended /\ view.state \notin Settled BY DEF WaiterIsTold, Pred
<1>2. ~over
  <2>1. Len(wire) = 0 BY DEF AtRest
  <2> QED BY <1>1, <2>1 DEF Asking
<1>3. ctrl.state \notin Settled BY <1>1, <1>2, AtRestHeard
<1>4. pub.state \in {"working", "starting"} /\ poll.pc = "wait"
  BY <1>3 DEF AtRest, Snap, Settled, TurnTypes, MuxTypes, States
<1>5. pane.ready BY <1>2 DEF AtRest, Signs, ClockRuns, AtRestThere, Waiting
<1>6. PaneIdle BY <1>4, <1>5 DEF Signs, ShownAtWork, PaneIdle
<1> QED BY <1>3, <1>6 DEF AtRest

\* Where renderLocked runs its idle clocks, whoever waits for a turn is told: no wake
\* is missed and no sign of rest is lost to the controller (SessionState.wait,
\* mergeTerminalIdle, applyControllerSnapshot).
THEOREM WaitersAreTold == ASSUME GridMode PROVE TurnSpec => []NobodyIsKeptWaiting
<1>1. TurnIInv => NobodyIsKeptWaiting BY NothingIsAwaited DEF NobodyIsKeptWaiting, TurnIInv
<1> QED BY <1>1, TurnsAreInOrder, PTL
=============================================================================
