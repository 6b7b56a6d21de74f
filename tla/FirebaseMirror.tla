--------------------------- MODULE FirebaseMirror ---------------------------
(***************************************************************************)
(* The Firebase mirror (transport/firebase/mirror.go): a hub Sink whose    *)
(* peer is a database.  Write only marks what it was told as dirty; one    *)
(* flusher takes a batch under the lock, sends it with the lock released,  *)
(* and clears exactly the marks that are still the ones it took.           *)
(*                                                                         *)
(* A path of the session node is a tuple: <<"node", p>> stands for a       *)
(* pane's meta and state, which the code treats alike, <<"frame", p>> for  *)
(* the frame node and <<"row", p, y>> for a row below it.                  *)
(***************************************************************************)
EXTENDS Integers, FiniteSets

CONSTANTS
    Panes,          \* panes the session has
    Fields,         \* fields of a pane's node
    Vals,           \* what a field or a row can hold
    Rows,           \* rows of the tallest screen, 1..n
    Commands,       \* push ids of commands (FirebaseCommands)
    MaxNews,        \* bound: messages of the bus and heartbeats
    MaxOps,         \* bound: changes of the hub's op table
    MaxEvents,      \* bound: event keys
    eventRing,      \* events kept
    PerSec,         \* the bucket's byte budget, in frames
    Bad,            \* paths the database may answer with 400
    None            \* no value

Extras == ({"event"} \X (1..MaxEvents)) \cup ({"result", "command"} \X Commands)
Nodes == {"node"} \X Panes
Frames == {"frame"} \X Panes
Meta == <<"meta">>
Ops == <<"ops">>
\* What carries a stamp, and what the database stores.
Items == {Meta, Ops} \cup Nodes \cup Frames \cup Extras
Leaves == {Meta, Ops} \cup Nodes \cup ({"row"} \X Panes \X Rows) \cup Extras

ASSUME MirrorBounds ==
    /\ MaxNews \in Nat /\ MaxOps \in Nat /\ MaxEvents \in Nat
    /\ eventRing \in Nat \ {0} /\ PerSec \in Nat \ {0}
    /\ IsFiniteSet(Panes) /\ Rows \subseteq Nat \ {0}
    /\ None \notin Vals \cup {"event"}
    /\ MaxEvents >= MaxNews
    /\ Bad \subseteq Items

VARIABLES
    bad,        \* the paths it does answer with 400, whatever else it is asked
    hubOps,     \* the hub's op table, by revision
    opsNews,    \* an ops_changed is on its way to the mirror
    node,       \* pane -> its merged node
    pending,    \* pane -> the screen that waits: [key, lines]
    extra,      \* path -> value that waits
    alive,      \* sessMeta's alive
    mark,       \* item -> its stamp, 0 when clean
    eventSeq, dropped, closed, stopped,
    writing,    \* the sub's writer stands between mergePane and recordEvent
    fl,         \* flusher -> its program counter and batch
    final,      \* where Finalize stands
    db,         \* the session node in the database
    screen,     \* history: what the frames written so far add up to
    swept,      \* history: something was cleared although its own retry had failed
    left,       \* history: Finalize left a request in flight
    news        \* messages so far

dirty == <<node, pending, extra, alive, mark, eventSeq>>
flow == <<dropped, closed, stopped, writing, final, left>>
mirrorVars == <<bad, hubOps, opsNews, dirty, flow, fl, db, screen, swept, news>>

NoLines == [y \in Rows |-> None]
NoFrame == [key |-> FALSE, lines |-> NoLines]
FlusherAt(pc, ops, pay, took, todo) ==
    [pc |-> pc, ops |-> ops, pay |-> pay, took |-> took, todo |-> todo]
Idle == FlusherAt("idle", None, <<>>, <<>>, {})
Flushers == {"run", "final"}

NoNode == [f \in Fields |-> None]
EmptyDb == [l \in Leaves |-> IF l \in Nodes THEN NoNode ELSE None]

\* A process that has just started has its meta and its op list to write.
MirrorInit ==
    /\ bad \in SUBSET Bad
    /\ hubOps = 0 /\ opsNews = FALSE
    /\ node = [p \in Panes |-> NoNode]
    /\ pending = [p \in Panes |-> NoFrame]
    /\ extra = [e \in Extras |-> None]
    /\ alive = TRUE
    /\ mark = [i \in Items |-> IF i \in {Meta, Ops} THEN 1 ELSE 0]
    /\ eventSeq = 0
    /\ dropped = {} /\ closed = FALSE /\ stopped = FALSE /\ writing = FALSE
    /\ fl = [f \in Flushers |-> Idle]
    /\ final = "no"
    /\ screen = [p \in Panes |-> NoLines]
    /\ swept = FALSE /\ left = FALSE
    /\ db = EmptyDb /\ news = 0

------------------------------------------------------------------------------
(* What Write does with a message.                                         *)

\* nextStamp only grows, so an item that is touched gets a stamp no batch on its way
\* has for it; which one is of no matter.
InFlight(i) == {fl[f].took[i] : f \in {g \in Flushers : i \in DOMAIN fl[g].took}}
NewStamp(i) == CHOOSE n \in 1..3 : n \notin InFlight(i) /\ \A m \in 1..n-1 : m \in InFlight(i)
Marks(items) == mark' = [i \in Items |-> IF i \in items THEN NewStamp(i) ELSE mark[i]]

\* The sub's writer writes one message at a time, until Finalize has ended the Sub.
MayWrite == ~writing /\ final = "no"
Heard == news < MaxNews /\ news' = news + 1

\* mergeNodeLocked: the fields an event carries are copied into the whole node,
\* which is dirty if one of them changed.
Merged(old, entry) == [f \in Fields |-> IF f \in DOMAIN entry THEN entry[f] ELSE old[f]]
MergePane(p, entry) ==
    LET new == Merged(node[p], entry)
    IN IF closed \/ new = node[p]
       THEN UNCHANGED <<node, mark>>
       ELSE node' = [node EXCEPT ![p] = new] /\ Marks({<<"node", p>>})

Entries == UNION {[F -> Vals] : F \in SUBSET Fields \ {{}}}

\* The connect-time aggregate, which is not news.
Aggregate(p, entry) ==
    /\ MayWrite /\ Heard
    /\ MergePane(p, entry)
    /\ UNCHANGED <<bad, hubOps, opsNews, pending, extra, alive, eventSeq, flow, fl, db, screen, swept>>

\* snapshot, results, pane_opened, pane_closed and exit of one pane.
PaneEvent(p, entry) ==
    /\ MayWrite /\ Heard
    /\ MergePane(p, entry)
    /\ writing' = TRUE
    /\ UNCHANGED <<bad, hubOps, opsNews, pending, extra, alive, eventSeq, dropped, closed, stopped,
                   final, left, fl, db, screen, swept>>

\* ops_changed: the node is to be rebuilt at the flush.
OpsEvent ==
    /\ MayWrite /\ opsNews
    /\ opsNews' = FALSE
    /\ Marks({Ops})
    /\ writing' = TRUE
    /\ UNCHANGED <<bad, hubOps, node, pending, extra, alive, eventSeq, dropped, closed, stopped,
                   final, left, fl, db, screen, swept, news>>

HubChanges ==
    /\ hubOps < MaxOps /\ Heard
    /\ hubOps' = hubOps + 1 /\ opsNews' = TRUE
    /\ UNCHANGED <<bad, dirty, flow, fl, db, screen, swept>>

\* setPathLocked, for every path of a function from paths to values.
SetPaths(vals) ==
    LET new == DOMAIN vals \ dropped
    IN /\ extra' = [e \in Extras |-> IF e \in new THEN vals[e] ELSE extra[e]]
       /\ IF new = {} THEN UNCHANGED mark ELSE Marks(new)

\* The newest event, and the trim of the one that falls off the ring.
RecordEvent ==
    LET seq == eventSeq + 1
        trim == seq - eventRing
    IN /\ writing /\ writing' = FALSE
       /\ IF closed
          THEN UNCHANGED <<extra, mark, eventSeq>>
          ELSE /\ eventSeq' = seq
               /\ SetPaths([e \in {<<"event", s>> : s \in {seq, trim} \ -eventRing..0} |->
                              IF e[2] = seq THEN "event" ELSE None])
       /\ UNCHANGED <<bad, hubOps, opsNews, node, pending, alive, dropped, closed, stopped,
                      final, left, fl, db, screen, swept, news>>

\* paneFrame.merge: a keyframe supersedes what waits, a delta replaces its rows,
\* and a keyframe stays one whatever is merged into it.
MergeFrame(old, key, lines) ==
    [key |-> key \/ old.key,
     lines |-> IF key THEN lines
               ELSE [y \in Rows |-> IF lines[y] # None THEN lines[y] ELSE old.lines[y]]]

\* A keyframe shows every row of a screen of some height; a delta some rows of it.
Keyframes == {l \in [Rows -> Vals \cup {None}] :
                 /\ l # NoLines
                 /\ \A y \in Rows : l[y] = None => \A z \in Rows : z > y => l[z] = None}
Deltas(p) == {l \in [Rows -> Vals \cup {None}] :
                 /\ l # NoLines
                 /\ \A y \in Rows : l[y] # None => screen[p][y] # None}

Frame(p, key, lines) ==
    /\ MayWrite /\ Heard
    /\ lines \in IF key THEN Keyframes ELSE Deltas(p)
    /\ IF closed
       THEN UNCHANGED <<pending, mark, screen>>
       ELSE /\ pending' = [pending EXCEPT ![p] = MergeFrame(@, key, lines)]
            /\ Marks({<<"frame", p>>})
            /\ screen' = [screen EXCEPT ![p] = MergeFrame([key |-> FALSE, lines |-> @], key, lines).lines]
    /\ UNCHANGED <<bad, hubOps, opsNews, node, extra, alive, eventSeq, flow, fl, db, swept>>

\* Close only stops new messages.
CloseSink ==
    /\ ~closed
    /\ closed' = TRUE
    /\ UNCHANGED <<bad, hubOps, opsNews, dirty, dropped, stopped, writing, final, left,
                   fl, db, screen, swept, news>>

\* Run refreshes heartbeatAt between two flushes.
Heartbeat ==
    /\ fl["run"].pc = "idle" /\ Heard
    /\ Marks({Meta})
    /\ UNCHANGED <<bad, hubOps, opsNews, node, pending, extra, alive, eventSeq, flow, fl, db,
                   screen, swept>>

------------------------------------------------------------------------------
(* A flush.                                                                *)

FlusherTo(f, pc) == fl' = [fl EXCEPT ![f].pc = pc]

\* A flush that ends lets its batch go; FinalFlush is not repeated.
Over(f, how) ==
    /\ fl' = [fl EXCEPT ![f] = Idle]
    /\ final' = IF f = "final" THEN how ELSE final

Begins(f) == IF f = "run" THEN fl[f].pc = "idle" /\ ~stopped ELSE fl[f].pc = "begin"

\* take, with the lock released: the op list is built from the hub's registry.
BuildOps(f) ==
    /\ Begins(f) /\ mark[Ops] # 0
    /\ fl' = [fl EXCEPT ![f] = FlusherAt("take", hubOps, <<>>, <<>>, {})]
    /\ UNCHANGED <<bad, hubOps, opsNews, dirty, flow, db, screen, swept, news>>

\* framePaths: a keyframe is the whole node, a delta its rows.
FramePaths(p) == IF pending[p].key
                 THEN {<<"frame", p>>}
                 ELSE {<<"row", p, y>> : y \in {z \in Rows : pending[p].lines[z] # None}}

ValueOf(q, ops) ==
    CASE q = Meta -> alive
      [] q = Ops -> ops
      [] q[1] = "node" -> node[q[2]]
      [] q[1] = "frame" -> pending[q[2]].lines
      [] q[1] = "row" -> pending[q[2]].lines[q[3]]
      [] OTHER -> extra[q]

\* Mutant: a frame that the bucket has no token for is never taken.
ShownNever(f, waiting) == {{}}

\* Each frame is taken, in an order of the map's choosing, while there is a token
\* left.  The bucket holds a second's worth, and the last flush has it filled.
Shown(f, waiting) ==
    {S \in SUBSET waiting : /\ Cardinality(S) <= PerSec
                            /\ f = "final" => S = waiting \/ Cardinality(S) = PerSec}

\* take, under the lock: everything dirty, then frames while the budget holds.
Take(f) ==
    LET due == {i \in Items \ Frames : mark[i] # 0 /\ (i = Ops => fl[f].ops # None)}
        waiting == {i \in Frames : mark[i] # 0}
    IN /\ fl[f].pc = "take" \/ (Begins(f) /\ mark[Ops] = 0)
       /\ \E shown \in Shown(f, waiting) :
            LET took == due \cup shown
                paths == (due \cup UNION {FramePaths(i[2]) : i \in shown}) \ dropped
            IN IF paths = {}
               THEN Over(f, "ok")
               ELSE /\ fl' = [fl EXCEPT ![f] =
                                 FlusherAt("patch", @.ops, [q \in paths |-> ValueOf(q, @.ops)],
                                           [i \in took |-> mark[i]], {})]
                    /\ UNCHANGED final
       /\ UNCHANGED <<bad, hubOps, opsNews, dirty, dropped, closed, stopped, writing, left,
                      db, screen, swept, news>>

\* What the database holds once a multi-path PATCH has landed.
Landed(d, pay) ==
    [l \in Leaves |->
        IF l \in DOMAIN pay THEN pay[l]
        ELSE IF l[1] = "row" /\ <<"frame", l[2]>> \in DOMAIN pay
             THEN pay[<<"frame", l[2]>>][l[3]]
             ELSE d[l]]
Only(pay, q) == [r \in {q} |-> pay[q]]

\* Mutant: a flush that succeeds clears what it took, whatever was written meanwhile.
GoneAll(f) == DOMAIN fl[f].took

\* sweep: what Write touched during the request keeps its newer stamp.
Gone(f) == {i \in DOMAIN fl[f].took : mark[i] = fl[f].took[i]}
Sweep(f) ==
    /\ mark' = [i \in Items |-> IF i \in Gone(f) THEN 0 ELSE mark[i]]
    /\ extra' = [e \in Extras |-> IF e \in Gone(f) THEN None ELSE extra[e]]
    /\ pending' = [p \in Panes |-> IF <<"frame", p>> \in Gone(f) THEN NoFrame ELSE pending[p]]
    /\ Over(f, "ok")
    /\ UNCHANGED <<bad, hubOps, opsNews, node, alive, eventSeq, dropped, closed, stopped,
                   writing, left, screen, swept, news>>

\* The database takes the whole batch.  (What is written between its answer and the
\* sweep might as well have been written before it.)
PatchLands(f) ==
    /\ fl[f].pc = "patch" /\ DOMAIN fl[f].pay \cap bad = {}
    /\ db' = Landed(db, fl[f].pay)
    /\ Sweep(f)

\* One path is unacceptable, so the whole batch is refused.
PatchRefused(f) ==
    /\ DOMAIN fl[f].pay \cap bad # {}
    /\ fl[f].pc = "patch"
    /\ fl' = [fl EXCEPT ![f] = FlusherAt("each", @.ops, @.pay, @.took, DOMAIN @.pay)]
    /\ UNCHANGED <<bad, hubOps, opsNews, dirty, flow, db, screen, swept, news>>

\* An error, a timeout or a lost answer: nothing is cleared, whether or not it landed.
PatchFails(f) ==
    /\ fl[f].pc = "patch"
    /\ \/ UNCHANGED db
       \/ DOMAIN fl[f].pay \cap bad = {} /\ db' = Landed(db, fl[f].pay)
    /\ Over(f, "failed")
    /\ UNCHANGED <<bad, hubOps, opsNews, dirty, dropped, closed, stopped, writing, left,
                   screen, swept, news>>

\* retryIndividually: each path alone.  The paths of a batch are disjoint, so the
\* order, which is the map's, shows in nothing but what is there halfway.
Alone(f, q) ==
    /\ fl[f].pc = "each" /\ q = CHOOSE r \in fl[f].todo : TRUE
    /\ fl' = [fl EXCEPT ![f].todo = @ \ {q}]
    /\ UNCHANGED <<bad, hubOps, opsNews, node, pending, alive, eventSeq, closed, stopped,
                   writing, final, left, screen, news>>

AloneLands(f, q) ==
    /\ q \notin bad
    /\ db' = Landed(db, Only(fl[f].pay, q))
    /\ Alone(f, q)
    /\ UNCHANGED <<extra, mark, dropped, swept>>

AloneFails(f, q) ==
    /\ swept' = TRUE
    /\ Alone(f, q)
    /\ UNCHANGED <<extra, mark, dropped, db>>

Drop(f, q) ==
    /\ q \in bad
    /\ dropped' = dropped \cup {q}
    /\ extra' = IF q \in Extras THEN [extra EXCEPT ![q] = None] ELSE extra
    /\ mark' = IF q \in Extras THEN [mark EXCEPT ![q] = 0] ELSE mark
    /\ Alone(f, q)
    /\ UNCHANGED <<swept, db>>

\* What could not be sent alone is swept with the rest.
AloneOver(f) ==
    /\ fl[f].pc = "each" /\ fl[f].todo = {}
    /\ Sweep(f) /\ UNCHANGED db

\* Run notices Stop between two flushes.
RunExits ==
    /\ stopped /\ fl["run"].pc = "idle"
    /\ FlusherTo("run", "off")
    /\ UNCHANGED <<bad, hubOps, opsNews, dirty, flow, db, screen, swept, news>>

\* Adapter.Finalize, after hub.Finalize has ended the Sub: stop the flusher...
Stop ==
    /\ final = "no" /\ closed /\ ~writing
    /\ final' = "stopping" /\ stopped' = TRUE
    /\ UNCHANGED <<bad, hubOps, opsNews, dirty, dropped, closed, writing, left, fl, db,
                   screen, swept, news>>

\* ... wait for it, no longer than d, and make the last flush.
FinalFlush ==
    /\ final = "stopping"
    /\ final' = "flushing"
    /\ left' = (fl["run"].pc \notin {"idle", "off"})
    /\ alive' = FALSE
    /\ Marks({Meta})
    /\ FlusherTo("final", "begin")
    /\ UNCHANGED <<bad, hubOps, opsNews, node, pending, extra, eventSeq, dropped, closed, stopped,
                   writing, db, screen, swept, news>>

Flush(f) ==
    \/ BuildOps(f) \/ Take(f) \/ PatchLands(f) \/ PatchRefused(f) \/ PatchFails(f) \/ AloneOver(f)
    \/ \E q \in fl[f].todo : AloneLands(f, q) \/ AloneFails(f, q) \/ Drop(f, q)

Written ==
    \/ \E p \in Panes, entry \in Entries : Aggregate(p, entry) \/ PaneEvent(p, entry)
    \/ OpsEvent \/ RecordEvent
    \/ \E p \in Panes, key \in BOOLEAN, lines \in [Rows -> Vals \cup {None}] : Frame(p, key, lines)

MirrorNext ==
    \/ HubChanges \/ Written \/ CloseSink \/ Heartbeat
    \/ \E f \in Flushers : Flush(f)
    \/ RunExits \/ Stop \/ FinalFlush

------------------------------------------------------------------------------
(* What the mirror owes a reader of the database.                          *)

\* A path the database will not take is given up, with what is below it; so is, in
\* this code, an item whose own retry failed, and everything if Finalize has left a
\* request in flight.
GivenUp(i) == i \in dropped \/ swept \/ left \/ (i[1] = "event" /\ closed)

InRing(s) == s <= eventSeq /\ s > eventSeq - eventRing

\* The database says of an item what the mirror was last told.
Current(i) ==
    CASE i = Meta -> db[Meta] = alive
      [] i[1] = "node" -> db[i] = node[i[2]]
      [] i[1] = "frame" -> \A y \in Rows : db[<<"row", i[2], y>>] = screen[i[2]][y]
      [] OTHER -> db[i] = IF InRing(i[2]) THEN "event" ELSE None

Told == {Meta} \cup Nodes \cup Frames \cup ({"event"} \X (1..MaxEvents))

\* mirror.go, 23-28: "On success it clears exactly the items whose stamp is unchanged
\* ... On failure it clears nothing. That is what makes a failed flush lose no state."
\* What is not dirty is in the database: whatever was written during the request,
\* however often a flush failed, or landed without an answer.
CleanIsCurrent == \A i \in Told : mark[i] = 0 => Current(i) \/ GivenUp(i)

\* recordEvent, 409-411: the trim is in the same PATCH as the newest event, "so the
\* ring never grows past its bound even for one tick".  Paths sent one by one are
\* the exception.
RingBounded ==
    \/ Cardinality({s \in 1..MaxEvents : db[<<"event", s>>] # None}) <= eventRing
    \/ \E s \in 1..MaxEvents : GivenUp(<<"event", s>>)
    \/ \E f \in Flushers : fl[f].pc = "each"

\* Adapter.Finalize, 290-296: after a final flush that got its answer the database
\* has the end state of every pane, and says that the session is over.  (The bucket is
\* filled once for it, 853: of more frames than it holds the rest is shed.)
Shed(i) == i \in Frames /\ mark[i] # 0 /\ Cardinality(Frames) > PerSec
FinalPicture ==
    final = "ok" => \A i \in Told : Current(i) \/ GivenUp(i) \/ Shed(i)

\* The database is never behind what is marked, nor at the end, nor over its bound.
PictureIsCurrent == CleanIsCurrent /\ FinalPicture /\ RingBounded

==============================================================================
