------------------------------ MODULE HubCall ------------------------------
(***************************************************************************)
(* Calls and delivery lanes of the hub (src/hub/call.go, lane.go, and Call *)
(* and Quiesce of hub.go).  A request that reaches a pane is queued on the *)
(* lane of its (Sub, pane) and run by that lane's one drainer; any other   *)
(* runs on a goroutine of its own, sixteen to a connection.                *)
(*                                                                         *)
(* Every request is the goroutine that calls Sub.Call for it.  A request   *)
(* made after another one was accepted carries that one in its `before`.   *)
(* Lane objects come from a finite pool; one that is dead and that nobody  *)
(* points at is garbage, and is allocated again.                           *)
(***************************************************************************)
EXTENDS Integers, Sequences, FiniteSets, Functions

CONSTANTS
    Reqs,         \* requests
    Subs,         \* connections
    Panes,        \* panes a request may be delivered to
    NoPane,       \* the pane of an op that is not lane-bound
    SubOf,        \* the connection of each request
    PaneOf,       \* the lane key of each request (laneKeyFor)
    Lanes,        \* lane objects
    NoLane,
    NoReq,
    LaneMax,      \* laneMaxItems
    InFlightMax,  \* maxInFlightCalls
    TriesMax,     \* attempts of Deliver
    Impatient,    \* requests whose caller's budget may end
    Leaving,      \* connections that may go
    Ends          \* Quiesce is called

ASSUME CallBounds ==
    /\ SubOf \in [Reqs -> Subs] /\ PaneOf \in [Reqs -> Panes \cup {NoPane}]
    /\ NoPane \notin Panes /\ NoLane \notin Lanes /\ NoReq \notin Reqs
    /\ LaneMax \in Nat \ {0} /\ InFlightMax \in Nat \ {0} /\ TriesMax \in Nat \ {0}
    /\ Impatient \subseteq Reqs /\ Leaving \subseteq Subs
    /\ Ends \in BOOLEAN /\ Lanes # {}

VARIABLES
    req,        \* each request: place, lane in hand, attempts left, `before`
    answers,    \* the answers each request has been given, in order
    expired,    \* requests whose caller's ctx is done
    cancelled,  \* the running ones whose run context has been cancelled
    calls,      \* Hub.calls and Hub.inflight
    closing,    \* Hub.closing
    hubLanes,   \* Hub.lanes
    lane,       \* the lane objects
    sub,        \* each Sub: gone, its lanes map, its call slots
    leave,      \* closeLanes of each Sub: its place and the lanes still to tell
    quiescer    \* the goroutine inside Quiesce

vars == <<req, answers, expired, cancelled, calls, closing, hubLanes, lane, sub,
          leave, quiescer>>

NoneLane == [pc |-> "none", key |-> <<NoReq, NoPane>>, q |-> << >>, run |-> NoReq,
             wake |-> FALSE, closed |-> FALSE, quiesced |-> FALSE,
             retired |-> FALSE, cancelled |-> FALSE]

Dead == [NoneLane EXCEPT !.pc = "dead", !.retired = TRUE]

Key(r) == <<SubOf[r], PaneOf[r]>>
Siblings(r) == {q \in Reqs : Key(q) = Key(r)}

Init ==
    /\ req = [r \in Reqs |-> [pc |-> "new", lane |-> NoLane, tries |-> TriesMax,
                               before |-> {}]]
    /\ answers = [r \in Reqs |-> << >>]
    /\ expired = {} /\ cancelled = {} /\ calls = {}
    /\ closing = FALSE /\ hubLanes = {}
    /\ lane = [l \in Lanes |-> NoneLane]
    /\ sub = [s \in Subs |-> [gone |-> FALSE, slots |-> 0,
                               lanes |-> [p \in Panes |-> NoLane]]]
    /\ leave = [s \in Subs |-> [pc |-> "open", todo |-> {}]]
    /\ quiescer = [pc |-> "idle", calls |-> {}, lanes |-> {}, todo |-> {},
                   at |-> NoLane, drop |-> << >>]

-----------------------------------------------------------------------------
At(r, pc) == req[r].pc = pc
GoTo(r, pc) == req' = [req EXCEPT ![r].pc = pc]
With(r, pc, l) == req' = [req EXCEPT ![r] = [@ EXCEPT !.pc = pc, !.lane = l]]

Over == [pc |-> "done", lane |-> NoLane, tries |-> TriesMax, before |-> {}]
End(r) == req' = [req EXCEPT ![r] = Over]

\* answerer.send: only the first one is given.
Told(r, a) == IF answers[r] = << >> THEN [answers EXCEPT ![r] = << a >>] ELSE answers

(* Sub.Call.  A lane-bound request goes to Deliver; any other needs a slot. *)
callVars == <<expired, cancelled, calls, closing, hubLanes, lane, leave, quiescer>>

\* The requests of this lane that were accepted before r is made.
Accepted(r) == {q \in Siblings(r) : req[q].pc \in {"queued", "taken", "running", "returned", "done"}}

HasSlot(s) == sub[s].slots < InFlightMax

\* Mutant: a call that shutdown refused keeps its slot.
SlotKept(r) == sub[SubOf[r]].slots - IF closing THEN 0 ELSE 1

SlotFreed(r) == sub[SubOf[r]].slots - 1

CallPlain(r) ==
    LET s == SubOf[r] IN
    /\ At(r, "new") /\ PaneOf[r] = NoPane
    /\ IF HasSlot(s)
       THEN /\ sub' = [sub EXCEPT ![s].slots = @ + 1]
            /\ GoTo(r, "taken")
            /\ UNCHANGED answers
       ELSE /\ End(r) /\ answers' = Told(r, "busy")
            /\ UNCHANGED sub
    /\ UNCHANGED callVars

CallOnLane(r) ==
    /\ At(r, "new") /\ PaneOf[r] # NoPane
    /\ req' = [req EXCEPT ![r] = [@ EXCEPT !.pc = "look", !.before = Accepted(r)]]
    /\ UNCHANGED <<callVars, answers, sub>>

\* laneFor, up to its first unlock.
LookUp(r) ==
    LET s == SubOf[r] IN
    /\ At(r, "look")
    /\ \/ sub[s].gone /\ End(r) /\ answers' = Told(r, "not_ready")
       \/ /\ ~sub[s].gone /\ UNCHANGED answers
          /\ LET l == sub[s].lanes[PaneOf[r]] IN
             With(r, IF l = NoLane THEN "open" ELSE "push", l)
    /\ UNCHANGED <<callVars, sub>>

\* Garbage: nobody points at the lane object.
Unused(l) ==
    /\ lane[l].pc \in {"none", "dead"} /\ l \notin hubLanes
    /\ \A r \in Reqs : req[r].lane # l
    /\ \A s \in Subs : l \notin leave[s].todo /\ \A p \in Panes : sub[s].lanes[p] # l
    /\ l \notin quiescer.lanes \cup quiescer.todo

\* hub.addLane, of a new lane.
OpenLane(r) ==
    /\ At(r, "open")
    /\ \/ closing /\ End(r) /\ answers' = Told(r, "not_ready")
          /\ UNCHANGED <<hubLanes, lane>>
       \/ /\ ~closing /\ UNCHANGED answers
          /\ \E l \in Lanes :
                /\ Unused(l)
                /\ hubLanes' = hubLanes \cup {l}
                /\ lane' = [lane EXCEPT ![l] = [NoneLane EXCEPT !.pc = "fresh", !.key = Key(r)]]
                /\ With(r, "insert", l)
    /\ UNCHANGED <<expired, cancelled, calls, closing, sub, leave, quiescer>>

\* hub.dropLane.
OutOfHub(l) == hubLanes \ {l}

\* The second look under sub.mu: the Sub may have gone, or another caller won.
Lost(r) == sub[SubOf[r]].lanes[PaneOf[r]] # NoLane

InsertLane(r) ==
    LET s == SubOf[r]  l == req[r].lane IN
    /\ At(r, "insert")
    /\ \/ /\ ~sub[s].gone /\ ~Lost(r)
          /\ sub' = [sub EXCEPT ![s].lanes = [@ EXCEPT ![PaneOf[r]] = l]]
          /\ lane' = [lane EXCEPT ![l].pc = "look"]
          /\ GoTo(r, "push")
          /\ UNCHANGED <<answers, hubLanes>>
       \/ /\ sub[s].gone \/ Lost(r)
          /\ hubLanes' = OutOfHub(l)
          /\ lane' = [lane EXCEPT ![l] = Dead]
          /\ UNCHANGED sub
          /\ IF sub[s].gone
             THEN /\ End(r)
                  /\ answers' = Told(r, "not_ready")
             ELSE /\ With(r, "push", sub[s].lanes[PaneOf[r]])
                  /\ UNCHANGED answers
    /\ UNCHANGED <<expired, cancelled, calls, closing, leave, quiescer>>

HasRoom(l) == Len(lane[l].q) < LaneMax

\* lane.push; a retired lane sends the caller round again.
Push(r) ==
    LET l == req[r].lane IN
    /\ At(r, "push")
    /\ \/ /\ lane[l].retired
          /\ GoTo(r, "forget") /\ UNCHANGED <<answers, lane>>
       \/ /\ ~lane[l].retired /\ (lane[l].quiesced \/ lane[l].closed)
          /\ End(r)
          /\ answers' = Told(r, "not_ready") /\ UNCHANGED lane
       \/ /\ ~(lane[l].retired \/ lane[l].quiesced \/ lane[l].closed)
          /\ IF HasRoom(l)
             THEN /\ lane' = [lane EXCEPT ![l] = [@ EXCEPT !.q = Append(lane[l].q, r), !.wake = TRUE]]
                  /\ req' = [req EXCEPT ![r] = [Over EXCEPT !.pc = "queued", !.before = req[r].before]]
                  /\ UNCHANGED answers
             ELSE /\ End(r)
                  /\ answers' = Told(r, "busy") /\ UNCHANGED lane
    /\ UNCHANGED <<expired, cancelled, calls, closing, hubLanes, sub, leave, quiescer>>

Forgotten(s, p, l) == IF sub[s].lanes[p] = l
                      THEN [sub EXCEPT ![s].lanes = [@ EXCEPT ![p] = NoLane]] ELSE sub

\* Sub.dropLane by the caller that met a retired lane.
Forget(r) ==
    /\ At(r, "forget")
    /\ sub' = Forgotten(SubOf[r], PaneOf[r], req[r].lane)
    /\ IF req[r].tries > 1
       THEN req' = [req EXCEPT ![r] = [@ EXCEPT !.tries = req[r].tries - 1,
                                             !.pc = "look", !.lane = NoLane]]
            /\ UNCHANGED answers
       ELSE End(r)
            /\ answers' = Told(r, "busy")
    /\ UNCHANGED callVars

-----------------------------------------------------------------------------
(* The drainer of a lane.                                                  *)
drainVars == <<answers, expired, cancelled, calls, closing, leave, quiescer>>

Looking(l) == lane[l].pc = "look"

\* next and run: the item is counted as running under the lane's lock.
Take(l) ==
    /\ Looking(l) /\ ~lane[l].quiesced /\ lane[l].q # << >>
    /\ lane' = [lane EXCEPT ![l] = [@ EXCEPT !.q = Tail(lane[l].q),
                                          !.run = Head(lane[l].q), !.pc = "run"]]
    /\ GoTo(Head(lane[l].q), "taken")
    /\ UNCHANGED <<drainVars, hubLanes, sub>>

Idle(l) ==
    /\ Looking(l) /\ ~lane[l].quiesced /\ lane[l].q = << >> /\ ~lane[l].closed
    /\ lane' = [lane EXCEPT ![l].pc = "wait"]
    /\ UNCHANGED <<drainVars, req, hubLanes, sub>>

WakeUp(l) ==
    /\ lane[l].pc = "wait" /\ (lane[l].wake \/ lane[l].cancelled)
    /\ lane' = [lane EXCEPT ![l] = [@ EXCEPT !.pc = "look", !.wake = FALSE]]
    /\ UNCHANGED <<drainVars, req, hubLanes, sub>>

\* The idle timer fires, and the lock is taken again before retiring.
\* Mutant: the queue is not looked at again.
IdledOutBlindly(l) == TRUE

IdledOut(l) == lane[l].q = << >>

IdleOut(l) ==
    /\ lane[l].pc = "wait"
    /\ lane' = IF IdledOut(l)
               THEN [lane EXCEPT ![l] = [@ EXCEPT !.pc = "retire", !.retired = TRUE]]
               ELSE [lane EXCEPT ![l].pc = "look"]
    /\ UNCHANGED <<drainVars, req, hubLanes, sub>>

Drained(l) == lane[l].q = << >> /\ lane[l].closed

StopLane(l) ==
    /\ Looking(l) /\ (lane[l].quiesced \/ Drained(l))
    /\ lane' = [lane EXCEPT ![l] = [@ EXCEPT !.pc = "retire", !.retired = TRUE]]
    /\ UNCHANGED <<drainVars, req, hubLanes, sub>>

\* retire: out of the Sub's map, then out of the hub's set.
RetireFromSub(l) ==
    /\ lane[l].pc = "retire"
    /\ lane' = [lane EXCEPT ![l] = [@ EXCEPT !.pc = "retire2", !.cancelled = TRUE]]
    /\ sub' = Forgotten(lane[l].key[1], lane[l].key[2], l)
    /\ UNCHANGED <<drainVars, req, hubLanes>>

RetireFromHub(l) ==
    /\ lane[l].pc = "retire2"
    /\ lane' = [lane EXCEPT ![l] = Dead]
    /\ hubLanes' = OutOfHub(l)
    /\ UNCHANGED <<drainVars, req, sub>>

Drain(l) ==
    \/ Take(l) \/ Idle(l) \/ WakeUp(l) \/ StopLane(l)
    \/ RetireFromSub(l) \/ RetireFromHub(l)

-----------------------------------------------------------------------------
(* Hub.Call, and the two ways an item ends.                                *)
runVars == <<expired, closing, hubLanes, leave, quiescer>>
RunnerOf(r) == {l \in Lanes : lane[l].run = r}

\* Registered under hub.mu, where closing is looked at.
Refused == closing

Enter(r) ==
    /\ At(r, "taken")
    /\ IF Refused
       THEN GoTo(r, "returned") /\ UNCHANGED <<calls, cancelled>>
       ELSE /\ GoTo(r, "running")
            /\ calls' = calls \cup {r}
            /\ cancelled' = IF \/ \E l \in RunnerOf(r) : lane[l].cancelled
                               \/ PaneOf[r] = NoPane /\ r \in expired
                            THEN cancelled \cup {r} ELSE cancelled
    /\ UNCHANGED <<runVars, answers, lane, sub>>

Return(r) ==
    /\ At(r, "running")
    /\ GoTo(r, "returned")
    /\ calls' = calls \ {r} /\ cancelled' = cancelled \ {r}
    /\ UNCHANGED <<runVars, answers, lane, sub>>

\* The outcome is answered; the lane moves on, or the slot is free again.
Finish(r) ==
    /\ At(r, "returned") /\ End(r)
    /\ answers' = Told(r, "done")
    /\ IF PaneOf[r] = NoPane
       THEN sub' = [sub EXCEPT ![SubOf[r]].slots = SlotFreed(r)] /\ UNCHANGED lane
       ELSE /\ lane' = [l \in Lanes |-> IF lane[l].run = r
                          THEN [lane[l] EXCEPT !.run = NoReq, !.pc = "look"] ELSE lane[l]]
            /\ UNCHANGED sub
    /\ UNCHANGED <<runVars, calls, cancelled>>

\* The caller's ctx ends: its own op is cancelled, a lane's is not.
Expire(r) ==
    /\ r \in Impatient /\ ~At(r, "new") /\ answers[r] = << >> /\ r \notin expired
    /\ expired' = expired \cup {r}
    /\ cancelled' = IF PaneOf[r] = NoPane THEN cancelled \cup (calls \cap {r}) ELSE cancelled
    /\ UNCHANGED <<req, answers, calls, closing, hubLanes, lane, sub, leave, quiescer>>

\* An item inside Run answers `timeout` and goes on waiting for its op.
\* Mutant: Run returns without waiting for the op.
RunGivesUp(r) == [l \in Lanes |-> IF lane[l].run = r
                    THEN [lane[l] EXCEPT !.run = NoReq, !.pc = "look"] ELSE lane[l]]

RunWaits(r) == lane

TimeOut(r) ==
    /\ r \in expired /\ PaneOf[r] # NoPane /\ answers[r] = << >>
    /\ req[r].pc \in {"taken", "running", "returned"}
    /\ answers' = Told(r, "timeout") /\ lane' = RunWaits(r)
    /\ UNCHANGED <<runVars, req, calls, cancelled, sub>>

-----------------------------------------------------------------------------
(* A Sub goes: Close and kill tell its lanes, finalize does not.           *)
leaveVars == <<req, answers, expired, cancelled, calls, closing, hubLanes, quiescer>>

Finalize(s) ==
    /\ s \in Leaving /\ ~sub[s].gone
    /\ sub' = [sub EXCEPT ![s].gone = TRUE]
    /\ UNCHANGED <<leaveVars, lane, leave>>

Close(s) ==
    /\ s \in Leaving /\ leave[s].pc = "open"
    /\ sub' = [sub EXCEPT ![s].gone = TRUE]
    /\ leave' = [leave EXCEPT ![s].pc = "going"]
    /\ UNCHANGED <<leaveVars, lane>>

CloseLanes(s) ==
    /\ leave[s].pc = "going"
    /\ leave' = [leave EXCEPT ![s] = [pc |-> "gone",
                   todo |-> {sub[s].lanes[p] : p \in Panes} \ {NoLane}]]
    /\ UNCHANGED <<leaveVars, lane, sub>>

CloseLane(s, l) ==
    /\ l \in leave[s].todo
    /\ leave' = [leave EXCEPT ![s].todo = @ \ {l}]
    /\ lane' = [lane EXCEPT ![l] = [@ EXCEPT !.closed = TRUE, !.wake = TRUE]]
    /\ UNCHANGED <<leaveVars, sub>>

-----------------------------------------------------------------------------
(* Quiesce.                                                                *)
quietVars == <<expired, calls, sub, leave>>

QuiesceBegin ==
    /\ Ends /\ ~closing /\ closing' = TRUE
    /\ quiescer' = [quiescer EXCEPT !.pc = "cancel", !.calls = calls]
    /\ UNCHANGED <<quietVars, req, answers, cancelled, hubLanes, lane>>

QuiesceCancel ==
    /\ quiescer.pc = "cancel"
    /\ cancelled' = cancelled \cup (calls \cap quiescer.calls)
    /\ quiescer' = [quiescer EXCEPT !.pc = "lanes", !.calls = {}]
    /\ UNCHANGED <<quietVars, req, answers, closing, hubLanes, lane>>

LaneSet ==
    /\ quiescer.pc = "lanes"
    /\ quiescer' = [quiescer EXCEPT !.pc = "empty", !.lanes = hubLanes, !.todo = hubLanes]
    /\ UNCHANGED <<quietVars, req, answers, cancelled, closing, hubLanes, lane>>

\* lane.quiesce: emptied under its lock, then the items are told.
QuiesceLane(l) ==
    /\ quiescer.pc = "empty" /\ l \in quiescer.todo
    /\ quiescer' = [quiescer EXCEPT !.todo = @ \ {l}, !.pc = "discard",
                              !.at = l, !.drop = lane[l].q]
    /\ lane' = [lane EXCEPT ![l] = [@ EXCEPT !.quiesced = TRUE, !.q = << >>]]
    /\ UNCHANGED <<quietVars, req, answers, cancelled, closing, hubLanes>>

DoneWith(drop) == [r \in Reqs |-> IF r \in Range(drop)
                                  THEN Over ELSE req[r]]

ToldAll(drop) == [r \in Reqs |-> IF r \in Range(drop) THEN Told(r, "discarded")[r]
                                 ELSE answers[r]]

\* Cancel, Discard for each, signal.
Discard ==
    LET l == quiescer.at IN
    /\ quiescer.pc = "discard"
    /\ req' = DoneWith(quiescer.drop) /\ answers' = ToldAll(quiescer.drop)
    /\ lane' = [lane EXCEPT ![l] = [@ EXCEPT !.cancelled = TRUE, !.wake = TRUE]]
    /\ cancelled' = cancelled \cup (calls \cap {lane[l].run})
    /\ quiescer' = [quiescer EXCEPT !.pc = "empty", !.at = NoLane, !.drop = << >>]
    /\ UNCHANGED <<quietVars, closing, hubLanes>>

\* Everything has stopped, or the grace is over.
QuiesceWait ==
    /\ quiescer.pc = "empty" /\ quiescer.todo = {}
    /\ quiescer' = [quiescer EXCEPT !.pc = "waiting"]
    /\ UNCHANGED <<quietVars, req, answers, cancelled, closing, hubLanes, lane>>

\* Mutant: an item between next and Call is not waited for.
StoppedCalls == calls = {}

Stopped == calls = {} /\ \A l \in quiescer.lanes : lane[l].run = NoReq

Outcomes == {"stopped", "grace"}

QuiesceReturn ==
    /\ quiescer.pc = "waiting"
    /\ \E how \in Outcomes :
          /\ how = "stopped" => Stopped
          /\ quiescer' = [quiescer EXCEPT !.pc = how, !.lanes = {}]
    /\ UNCHANGED <<quietVars, req, answers, cancelled, closing, hubLanes, lane>>

Quiescing == QuiesceCancel \/ LaneSet \/ Discard \/ QuiesceWait \/ QuiesceReturn
             \/ \E l \in Lanes : QuiesceLane(l)

-----------------------------------------------------------------------------
Deliver(r) == LookUp(r) \/ OpenLane(r) \/ InsertLane(r) \/ Push(r) \/ Forget(r)
Ending(r) == Enter(r) \/ Finish(r)

Next ==
    \/ \E r \in Reqs : CallPlain(r) \/ CallOnLane(r) \/ Deliver(r) \/ Ending(r)
                       \/ Return(r) \/ Expire(r) \/ TimeOut(r)
    \/ \E l \in Lanes : Drain(l) \/ IdleOut(l)
    \/ \E s \in Subs : Finalize(s) \/ Close(s) \/ CloseLanes(s)
                       \/ \E l \in Lanes : CloseLane(s, l)
    \/ QuiesceBegin \/ Quiescing

Spec == Init /\ [][Next]_vars

\* What goes on by itself: goroutines run on, and timers fire.
Running ==
    \/ \E r \in Reqs : Deliver(r) \/ Ending(r) \/ TimeOut(r)
    \/ \E l \in Lanes : Drain(l) \/ IdleOut(l)
    \/ \E s \in Subs : CloseLanes(s) \/ \E l \in Lanes : CloseLane(s, l)
    \/ Quiescing

\* ... while the ops that run return, too.
Working == Running \/ \E r \in Reqs : Return(r)

\* Nothing goes on by itself: the guards of Running, each denied, ...
AtRest ==
    /\ \A r \in Reqs :
         /\ req[r].pc \notin {"look", "insert", "push", "forget", "taken", "returned"}
         /\ At(r, "open") => ~closing /\ \A l \in Lanes : ~Unused(l)
         /\ ~(At(r, "running") /\ r \in expired /\ PaneOf[r] # NoPane /\ answers[r] = << >>)
    /\ \A l \in Lanes : lane[l].pc \notin {"look", "wait", "retire", "retire2"}
    /\ \A s \in Subs : leave[s].pc # "going" /\ leave[s].todo = {}
    /\ quiescer.pc \in {"idle", "stopped", "grace"}

\* ... and no op runs.
OpsAtRest == AtRest /\ \A r \in Reqs : ~At(r, "running")

-----------------------------------------------------------------------------
OnLane(r) == PaneOf[r] # NoPane

(* One connection's writes to one pane never overlap: even when a lane     *)
(* retires while a request is on its way to it, when two callers open one  *)
(* at once, or when a caller gives up waiting.  (laneFor, drain,           *)
(* callOnLane.)                                                            *)
OneAtATime ==
    \A r, q \in calls : r # q /\ Key(r) = Key(q) => ~OnLane(r)

(* They run in submission order: a request is delivered only when every    *)
(* one accepted before it was made is over.                                *)
LaneOrder == \A r \in calls : OnLane(r) => \A q \in req[r].before : At(q, "done")

(* A request is answered once, and none ends without its answer.           *)
(* (answerer, Discard, callOnLane.)                                        *)
AnsweredOnce ==
    \A r \in Reqs : Len(answers[r]) <= 1 /\ (At(r, "done") => Len(answers[r]) = 1)

(* The call slots are exactly the ops a connection has running.            *)
(* (takeCallSlot, freeCallSlot.)                                           *)
SlotsExact ==
    \A s \in Subs :
        /\ sub[s].slots <= InFlightMax
        /\ sub[s].slots = Cardinality({r \in Reqs : SubOf[r] = s /\ ~OnLane(r)
                                          /\ req[r].pc \in {"taken", "running", "returned"}})

(* Quiesce misses nothing: what still runs once it waits has been told to *)
(* stop, and when it returns before its grace is over nothing runs, ever   *)
(* again.  (Call's check, next's count, laneSet.)                          *)
QuiescedIsQuiet ==
    /\ quiescer.pc \in {"waiting", "stopped", "grace"} => calls \subseteq cancelled
    /\ quiescer.pc = "stopped" => calls = {} /\ \A l \in Lanes : lane[l].run = NoReq

\* A lane is a lane: one at a time, and in the order of submission.
LanesSerial == OneAtATime /\ LaneOrder

\* However a request ends, its caller hears once and its slot is given back.
EndsExactly == AnsweredOnce /\ SlotsExact

(* Nothing accepted is stranded.  When all that goes on by itself has come *)
(* to its end, every request has been answered, whatever has become of its *)
(* connection, and every lane is gone; and even behind ops that never      *)
(* return, a shutdown that began has returned and told whatever was queued. *)
(* Every request, lane and timer has finitely many steps, so this is where  *)
(* each of them ends up.  (push, idleOut, next, retire, quiesce, Quiesce.)  *)
NothingIsStranded ==
    /\ OpsAtRest =>
         hubLanes = {} /\ \A r \in Reqs : ~At(r, "new") => answers[r] # << >>
    /\ AtRest /\ closing =>
         /\ quiescer.pc \in {"stopped", "grace"}
         /\ \A r \in Reqs : At(r, "queued") => answers[r] # << >>
=============================================================================
