------------------------------- MODULE HubBus -------------------------------
(***************************************************************************)
(* The hub's bus (src/hub/hub.go, sub.go, watch.go): subscribers, the      *)
(* writer goroutine each of them owns, Publish, the subscribe cut, watches *)
(* and their frame slots, PaneClosed and Finalize.                         *)
(*                                                                         *)
(* One action is one critical section of hub.mu or sub.mu, or one call     *)
(* made with neither held; between two of them every other goroutine may   *)
(* run.  hub.mu is not a variable: an action that takes its write side is  *)
(* one step, and can only be taken while no Publish is inside its read     *)
(* section (MuFree).                                                       *)
(***************************************************************************)
EXTENDS FrameSlots

CONSTANTS
    NoPane,       \* no pane at all
    NoCell,       \* a row no peer has been shown
    Subs,         \* subscribers, one per connection
    Publishers,   \* goroutines that publish events
    Reliable,     \* the subscribers whose peer reads: their writes never fail
    Silent,       \* the subscribers whose adapter watches with no reply (SSE)
    Leaving,      \* the subscribers whose adapter may close them
    Closable,     \* the panes that may be closed
    Ends,         \* the session ends: Finalize is called
    FifoMax,      \* fifoMaxMsgs
    BytesMax,     \* fifoMaxBytes
    NFinals,      \* how many finals Finalize is given
    MaxEvents,    \* bound: events published
    MaxRequests   \* bound: requests one connection makes

ASSUME BusBounds ==
    /\ FifoMax \in Nat \ {0} /\ BytesMax \in Nat \ {0}
    /\ NFinals \in Nat /\ MaxEvents \in Nat /\ MaxRequests \in Nat
    /\ Reliable \subseteq Subs /\ Silent \subseteq Subs
    /\ Leaving \subseteq Subs /\ Closable \subseteq Panes /\ Ends \in BOOLEAN
    /\ Publishers \cap Panes = {}
    /\ NoPane \notin Panes /\ NoCell \notin Cells

VARIABLES
    subs,          \* Hub.subs
    hubFinalized,  \* Hub.finalized
    pub,           \* every goroutine inside Publish: its message and progress
    fin,           \* Finalize's goroutine: its place, whom it has left, whom it saw
    sub,           \* the Sub structs
    wpc, cur,      \* each writer: where it is, and the message in its hands
    sinkOpen,      \* Sink.Close has not been called
    done,          \* Sub.done is closed
    adp,           \* each adapter's reader: its place, and the watch it is making
    watcher,       \* what the Streamer owes each (subscriber, pane)
    pane,          \* each pane, and how far ClosePane has got with it
    reap,          \* subscribers marked dead whose kill has not finished
    dropDue,       \* progress of dropWatches, which runs once
    published,     \* number of events whose Publish has begun
    client,        \* what each peer has read off its connection
    ghost          \* history the properties compare against

vars == <<subs, hubFinalized, pub, fin, sub, wpc, cur, sinkOpen, done, adp,
          watcher, pane, reap, dropDue, published, client, ghost>>

-----------------------------------------------------------------------------
\* Messages.  Plain ones carry what the properties tell apart and no payload.
Plain(kind, n, p) == [kind |-> kind, n |-> n, pane |-> p]

Aggregate        == Plain("head", 0, NoPane)
Event(i)    == Plain("event", i, NoPane)
ClosedEv(p) == Plain("pane_closed", 0, p)
Reply(i)    == Plain("reply", i, NoPane)
Watching(p) == Plain("watching", 0, p)     \* the answer to a watch
Refused(p)  == Plain("refused", 0, p)      \* its error
Left(p)     == Plain("left", 0, p)         \* the answer to an unwatch
Final(i)    == Plain("final", i, NoPane)
NoMsg       == Plain("none", 0, NoPane)

PlainMsg ==
    [kind : {"none", "head", "event", "pane_closed", "reply", "watching",
             "refused", "left", "final"},
     n : Nat, pane : Panes \cup {NoPane}]
FrameMsg == [kind : {"frame", "changed"}, pane : Panes, key : BOOLEAN, rows : Lines]
Msg == PlainMsg \cup FrameMsg

\* Bytes: a reply is the one message worth two units here.
Size(m) == IF m.kind = "reply" THEN 2 ELSE 1

Actors == Publishers \cup Panes
NoPub == [pc |-> "idle", msg |-> NoMsg, todo |-> {}, over |-> {}]

-----------------------------------------------------------------------------
\* sub.mu's critical sections, as the record each leaves behind.
NewSub ==
    [head |-> FALSE, fifo |-> << >>, bytes |-> 0, started |-> FALSE,
     closed |-> FALSE, finalized |-> FALSE, finals |-> << >>,
     failed |-> FALSE, torn |-> FALSE, dead |-> FALSE,
     slots |-> NoSlots, closedPanes |-> {}, wake |-> FALSE]

\* Mutant: nothing is queued for a Sub that has not been started.
AcceptsOnceStarted(r) == ~r.closed /\ ~r.finalized /\ ~r.dead /\ r.started

Accepts(r) == ~r.closed /\ ~r.finalized /\ ~r.dead

Fits(r, m) == Len(r.fifo) + 1 <= FifoMax /\ r.bytes + Size(m) <= BytesMax

\* A message nobody will read is dropped without complaint; one that does not
\* fit is an overflow.
Overflows(r, m) == Accepts(r) /\ ~Fits(r, m)

Queued(r, m) ==
    IF Accepts(r) /\ Fits(r, m)
    THEN [r EXCEPT !.fifo = Append(@, m), !.bytes = @ + Size(m), !.wake = TRUE]
    ELSE r

\* The gate of addSlot and Offer.
Open(r, p) == Accepts(r) /\ p \notin r.closedPanes

AllFinals == [i \in 1..NFinals |-> i]

Finalized(r) ==
    IF r.dead \/ r.finalized THEN r
    ELSE [r EXCEPT !.finalized = TRUE, !.fifo = << >>, !.bytes = 0,
                   !.slots = NoSlots, !.finals = AllFinals, !.wake = TRUE]

Accepted(s, g, m) ==
    IF Accepts(sub[s]) /\ Fits(sub[s], m)
    THEN [g EXCEPT ![s].accepted = @ \cup {m}] ELSE g

MuFree == \A a \in Actors : pub[a].pc # "loop"

Init ==
    /\ subs = {} /\ hubFinalized = FALSE
    /\ pub = [a \in Actors |-> NoPub]
    /\ fin = [pc |-> "idle", todo |-> {}, snap |-> {}]
    /\ sub = [s \in Subs |-> NewSub]
    /\ wpc = [s \in Subs |-> "none"]
    /\ cur = [s \in Subs |-> NoMsg]
    /\ sinkOpen = [s \in Subs |-> TRUE]
    /\ done = [s \in Subs |-> FALSE]
    /\ adp = [s \in Subs |-> [pc |-> "none", pane |-> NoPane]]
    /\ watcher = [s \in Subs |-> [p \in Panes |-> "none"]]
    /\ pane = [p \in Panes |-> [pc |-> "live", todo |-> {}]]
    /\ reap = {}
    /\ dropDue = [s \in Subs |-> "no"]
    /\ published = 0
    /\ client = [s \in Subs |->
                   [wire |-> << >>, torn |-> FALSE, told |-> {},
                    view |-> [p \in Panes |-> [r \in Rows |-> NoCell]]]]
    /\ ghost = [s \in Subs |->
                  [accepted |-> {}, since |-> 0, requests |-> 0, cutShort |-> FALSE,
                   offered |-> [p \in Panes |-> [r \in Rows |-> NoCell]]]]

-----------------------------------------------------------------------------
(* kill, in three steps: dead under sub.mu, then hub.drop and Sink.Close,  *)
(* then dropWatches.  The first is part of the caller's own step.          *)
KillMark(s, recs) ==
    IF sub[s].dead
    THEN /\ sub' = recs
         /\ UNCHANGED reap
    ELSE /\ sub' = [recs EXCEPT ![s].dead = TRUE]
         /\ reap' = reap \cup {s}

\* A kill that lands on a subscriber whose writer is still at work.
CutShort(s, g) == IF sub[s].dead \/ done[s] THEN g ELSE [g EXCEPT ![s].cutShort = TRUE]

DropSoon(s) == dropDue' = [dropDue EXCEPT ![s] = IF @ = "no" THEN "due" ELSE @]

Reap(s) ==
    /\ s \in reap /\ MuFree
    /\ reap' = reap \ {s}
    /\ subs' = subs \ {s}
    /\ sinkOpen' = [sinkOpen EXCEPT ![s] = FALSE]
    /\ IF sub[s].started
       THEN sub' = [sub EXCEPT ![s].wake = TRUE] /\ UNCHANGED done
       ELSE done' = [done EXCEPT ![s] = TRUE] /\ UNCHANGED sub
    /\ UNCHANGED <<hubFinalized, pub, fin, wpc, cur, adp, watcher, pane,
                   dropDue, published, client, ghost>>

DropWatches(s) ==
    /\ dropDue[s] = "due"
    /\ dropDue' = [dropDue EXCEPT ![s] = "done"]
    /\ watcher' = [watcher EXCEPT ![s] = [p \in Panes |-> "none"]]
    /\ UNCHANGED <<subs, hubFinalized, pub, fin, sub, wpc, cur, sinkOpen, done,
                   adp, pane, reap, published, client, ghost>>

-----------------------------------------------------------------------------
Late == hubFinalized

Session(s) ==
    /\ adp[s].pc = "none" /\ MuFree
    /\ adp' = [adp EXCEPT ![s].pc = "building"]
    /\ ghost' = [ghost EXCEPT ![s].since = published]
    /\ IF Late
       THEN /\ sub' = [sub EXCEPT ![s].finalized = TRUE,
                                  ![s].finals = AllFinals]
            /\ UNCHANGED subs
       ELSE /\ subs' = subs \cup {s}
            /\ UNCHANGED sub
    /\ UNCHANGED <<hubFinalized, pub, fin, wpc, cur, sinkOpen, done, watcher,
                   pane, reap, dropDue, published, client>>

Start(s) ==
    /\ adp[s].pc = "building"
    /\ adp' = [adp EXCEPT ![s].pc = "serving"]
    /\ IF sub[s].started \/ sub[s].dead
       THEN UNCHANGED <<sub, wpc>>
       ELSE /\ sub' = [sub EXCEPT ![s].started = TRUE, ![s].head = TRUE]
            /\ wpc' = [wpc EXCEPT ![s] = "take"]
    /\ UNCHANGED <<subs, hubFinalized, pub, fin, cur, sinkOpen, done, watcher,
                   pane, reap, dropDue, published, client, ghost>>

\* Unicast, onto the record r that this step has made of sub[s]: enqueue, or
\* kill on overflow.  counted is 1 when the message answers a new request.
SendTo(s, r, m, counted) ==
    LET g == [ghost EXCEPT ![s].requests = @ + counted] IN
    IF Overflows(r, m)
    THEN /\ KillMark(s, [sub EXCEPT ![s] = r]) /\ DropSoon(s)
         /\ ghost' = CutShort(s, g)
    ELSE /\ sub' = [sub EXCEPT ![s] = Queued(r, m)]
         /\ ghost' = Accepted(s, g, m)
         /\ UNCHANGED <<reap, dropDue>>

MayAsk(s) == ghost[s].requests < MaxRequests

\* A reply, from the reader or from any goroutine that answers for it.
Send(s) ==
    /\ adp[s].pc # "none" /\ MayAsk(s)
    /\ SendTo(s, sub[s], Reply(ghost[s].requests + 1), 1)
    /\ UNCHANGED <<subs, hubFinalized, pub, fin, wpc, cur, sinkOpen, done, adp,
                   watcher, pane, published, client>>

\* The adapter is finished; an unstarted Sub is killed outright.
Close(s) ==
    /\ adp[s].pc \in {"building", "serving"} /\ s \in Leaving
    /\ adp' = [adp EXCEPT ![s].pc = "gone"]
    /\ DropSoon(s)
    /\ IF sub[s].closed \/ sub[s].dead
       THEN UNCHANGED <<sub, reap, ghost>>
       ELSE IF sub[s].started
       THEN /\ sub' = [sub EXCEPT ![s].closed = TRUE, ![s].wake = TRUE]
            /\ UNCHANGED <<reap, ghost>>
       ELSE /\ KillMark(s, [sub EXCEPT ![s].closed = TRUE])
            /\ ghost' = CutShort(s, ghost)
    /\ UNCHANGED <<subs, hubFinalized, pub, fin, wpc, cur, sinkOpen, done,
                   watcher, pane, published, client>>

-----------------------------------------------------------------------------
(* Publish: a read section over every subscriber, then the kills.          *)
PublishBegin(a, m) ==
    /\ pub[a].pc = "idle"
    /\ pub' = [pub EXCEPT ![a] = [pc |-> "loop", msg |-> m, todo |-> subs, over |-> {}]]
    /\ UNCHANGED <<subs, hubFinalized, fin, sub, wpc, cur, sinkOpen, done, adp,
                   watcher, reap, dropDue, client, ghost>>

PublishEvent(a) ==
    /\ a \in Publishers /\ published < MaxEvents
    /\ PublishBegin(a, Event(published + 1))
    /\ published' = published + 1
    /\ UNCHANGED pane

Reaches(a, s) == pub[a].pc = "loop" /\ s \in pub[a].todo

PublishTo(a, s) ==
    /\ Reaches(a, s)
    /\ pub' = [pub EXCEPT ![a].todo = @ \ {s},
                          ![a].over = IF Overflows(sub[s], pub[a].msg)
                                      THEN @ \cup {s} ELSE @]
    /\ sub' = [sub EXCEPT ![s] = Queued(@, pub[a].msg)]
    /\ ghost' = Accepted(s, ghost, pub[a].msg)
    /\ UNCHANGED <<subs, hubFinalized, fin, wpc, cur, sinkOpen, done, adp,
                   watcher, pane, reap, dropDue, published, client>>

PublishUnlock(a) ==
    /\ pub[a].pc = "loop" /\ pub[a].todo = {}
    /\ pub' = [pub EXCEPT ![a].pc = IF pub[a].over = {} THEN "idle" ELSE "kill"]
    /\ UNCHANGED <<subs, hubFinalized, fin, sub, wpc, cur, sinkOpen, done, adp,
                   watcher, pane, reap, dropDue, published, client, ghost>>

PublishKill(a, s) ==
    /\ pub[a].pc = "kill" /\ s \in pub[a].over
    /\ pub' = [pub EXCEPT ![a].over = @ \ {s},
                          ![a].pc = IF pub[a].over = {s} THEN "idle" ELSE "kill"]
    /\ KillMark(s, sub) /\ DropSoon(s)
    /\ ghost' = CutShort(s, ghost)
    /\ UNCHANGED <<subs, hubFinalized, fin, wpc, cur, sinkOpen, done, adp,
                   watcher, pane, published, client>>

-----------------------------------------------------------------------------
(* Watching.  One reader makes one request at a time; the Watcher it calls *)
(* (Streamer) resolves the pane and registers the watcher in two steps.    *)
readerVars == <<subs, hubFinalized, pub, fin, wpc, cur, sinkOpen, done, pane,
                published, client>>

At(s, pc, p) == adp[s].pc = pc /\ adp[s].pane = p
GoTo(s, pc, p) == adp' = [adp EXCEPT ![s] = [pc |-> pc, pane |-> p]]

\* watchInactive as far as addSlot: the slot exists before the framer does.
WatchAddSlot(s, p) ==
    /\ At(s, "serving", NoPane) /\ MayAsk(s)
    /\ IF Open(sub[s], p)
       THEN /\ sub' = [sub EXCEPT ![s].slots = AddSlot(@, p)]
            /\ GoTo(s, "resolve", p)
            /\ ghost' = [ghost EXCEPT ![s].requests = @ + 1]
            /\ UNCHANGED <<reap, dropDue>>
       ELSE /\ SendTo(s, sub[s], Refused(p), 1)
            /\ UNCHANGED adp
    /\ UNCHANGED <<readerVars, watcher>>

\* Watcher.Watch looks the pane up; a failed watch leaves no slot behind.
WatchResolve(s, p) ==
    /\ At(s, "resolve", p)
    /\ IF pane[p].pc = "live"
       THEN /\ GoTo(s, "add", p)
            /\ UNCHANGED <<sub, reap, dropDue, ghost>>
       ELSE /\ SendTo(s, [sub[s] EXCEPT !.slots = DropSlot(@, p)],
                      Refused(p), 0)
            /\ GoTo(s, "serving", NoPane)
    /\ UNCHANGED <<readerVars, watcher>>

\* framer.add: this watch, new or not, takes the mode it asked for.  In frame
\* mode it is owed a keyframe before anything else.
WatchAdd(s, p) ==
    /\ At(s, "add", p)
    /\ \E mode \in {"key", "notify"} : watcher' = [watcher EXCEPT ![s][p] = mode]
    /\ GoTo(s, "answer", p)
    /\ UNCHANGED <<readerVars, sub, reap, dropDue, ghost>>

\* replyAndActivate: the answer and the activation in one acquisition.  The
\* adapter with no answer to order against uses activateSlot.
WatchAnswer(s, p) ==
    /\ At(s, "answer", p)
    /\ LET r == [sub[s] EXCEPT !.slots = Activate(@, p)] IN
       IF s \in Silent
       THEN /\ sub' = [sub EXCEPT ![s] = [r EXCEPT !.wake = TRUE]]
            /\ UNCHANGED <<reap, dropDue, ghost>>
       ELSE SendTo(s, r, Watching(p), 0)
    /\ GoTo(s, "serving", NoPane)
    /\ UNCHANGED <<readerVars, watcher>>

UnwatchLeave(s, p) ==
    /\ At(s, "serving", NoPane) /\ MayAsk(s)
    /\ watcher' = [watcher EXCEPT ![s][p] = "none"]
    /\ GoTo(s, "unslot", p)
    /\ ghost' = [ghost EXCEPT ![s].requests = @ + 1]
    /\ UNCHANGED <<readerVars, sub, reap, dropDue>>

UnwatchAnswer(s, p) ==
    /\ At(s, "unslot", p)
    /\ SendTo(s, [sub[s] EXCEPT !.slots = DropSlot(@, p)],
              Left(p), 0)
    /\ GoTo(s, "serving", NoPane)
    /\ UNCHANGED <<readerVars, watcher>>

\* A keyframe for this subscriber alone, if it watches the pane at all.
Resync(s, p) ==
    /\ At(s, "serving", NoPane) /\ MayAsk(s)
    /\ watcher' = [watcher EXCEPT ![s][p] = IF @ = "sent" THEN "key" ELSE @]
    /\ SendTo(s, sub[s], Reply(ghost[s].requests + 1), 1)
    /\ UNCHANGED <<readerVars, adp>>

\* The framer offers this watcher rows of the screen: all of them when a
\* keyframe is owed, those that changed otherwise.
Offer(s, p, lines) ==
    /\ watcher[s][p] \in {"key", "sent"}
    /\ watcher[s][p] = "key" => DOMAIN lines = Rows
    /\ watcher' = [watcher EXCEPT ![s][p] = "sent"]
    /\ ghost' = [ghost EXCEPT ![s].offered[p] = Override(lines, @)]
    /\ IF Open(sub[s], p) /\ Has(sub[s].slots, p)
       THEN sub' = [sub EXCEPT ![s].slots = OfferRows(@, p, watcher[s][p] = "key", lines),
                               ![s].wake = TRUE]
       ELSE UNCHANGED sub
    /\ UNCHANGED <<readerVars, adp, reap, dropDue>>

OfferChanged(s, p) ==
    /\ watcher[s][p] = "notify"
    /\ IF Open(sub[s], p) /\ Has(sub[s].slots, p)
       THEN sub' = [sub EXCEPT ![s].slots = OfferRaw(@, p), ![s].wake = TRUE]
       ELSE UNCHANGED sub
    /\ UNCHANGED <<readerVars, adp, watcher, reap, dropDue, ghost>>

-----------------------------------------------------------------------------
(* ClosePane: the pane leaves the table; the hub refuses its frames, one   *)
(* subscriber at a time; the framer is stopped; pane_closed is published.  *)
closeVars == <<subs, hubFinalized, fin, wpc, cur, sinkOpen, done, adp, reap,
               dropDue, published, client, ghost>>
PaneTo(p, pc, todo) == pane' = [pane EXCEPT ![p] = [pc |-> pc, todo |-> todo]]

ClosePane(p) ==
    /\ p \in Closable /\ pane[p].pc = "live" /\ PaneTo(p, "detached", {})
    /\ UNCHANGED <<closeVars, pub, sub, watcher>>

\* Mutant: the pane_closed event is relied on to end the frames.
ToldByEvent == {}

ToRefuse == subs

PaneClosed(p) ==
    /\ pane[p].pc = "detached" /\ PaneTo(p, "telling", ToRefuse)
    /\ UNCHANGED <<closeVars, pub, sub, watcher>>

ForgetPane(r, p) == [r EXCEPT !.closedPanes = @ \cup {p}, !.slots = DropSlot(@, p)]

PaneClosedTo(p, s) ==
    /\ pane[p].pc = "telling" /\ s \in pane[p].todo
    /\ PaneTo(p, "telling", pane[p].todo \ {s})
    /\ sub' = [sub EXCEPT ![s] = ForgetPane(@, p)]
    /\ UNCHANGED <<closeVars, pub, watcher>>

FramerStop(p) ==
    /\ pane[p].pc = "telling" /\ pane[p].todo = {}
    /\ PaneTo(p, "stopped", {})
    /\ watcher' = [s \in Subs |-> [watcher[s] EXCEPT ![p] = "none"]]
    /\ UNCHANGED <<closeVars, pub, sub>>

AnnounceClosed(p) ==
    /\ pane[p].pc = "stopped" /\ PaneTo(p, "gone", {})
    /\ PublishBegin(p, ClosedEv(p))
    /\ UNCHANGED published

-----------------------------------------------------------------------------
(* Finalize.                                                               *)
finVars == <<wpc, cur, sinkOpen, done, adp, watcher, pane, published, client>>

FinalizeBegin ==
    /\ Ends /\ fin.pc = "idle" /\ MuFree
    /\ hubFinalized' = TRUE
    /\ fin' = [pc |-> "each", todo |-> subs, snap |-> subs]
    /\ UNCHANGED <<finVars, subs, pub, sub, reap, dropDue, ghost>>

FinalizeSub(s) ==
    /\ fin.pc = "each" /\ s \in fin.todo
    /\ fin' = [fin EXCEPT !.todo = @ \ {s}]
    /\ sub' = [sub EXCEPT ![s] = Finalized(@)]
    /\ UNCHANGED <<finVars, subs, hubFinalized, pub, reap, dropDue, ghost>>

FinalizeAwait ==
    /\ fin.pc = "each" /\ fin.todo = {}
    /\ fin' = [fin EXCEPT !.pc = "await"]
    /\ UNCHANGED <<finVars, subs, hubFinalized, pub, sub, reap, dropDue, ghost>>

\* Mutant: no deadline.
CutWhenAllDone == fin.pc = "await" /\ \A s \in fin.snap : done[s]

\* Every subscriber is done, or the deadline has passed: either way the rest
\* are killed.
CutDue == fin.pc = "await"

FinalizeCut ==
    /\ CutDue
    /\ fin' = [fin EXCEPT !.pc = "kill", !.todo = fin.snap]
    /\ UNCHANGED <<finVars, subs, hubFinalized, pub, sub, reap, dropDue, ghost>>

FinalizeKill(s) ==
    /\ fin.pc = "kill" /\ s \in fin.todo
    /\ fin' = [fin EXCEPT !.todo = @ \ {s}]
    /\ KillMark(s, sub) /\ DropSoon(s)
    /\ ghost' = CutShort(s, ghost)
    /\ UNCHANGED <<finVars, subs, hubFinalized, pub>>

FinalizeReturn ==
    /\ fin.pc = "kill" /\ fin.todo = {} /\ reap \cap fin.snap = {}
    /\ fin' = [fin EXCEPT !.pc = "done"]
    /\ UNCHANGED <<finVars, subs, hubFinalized, pub, sub, reap, dropDue, ghost>>

-----------------------------------------------------------------------------
(* The writer: take under sub.mu, then Write with no lock held.            *)
takeVars == <<subs, hubFinalized, pub, fin, sinkOpen, done, adp, watcher, pane,
              reap, dropDue, published, client, ghost>>

\* Mutant: a torn connection is written to again.
DyingUntorn(r) == r.dead \/ (r.failed /\ ~r.finalized)

\* take returns stop at once: killed, torn, or failed with no finals to come.
Dying(r) == r.dead \/ r.torn \/ (r.failed /\ ~r.finalized)

Hand(s, m, r) ==
    /\ cur' = [cur EXCEPT ![s] = m]
    /\ sub' = [sub EXCEPT ![s] = r]
    /\ wpc' = [wpc EXCEPT ![s] = "write"]
    /\ UNCHANGED takeVars

Taking(s) == wpc[s] = "take" /\ ~Dying(sub[s])

TakeHead(s) ==
    /\ Taking(s) /\ sub[s].head
    /\ Hand(s, Aggregate, [sub[s] EXCEPT !.head = FALSE])

TakeFinal(s) ==
    /\ Taking(s) /\ ~sub[s].head /\ sub[s].finalized /\ sub[s].finals # << >>
    /\ Hand(s, Final(sub[s].finals[1]), [sub[s] EXCEPT !.finals = Tail(@)])

Live(s) == Taking(s) /\ ~sub[s].head /\ ~sub[s].finalized

TakeFifo(s) ==
    /\ Live(s) /\ sub[s].fifo # << >>
    /\ LET m == sub[s].fifo[1] IN
       Hand(s, m, [sub[s] EXCEPT !.fifo = Tail(@), !.bytes = @ - Size(m)])

TakeFrame(s) ==
    /\ Live(s) /\ sub[s].fifo = << >> /\ HasPending(sub[s].slots)
    /\ Hand(s, FrameOf(sub[s].slots, Served(sub[s].slots)),
            [sub[s] EXCEPT !.slots = TakeSlot(@)])

Starved(s) == Live(s) /\ sub[s].fifo = << >> /\ ~HasPending(sub[s].slots)

\* Nothing to do yet: park on the wake channel, then look again.
Park(s) ==
    /\ Starved(s) /\ ~sub[s].closed
    /\ wpc' = [wpc EXCEPT ![s] = "wait"]
    /\ UNCHANGED <<takeVars, sub, cur>>

Wake(s) ==
    /\ wpc[s] = "wait" /\ sub[s].wake
    /\ sub' = [sub EXCEPT ![s].wake = FALSE]
    /\ wpc' = [wpc EXCEPT ![s] = "take"]
    /\ UNCHANGED <<takeVars, cur>>

Stop(s) ==
    /\ wpc[s] = "take"
    /\ \/ Dying(sub[s])
       \/ Taking(s) /\ ~sub[s].head /\ sub[s].finalized /\ sub[s].finals = << >>
       \/ Starved(s) /\ sub[s].closed
    /\ wpc' = [wpc EXCEPT ![s] = "stopped"]
    /\ sinkOpen' = [sinkOpen EXCEPT ![s] = FALSE]
    /\ UNCHANGED <<subs, hubFinalized, pub, fin, sub, cur, done, adp, watcher,
                   pane, reap, dropDue, published, client, ghost>>

\* run's deferred drop, and Done.
Exit(s) ==
    /\ wpc[s] = "stopped" /\ MuFree
    /\ wpc' = [wpc EXCEPT ![s] = "ended"]
    /\ subs' = subs \ {s}
    /\ done' = [done EXCEPT ![s] = TRUE]
    /\ UNCHANGED <<hubFinalized, pub, fin, sub, cur, sinkOpen, adp, watcher, pane,
                   reap, dropDue, published, client, ghost>>

-----------------------------------------------------------------------------
(* Sink.Write.  It ends: its deadline, or Close, interrupts it.            *)
writeVars == <<subs, hubFinalized, pub, fin, sinkOpen, done, adp, watcher, pane,
               reap, dropDue, published>>

\* What a peer holds after reading one whole message.
Shown(v, m) ==
    CASE m.kind = "frame" /\ m.key ->
             [r \in Rows |-> IF r \in DOMAIN m.rows THEN m.rows[r] ELSE NoCell]
      [] m.kind = "frame" /\ ~m.key -> Override(m.rows, v)
      [] OTHER -> v

Told(t, m) ==
    CASE m.kind = "watching" -> t \cup {m.pane}
      [] m.kind \in {"left", "refused"} -> t \ {m.pane}
      [] OTHER -> t

Received(c, m) ==
    IF m.kind \in {"frame", "changed"}
    THEN [c EXCEPT !.view[m.pane] = Shown(@, m)]
    ELSE [c EXCEPT !.wire = Append(@, m), !.told = Told(@, m)]

WriteOk(s) ==
    /\ wpc[s] = "write" /\ sinkOpen[s]
    /\ client' = [client EXCEPT ![s] = Received(@, cur[s])]
    /\ cur' = [cur EXCEPT ![s] = NoMsg]
    /\ wpc' = [wpc EXCEPT ![s] = "take"]
    /\ UNCHANGED <<writeVars, sub, ghost>>

\* torn: some of the message left the process before the write failed.
WriteFail(s, torn) ==
    /\ wpc[s] = "write" /\ (s \in Reliable => ~sinkOpen[s])
    /\ sub' = [sub EXCEPT ![s].failed = TRUE, ![s].torn = @ \/ torn]
    /\ client' = [client EXCEPT ![s].torn = @ \/ torn]
    /\ cur' = [cur EXCEPT ![s] = NoMsg]
    /\ wpc' = [wpc EXCEPT ![s] = "take"]
    /\ UNCHANGED <<writeVars, ghost>>

Write(s) == WriteOk(s) \/ \E torn \in BOOLEAN : WriteFail(s, torn)

-----------------------------------------------------------------------------
Writer(s) ==
    \/ TakeHead(s) \/ TakeFinal(s) \/ TakeFifo(s) \/ TakeFrame(s)
    \/ Park(s) \/ Wake(s) \/ Stop(s) \/ Exit(s)

Watch(s) ==
    \E p \in Panes :
        \/ WatchAddSlot(s, p) \/ WatchResolve(s, p) \/ WatchAdd(s, p)
        \/ WatchAnswer(s, p) \/ UnwatchLeave(s, p) \/ UnwatchAnswer(s, p)
        \/ Resync(s, p) \/ OfferChanged(s, p)
        \/ \E lines \in Lines : Offer(s, p, lines)

Publishing(a) ==
    \/ PublishUnlock(a)
    \/ \E s \in Subs : PublishTo(a, s) \/ PublishKill(a, s)

Closing(p) ==
    \/ PaneClosed(p) \/ FramerStop(p) \/ AnnounceClosed(p)
    \/ \E s \in Subs : PaneClosedTo(p, s)

Finalizing ==
    \/ FinalizeAwait \/ FinalizeCut \/ FinalizeReturn
    \/ \E s \in Subs : FinalizeSub(s) \/ FinalizeKill(s)

Killing(s) == Reap(s) \/ DropWatches(s)

Next ==
    \/ \E s \in Subs : \/ Session(s) \/ Start(s) \/ Send(s) \/ Close(s)
                       \/ Watch(s) \/ Writer(s) \/ Write(s) \/ Killing(s)
    \/ \E a \in Actors : PublishEvent(a) \/ Publishing(a)
    \/ \E p \in Panes : ClosePane(p) \/ Closing(p)
    \/ FinalizeBegin \/ Finalizing

Spec == Init /\ [][Next]_vars

-----------------------------------------------------------------------------
(* Fairness.  Every goroutine of the hub runs on; none of its steps waits  *)
(* for a peer.  SinkFair adds that a Write ends, which its deadline gives. *)
HubFair ==
    /\ \A s \in Subs : WF_vars(Start(s)) /\ WF_vars(Writer(s))
                       /\ WF_vars(Reap(s)) /\ WF_vars(DropWatches(s))
    /\ \A a \in Actors : WF_vars(Publishing(a))
    /\ \A p \in Panes : WF_vars(Closing(p))
    /\ WF_vars(Finalizing)

SinkFair == \A s \in Subs : WF_vars(Write(s))

HubSpec == Spec /\ HubFair

-----------------------------------------------------------------------------
SubRec ==
    [head : BOOLEAN, fifo : Seq(Msg), bytes : Int, started : BOOLEAN,
     closed : BOOLEAN, finalized : BOOLEAN, finals : Seq(1..NFinals),
     failed : BOOLEAN, torn : BOOLEAN, dead : BOOLEAN,
     slots : SlotTable, closedPanes : SUBSET Panes, wake : BOOLEAN]

PubRec == [pc : {"idle", "loop", "kill"}, msg : Msg,
           todo : SUBSET Subs, over : SUBSET Subs]

HubType ==
    /\ subs \in SUBSET Subs /\ hubFinalized \in BOOLEAN
    /\ pub \in [Actors -> PubRec]
    /\ fin \in [pc : {"idle", "each", "await", "kill", "done"},
                todo : SUBSET Subs, snap : SUBSET Subs]

SubType == sub \in [Subs -> SubRec]

WriterType ==
    /\ wpc \in [Subs -> {"none", "take", "wait", "write", "stopped", "ended"}]
    /\ cur \in [Subs -> Msg]
    /\ sinkOpen \in [Subs -> BOOLEAN] /\ done \in [Subs -> BOOLEAN]

ReaderType ==
    /\ adp \in [Subs -> [pc : {"none", "building", "serving", "resolve", "add",
                               "answer", "unslot", "gone"},
                         pane : Panes \cup {NoPane}]]
    /\ watcher \in [Subs -> [Panes -> {"none", "key", "sent", "notify"}]]
    /\ pane \in [Panes -> [pc : {"live", "detached", "telling", "stopped", "gone"},
                           todo : SUBSET Subs]]
    /\ reap \in SUBSET Subs
    /\ dropDue \in [Subs -> {"no", "due", "done"}]
    /\ published \in Nat

Screen == [Panes -> [Rows -> Cells \cup {NoCell}]]

ClientRec == [wire : Seq(Msg), torn : BOOLEAN, told : SUBSET (Panes \cup {NoPane}), view : Screen]
GhostRec == [accepted : SUBSET Msg, since : Nat, requests : Nat, cutShort : BOOLEAN,
             offered : Screen]

HistoryType == client \in [Subs -> ClientRec] /\ ghost \in [Subs -> GhostRec]

\* Every variable of the bus keeps its type (the fields of Hub and Sub, the
\* places of its goroutines).
TypeOK == HubType /\ SubType /\ WriterType /\ ReaderType /\ HistoryType

Picture(m) == m.kind \in {"frame", "changed"}

(* The rotation of every subscriber's slots is whole: a pane with a slot   *)
(* has exactly one turn in it, whatever watches, unwatches and closes came *)
(* before.  (addSlot, dropSlotLocked, takeSlotLocked.)                     *)
RotationWhole == \A s \in Subs : InRotation(sub[s].slots)

(* The subscribe cut: every event whose Publish began after a Session, and *)
(* is over, was accepted by that subscriber, started or not, unless it has *)
(* been closed, finalized or killed.  (Hub.Session, Hub.Publish.)          *)
CutHasNoGap ==
    \A s \in subs : \A i \in (ghost[s].since + 1)..published :
        \/ ~Accepts(sub[s])
        \/ Event(i) \in ghost[s].accepted
        \/ \E a \in Publishers : /\ pub[a].msg = Event(i) /\ pub[a].pc # "idle"
                                 /\ s \in pub[a].todo \cup pub[a].over

(* No frame follows pane_closed: a writer never holds a picture of a pane  *)
(* whose pane_closed this peer has read.  (Hub.PaneClosed, addSlot, Offer.)*)
NoFrameAfterClosed ==
    \A s \in Subs : Picture(cur[s]) =>
        \A i \in 1..Len(client[s].wire) : client[s].wire[i] # ClosedEv(cur[s].pane)

(* No frame overtakes the answer that announced it, and none follows the   *)
(* answer to an unwatch: a picture is only ever written for a pane the     *)
(* peer has been told it watches.  (replyAndActivate, removeSlot.)         *)
FrameOnlyIfTold ==
    \A s \in Subs \ Silent : Picture(cur[s]) => cur[s].pane \in client[s].told

(* Coalescing loses nothing: what the peer shows, overlaid with the frame  *)
(* in the writer's hands and the one in the slot, is the screen the framer *)
(* last offered.  (Offer, assemble, takeSlotLocked.)                       *)
WillShow(s, p) ==
    LET inHand == IF Picture(cur[s]) /\ cur[s].pane = p
                  THEN Shown(client[s].view[p], cur[s]) ELSE client[s].view[p]
    IN  IF sub[s].slots.at[p].full THEN Shown(inHand, FrameOf(sub[s].slots, p)) ELSE inHand

ScreenCoherent ==
    \A s \in Subs, p \in Panes :
        /\ watcher[s][p] = "sent" /\ pane[p].pc = "live" /\ Has(sub[s].slots, p)
        /\ Accepts(sub[s]) /\ ~sub[s].failed
        => WillShow(s, p) = ghost[s].offered[p]

(* Finalize misses nobody: whoever is on the bus once it has begun is still*)
(* in its hands, finalized, or already over; and whoever it left alive has *)
(* read everything: the aggregate first, every final last.  (Hub.Finalize, *)
(* Hub.Session after it.)                                                  *)
FinalizeMissesNobody ==
    /\ hubFinalized =>
         \A s \in subs : \/ s \in fin.snap
                            /\ (s \in fin.todo \/ sub[s].finalized \/ sub[s].dead)
    /\ \A s \in Subs :
         done[s] /\ sub[s].finalized /\ ~sub[s].closed /\ ~sub[s].failed /\ ~ghost[s].cutShort =>
            LET w == client[s].wire IN
            /\ Len(w) > NFinals /\ w[1] = Aggregate
            /\ \A i \in 1..NFinals : w[Len(w) - NFinals + i] = Final(i)

\* Publish and Finalize return whatever any peer does: no fairness of a sink
\* is assumed.  ("It never blocks", Hub.Publish; "Finalize returns by then
\* whatever any peer does", Hub.Finalize.)
PublishReturns == \A a \in Actors : pub[a].pc # "idle" ~> pub[a].pc = "idle"
FinalizeReturns == hubFinalized ~> fin.pc = "done"

\* After Finalize every Session ends, late ones included: Done is closed, once
\* every Write ends in its deadline.  (Hub.Session, Hub.Finalize, Sub.run.)
EverySessionEnds ==
    SinkFair => \A s \in Subs : hubFinalized /\ adp[s].pc # "none" ~> done[s]

\* Nobody waits for a peer: publishers and Finalize return; and while writes end, no
\* message waits for ever, whoever signals, and every session is over in the end.
\* (Publish, Finalize, signal, Park, Sub.run.)
StreamMoves ==
    /\ PublishReturns /\ FinalizeReturns /\ EverySessionEnds
    /\ SinkFair => \A s \in Subs :
          sub[s].fifo # << >> /\ sub[s].started ~> sub[s].fifo = << >> \/ done[s]

\* Frames keep their place among the messages about their pane.
FramesKeepTheirPlace == NoFrameAfterClosed /\ FrameOnlyIfTold

\* Whoever subscribed hears everything from the cut to the finals.
SubscribersHearAll == CutHasNoGap /\ FinalizeMissesNobody
=============================================================================
