------------------------------ MODULE Streamer ------------------------------
(***************************************************************************)
(* The Streamer of src/mux/stream.go: which panes have a framer, who       *)
(* watches them, and how framers start and stop.  What one framer does     *)
(* with the screen is module Framer; what becomes of an offered frame is   *)
(* module HubBus.                                                          *)
(*                                                                         *)
(* One action is one critical section of streamMu, fr.mu, sub.mu or        *)
(* treeMu.  Every thread that takes a framer out of the table holds it     *)
(* until it has shut it down and joined its goroutine.                     *)
(***************************************************************************)
EXTENDS FiniteSets

CONSTANTS
    Subs,        \* subscribers
    Panes,       \* panes, in the order their ids are given out
    Framers,     \* framer objects; one that nothing refers to may be reused
    NoFramer,
    Closable,    \* the panes that may be closed
    Asking,      \* the subscribers that may send watch
    Unwatching,  \* the subscribers that may send unwatch
    Mortal,      \* the subscribers that may be killed
    Everything,  \* the subscribers that ask to watch every pane
    Ends         \* the session ends: Shutdown is called

ASSUME StreamerConstants ==
    /\ NoFramer \notin Framers /\ Panes # {} /\ Closable \subseteq Panes
    /\ Asking \subseteq Subs /\ Unwatching \subseteq Subs /\ Mortal \subseteq Subs
    /\ Everything \subseteq Subs /\ Ends \in BOOLEAN

Reader(s)  == <<"reader", s>>    \* the adapter's reader, which makes s's requests
Opener(p)  == <<"opener", p>>    \* OpenPane
Closer(p)  == <<"closer", p>>    \* ClosePane
Dropper(s) == <<"dropper", s>>   \* kill or Close, whichever reaches dropWatches first
Ender      == <<"ender", "ender">>

Watchers == {Reader(s) : s \in Subs} \cup {Opener(p) : p \in Panes}
Threads  == Watchers \cup {Closer(p) : p \in Panes}
                     \cup {Dropper(s) : s \in Subs} \cup {Ender}

VARIABLES
    pane,     \* how far OpenPane and ClosePane have got with each pane
    slots,    \* Sub.slots: the panes each subscriber has a slot for
    framers,  \* Streamer.framers
    all,      \* Streamer.all
    closed,   \* Streamer.closed
    stream,   \* Pane.stream: the framer the read loop wakes
    framer,   \* the framer objects
    job,      \* the Watch or Unwatch each thread is making
    todo,     \* the watches a WatchAll or paneOpened has still to make
    held,     \* the framers each thread has taken out of the table
    dead,     \* subscribers marked dead
    dropped,  \* subscribers whose Streamer.Drop has returned
    asked,    \* history: the panes each subscriber was told it is watching
    ended     \* Shutdown has returned

vars == <<pane, slots, framers, all, closed, stream, framer, job, todo,
          held, dead, dropped, asked, ended>>

NoJob  == [at |-> "idle"]
Idle(t) == job[t] = NoJob /\ todo[t] = {} /\ held[t] = {}

\* What a thread can still reach; the rest is garbage.
Held  == {framers[p] : p \in Panes} \cup {stream[p] : p \in Panes}
         \cup UNION {held[t] : t \in Threads}
         \cup {job[t].fr : t \in {u \in Watchers : job[u].at \in {"add", "activate"}}}
Alive == {f \in Framers : framer[f].life # "gone"}
Reachable == Held \cup Alive

\* hub.PaneClosed has told every subscriber.
Refused(p) == pane[p] \in {"refused", "cut"}

-----------------------------------------------------------------------------
\* Sub.Watch: the slot first, then the Streamer, then the slot goes active.
\* addSlot
Begin(t, s, p) ==
    IF s \in dead \/ Refused(p)
    THEN UNCHANGED <<slots, job>>
    ELSE /\ slots' = [slots EXCEPT ![s] = @ \cup {p}]
         /\ job' = [job EXCEPT ![t] = [at |-> "resolve", sub |-> s, pane |-> p]]

WatchRequest(s, p) ==
    /\ s \in Asking /\ Idle(Reader(s)) /\ s \notin dead
    /\ Begin(Reader(s), s, p)
    /\ UNCHANGED <<pane, framers, all, closed, stream, framer, todo, held,
                   dead, dropped, asked, ended>>

\* One watch of a WatchAll (a pane) or of a paneOpened (a subscriber).
NextOf(t, x) == IF t[1] = "reader" THEN <<t[2], x>> ELSE <<x, t[2]>>

BatchWatch(t) ==
    /\ job[t] = NoJob
    /\ \E x \in todo[t] :
          /\ Begin(t, NextOf(t, x)[1], NextOf(t, x)[2])
          /\ todo' = [todo EXCEPT ![t] = @ \ {x}]
    /\ UNCHANGED <<pane, framers, all, closed, stream, framer, held, dead,
                   dropped, asked, ended>>

GiveUp(t) ==
    /\ slots' = [slots EXCEPT ![job[t].sub] = @ \ {job[t].pane}]
    /\ job' = [job EXCEPT ![t] = NoJob]

\* Streamer.Watch resolves the pane under treeMu and lets it go.
Resolve(t) ==
    /\ job[t].at = "resolve"
    /\ IF pane[job[t].pane] = "live"
       THEN job' = [job EXCEPT ![t].at = "enter"] /\ UNCHANGED slots
       ELSE GiveUp(t)
    /\ UNCHANGED <<pane, framers, all, closed, stream, framer, todo, held,
                   dead, dropped, asked, ended>>

Missing(p) == framers[p] = NoFramer
ShutDown == closed

Started(f, p) ==
    /\ framers' = [framers EXCEPT ![p] = f]
    /\ stream' = [stream EXCEPT ![p] = f]
    /\ framer' = [framer EXCEPT ![f] = [pane |-> p, watchers |-> {}, life |-> "running"]]

\* ... then joins or starts the pane's framer under streamMu.
Enter(t) ==
    /\ job[t].at = "enter"
    /\ LET p == job[t].pane
           Hands(f) == job' = [job EXCEPT ![t] = [at |-> "add", sub |-> @.sub,
                                                  pane |-> p, fr |-> f]]
       IN \/ ShutDown /\ GiveUp(t) /\ UNCHANGED <<framers, stream, framer>>
          \/ /\ ~ShutDown /\ ~Missing(p)
             /\ Hands(framers[p])
             /\ UNCHANGED <<slots, framers, stream, framer>>
          \/ /\ ~ShutDown /\ Missing(p)
             /\ \E f \in Framers \ Reachable : Started(f, p) /\ Hands(f)
             /\ UNCHANGED slots
    /\ UNCHANGED <<pane, all, closed, todo, held, dead, dropped, asked, ended>>

\* framer.add, with streamMu released
Add(t) ==
    /\ job[t].at = "add"
    /\ framer' = [framer EXCEPT ![job[t].fr].watchers = @ \cup {job[t].sub}]
    /\ job' = [job EXCEPT ![t].at = "activate"]
    /\ UNCHANGED <<pane, slots, framers, all, closed, stream, todo, held,
                   dead, dropped, asked, ended>>

\* activateSlot or replyAndActivate: the watch is answered.
Activate(t) ==
    /\ job[t].at = "activate"
    /\ asked' = [asked EXCEPT ![job[t].sub] = @ \cup {job[t].pane}]
    /\ job' = [job EXCEPT ![t] = NoJob]
    /\ UNCHANGED <<pane, slots, framers, all, closed, stream, framer, todo,
                   held, dead, dropped, ended>>

-----------------------------------------------------------------------------
\* framer.remove
Removed(f, s) == [framer EXCEPT ![f].watchers = @ \ {s}]

Empties(f, s) == framer[f].watchers \subseteq {s}

\* A thread takes emptied framers out of the table under streamMu.
Takes(t, fs) ==
    /\ held' = [held EXCEPT ![t] = fs]
    /\ framers' = [p \in Panes |-> IF framers[p] \in fs THEN NoFramer ELSE framers[p]]
    /\ stream' = [p \in Panes |-> IF framers[p] \in fs THEN NoFramer ELSE stream[p]]

\* Streamer.Unwatch, then removeSlot once the framer is joined.
UnwatchRequest(s, p) ==
    /\ s \in Unwatching /\ Idle(Reader(s)) /\ s \notin dead
    /\ LET f == framers[p]
       IN IF f = NoFramer
          THEN UNCHANGED <<framer, held, framers, stream>>
          ELSE /\ framer' = Removed(f, s)
               /\ Takes(Reader(s), IF Empties(f, s) THEN {f} ELSE {})
    /\ asked' = [asked EXCEPT ![s] = @ \ {p}]
    /\ job' = [job EXCEPT ![Reader(s)] = [at |-> "leave", sub |-> s, pane |-> p]]
    /\ UNCHANGED <<pane, slots, all, closed, todo, dead, dropped, ended>>

Leave(s) ==
    /\ job[Reader(s)].at = "leave" /\ held[Reader(s)] = {}
    /\ GiveUp(Reader(s))
    /\ UNCHANGED <<pane, framers, all, closed, stream, framer, todo, held,
                   dead, dropped, asked, ended>>

\* Mutant: the table of framers is walked for the panes.
ListedWatched == {p \in Panes : pane[p] = "live" /\ framers[p] # NoFramer}

\* livePanes
Listed == {p \in Panes : pane[p] = "live"}

\* Streamer.WatchAll registers under streamMu and reads the panes after that.
WatchAll(s) ==
    /\ s \in Everything /\ Idle(Reader(s)) /\ s \notin dead /\ s \notin all /\ ~closed
    /\ all' = all \cup {s}
    /\ job' = [job EXCEPT ![Reader(s)] = [at |-> "list"]]
    /\ UNCHANGED <<pane, slots, framers, closed, stream, framer, todo, held,
                   dead, dropped, asked, ended>>

List(s) ==
    /\ job[Reader(s)].at = "list"
    /\ job' = [job EXCEPT ![Reader(s)] = NoJob]
    /\ todo' = [todo EXCEPT ![Reader(s)] = Listed]
    /\ UNCHANGED <<pane, slots, framers, all, closed, stream, framer, held,
                   dead, dropped, asked, ended>>
-----------------------------------------------------------------------------
\* OpenPane: the pane is in the tree, then pane_opened is published, ...
OpenPane(p) ==
    /\ pane[p] = "absent"
    /\ pane' = [pane EXCEPT ![p] = "live"]
    /\ job' = [job EXCEPT ![Opener(p)] = [at |-> "list"]]
    /\ UNCHANGED <<slots, framers, all, closed, stream, framer, todo, held,
                   dead, dropped, asked, ended>>

\* ... then paneOpened attaches whoever watches everything.
PaneOpened(p) ==
    /\ job[Opener(p)].at = "list"
    /\ job' = [job EXCEPT ![Opener(p)] = NoJob]
    /\ todo' = [todo EXCEPT ![Opener(p)] = IF closed THEN {} ELSE all]
    /\ UNCHANGED <<pane, slots, framers, all, closed, stream, framer, held, dead,
                   dropped, asked, ended>>

\* ClosePane: out of the tree; hub.PaneClosed; out of the table; the join.
ClosePane(p) ==
    /\ p \in Closable /\ pane[p] = "live"
    /\ pane' = [pane EXCEPT ![p] = "gone"]
    /\ UNCHANGED <<slots, framers, all, closed, stream, framer, job, todo,
                   held, dead, dropped, asked, ended>>

HubPaneClosed(p) ==
    /\ pane[p] = "gone"
    /\ pane' = [pane EXCEPT ![p] = "refused"]
    /\ slots' = [s \in Subs |-> slots[s] \ {p}]
    /\ UNCHANGED <<framers, all, closed, stream, framer, job, todo, held,
                   dead, dropped, asked, ended>>

\* Streamer.paneClosed takes the framer under streamMu, and clears Pane.stream
\* after it (Stop).
PaneClosed(p) ==
    /\ pane[p] = "refused"
    /\ pane' = [pane EXCEPT ![p] = "cut"]
    /\ held' = [held EXCEPT ![Closer(p)] = {framers[p]} \ {NoFramer}]
    /\ framers' = [framers EXCEPT ![p] = NoFramer]
    /\ UNCHANGED <<slots, all, closed, stream, framer, job, todo, dead,
                   dropped, asked, ended>>

\* kill, or Close: the connection is over ...
Die(s) ==
    /\ s \in Mortal /\ s \notin dead
    /\ dead' = dead \cup {s}
    /\ UNCHANGED <<pane, slots, framers, all, closed, stream, framer, job,
                   todo, held, dropped, asked, ended>>

\* ... and Streamer.Drop runs once for it, whatever its reader is doing.
Drop(s) ==
    /\ s \in dead \ dropped /\ held[Dropper(s)] = {}
    /\ dropped' = dropped \cup {s}
    /\ all' = all \ {s}
    /\ LET listed == {framers[p] : p \in Panes} \ {NoFramer}
       IN /\ framer' = [f \in Framers |-> IF f \in listed
                                          THEN [framer[f] EXCEPT !.watchers = @ \ {s}]
                                          ELSE framer[f]]
          /\ Takes(Dropper(s), {f \in listed : Empties(f, s)})
    /\ UNCHANGED <<pane, slots, closed, job, todo, dead, asked, ended>>

\* Shutdown
Shutdown ==
    /\ Ends /\ ~closed
    /\ closed' = TRUE /\ all' = {}
    /\ held' = [held EXCEPT ![Ender] = {framers[p] : p \in Panes} \ {NoFramer}]
    /\ framers' = [p \in Panes |-> NoFramer]
    /\ UNCHANGED <<pane, slots, stream, framer, job, todo, dead, dropped,
                   asked, ended>>

EnderDone == held[Ender] = {}

Ended ==
    /\ closed /\ ~ended /\ EnderDone
    /\ ended' = TRUE
    /\ UNCHANGED <<pane, slots, framers, all, closed, stream, framer, job,
                   todo, held, dead, dropped, asked>>

-----------------------------------------------------------------------------
\* Mutant: Unwatch and Drop clear the handle outside streamMu too.
ClearsAlways(t) == TRUE

ClearsStream(t) == t[1] \in {"closer", "ender"}
IsGone(f) == framer[f].life = "gone"

\* framer.shutdown, one framer after another: paneClosed and Shutdown clear
\* Pane.stream first, the stop channel is closed once ...
Stop(t) ==
    /\ \A f \in held[t] : framer[f].life = "running"
    /\ \E f \in held[t] :
          /\ framer' = [framer EXCEPT ![f].life = "told"]
          /\ stream' = IF ClearsStream(t)
                       THEN [stream EXCEPT ![framer[f].pane] = NoFramer] ELSE stream
    /\ UNCHANGED <<pane, slots, framers, all, closed, job, todo, held, dead,
                   dropped, asked, ended>>

\* ... and the goroutine joined.
Joined(t) ==
    /\ \E f \in held[t] : IsGone(f) /\ held' = [held EXCEPT ![t] = @ \ {f}]
    /\ UNCHANGED <<pane, slots, framers, all, closed, stream, framer, job,
                   todo, dead, dropped, asked, ended>>

\* The framer's goroutine sees the stop channel in either of its selects.
Exit(f) ==
    /\ framer[f].life = "told"
    /\ framer' = [framer EXCEPT ![f].life = "gone"]
    /\ UNCHANGED <<pane, slots, framers, all, closed, stream, job, todo,
                   held, dead, dropped, asked, ended>>

-----------------------------------------------------------------------------
Init ==
    /\ pane = [p \in Panes |-> "absent"]
    /\ slots = [s \in Subs |-> {}] /\ asked = [s \in Subs |-> {}]
    /\ framers = [p \in Panes |-> NoFramer] /\ stream = [p \in Panes |-> NoFramer]
    /\ framer = [f \in Framers |-> [pane |-> CHOOSE p \in Panes : TRUE,
                                    watchers |-> {}, life |-> "gone"]]
    /\ all = {} /\ closed = FALSE /\ ended = FALSE
    /\ job = [t \in Watchers |-> NoJob] /\ todo = [t \in Watchers |-> {}]
    /\ held = [t \in Threads |-> {}]
    /\ dead = {} /\ dropped = {}

WatchStep(t) == BatchWatch(t) \/ Resolve(t) \/ Enter(t) \/ Add(t) \/ Activate(t)

SubStep(s) == Leave(s) \/ WatchAll(s) \/ List(s) \/ Drop(s)

PaneStep(p) == PaneOpened(p) \/ HubPaneClosed(p) \/ PaneClosed(p)

JoinStep(t) == Stop(t) \/ Joined(t)

Next ==
    \/ \E s \in Subs, p \in Panes : WatchRequest(s, p) \/ UnwatchRequest(s, p)
    \/ \E t \in Watchers : WatchStep(t)
    \/ \E s \in Subs : SubStep(s) \/ Die(s)
    \/ \E p \in Panes : PaneStep(p) \/ OpenPane(p) \/ ClosePane(p)
    \/ \E t \in Threads : JoinStep(t)
    \/ \E f \in Framers : Exit(f)
    \/ Shutdown \/ Ended

Spec == Init /\ [][Next]_vars

-----------------------------------------------------------------------------
\* stream.go 129-131 and 15-17: a pane's framer is the one its read loop wakes;
\* a framer the read loop cannot reach would show a screen that never changes.
OutputReachesTheFramer ==
    \A p \in Panes : framers[p] # NoFramer =>
        /\ framer[framers[p]].pane = p /\ framer[framers[p]].life = "running"
        /\ pane[p] \in {"live", "gone", "refused"} => stream[p] = framers[p]

\* A framer that is no longer in the table has not been forgotten: some thread
\* holds it and will shut it down.  Nothing else ever would.
StraysAreHeld ==
    \A f \in Framers : framer[f].life # "gone" =>
        \/ \E p \in Panes : framers[p] = f
        \/ \E t \in Threads : f \in held[t]

\* framer.shutdown joins, so a thread that is done with a framer leaves no
\* goroutine behind: when Shutdown has returned (sockconn.go 276-283), a framer
\* that still runs is one that an Unwatch, Drop or ClosePane is joining.
NobodyPaintsAfterShutdown ==
    ended => \A f \in Framers : framer[f].life # "gone" =>
        \E t \in Threads \ {Ender} : f \in held[t]

\* Streamer.WatchAll, 207-208: "every live pane, and every pane opened
\* afterwards".  Once everybody is idle there is no live pane that a subscriber
\* of everything has no slot for, however OpenPane and WatchAll fell, unless it may
\* have asked to be rid of it.
AllMeansAll ==
    (\A t \in Watchers : Idle(t)) =>
        \A s \in all \ (dead \cup Unwatching), p \in Panes : pane[p] = "live" => p \in slots[s]

\* No framer goroutine is forgotten, and none outlives the session.
NoFramerLeaks == StraysAreHeld /\ NobodyPaintsAfterShutdown

\* The framer a pane's output wakes is the one in the table, and no other runs.
OneFramerEach == OutputReachesTheFramer /\ NoFramerLeaks
=============================================================================
