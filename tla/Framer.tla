------------------------------- MODULE Framer -------------------------------
(***************************************************************************)
(* One framer of src/mux/stream.go: the goroutine that compares a pane's   *)
(* screen with its shadow and hands every watcher what it is owed, each at *)
(* its own rate.                                                           *)
(*                                                                         *)
(* The pane's lock and fr.mu make each action one step; between two of     *)
(* them the child paints, the pane is resized and watchers come and go.    *)
(* Offer is taken to reach the client as it is: that a slot may merge      *)
(* offers without harm is module HubBus's ScreenCoherent.                  *)
(***************************************************************************)
EXTENDS Integers, FiniteSets

CONSTANTS
    Subs,       \* subscribers
    Rows,       \* the rows of the screen
    Cells,      \* what a row can show
    Heads,      \* the header's cursor, scrollback and so on
    Shapes,     \* the header's rows, cols and alternate-screen flag
    Blank,      \* nothing has been shown yet: no row, header or shape
    Modes,      \* the modes clients watch in: "frames", "notify"
    MaxPaints,  \* bound: paints and resizes
    MaxAdds     \* bound: watches and resyncs

ASSUME FramerBounds ==
    /\ MaxPaints \in Nat /\ MaxAdds \in Nat
    /\ Modes \subseteq {"frames", "notify"}
    /\ Blank \notin Cells \cup Heads \cup Shapes

VARIABLES
    screen,      \* Pane.screen: its rows, header and shape
    gen,         \* Pane.frameGen
    wake,        \* paneStream.wakeCh holds its one token
    geom,        \* paneStream.geom
    watching,    \* the keys of framer.watchers
    w,           \* the paneWatchers
    soon,        \* watchers that have not come out of their rate limit
    pendingKey, deferred,   \* framer.pendingKey, framer.deferred
    shadow,      \* framer.shadow, lastHead and shape
    lastGen,     \* framer.lastGen
    pc, tick,    \* the run goroutine: where it is, and tick's locals
    seen,        \* the screen each client has put together
    told,        \* notify clients that have been told and have not read yet
    adds         \* bound's counter

framerVars == <<watching, w, soon, pendingKey, deferred>>
vars == <<screen, gen, wake, geom, watching, w, soon, pendingKey, deferred, shadow,
          lastGen, pc, tick, seen, told, adds>>

Screen   == [rows : [Rows -> Cells], head : Heads, shape : Shapes]
NoScreen == [rows |-> [y \in Rows |-> Blank], head |-> Blank, shape |-> Blank]
Watcher  == [mode : {"frames", "notify"}, key : BOOLEAN, pending : BOOLEAN,
             dirty : SUBSET Rows]
NewWatcher == [mode |-> "frames", key |-> FALSE, pending |-> FALSE, dirty |-> {}]
NoTick == [gen |-> 0, key |-> FALSE, deferred |-> FALSE, full |-> FALSE, changed |-> {}]
NoView == [rows |-> [y \in Rows |-> Blank], head |-> Blank, shape |-> Blank,
           keyShape |-> Blank]

-----------------------------------------------------------------------------
\* The pane.  readLoop changes the screen, the alternate-screen flag included,
\* and calls noteOutputLocked under p.mu.
Paint ==
    /\ gen < MaxPaints
    /\ screen' \in Screen
    /\ gen' = gen + 1 /\ wake' = TRUE
    /\ UNCHANGED <<geom, framerVars, shadow, lastGen, pc, tick, seen, told, adds>>

\* A resize reflows the rows and calls noteGeometryLocked.
Resize ==
    /\ gen < MaxPaints
    /\ \E rows \in [Rows -> Cells], sh \in Shapes \ {screen.shape} :
          screen' = [rows |-> rows, head |-> screen.head, shape |-> sh]
    /\ gen' = gen + 1 /\ geom' = TRUE /\ wake' = TRUE
    /\ UNCHANGED <<framerVars, shadow, lastGen, pc, tick, seen, told, adds>>

-----------------------------------------------------------------------------
\* framer.add: a new watcher, or one that watches again with another mode.
Add(s) ==
    /\ adds < MaxAdds /\ adds' = adds + 1
    /\ \E mode \in Modes :
          w' = [w EXCEPT ![s] = [mode |-> mode, key |-> TRUE, pending |-> w[s].pending,
                                 dirty |-> w[s].dirty]]
    /\ watching' = watching \cup {s}
    /\ soon' = soon \ {s}
    /\ told' = told \ {s}
    /\ pendingKey' = TRUE /\ wake' = TRUE
    /\ UNCHANGED <<screen, gen, geom, deferred, shadow, lastGen, pc, tick, seen>>

\* framer.remove; the last one out stops the framer (module Streamer).
Remove(s) ==
    /\ s \in watching /\ watching # {s}
    /\ watching' = watching \ {s} /\ w' = [w EXCEPT ![s] = NewWatcher]
    /\ soon' = soon \ {s} /\ told' = told \ {s}
    /\ seen' = [seen EXCEPT ![s] = NoView]
    /\ UNCHANGED <<screen, gen, wake, geom, pendingKey, deferred, shadow, lastGen, pc,
                   tick, adds>>

Resync(s) ==
    /\ adds < MaxAdds /\ adds' = adds + 1
    /\ s \in watching
    /\ w' = [w EXCEPT ![s].key = TRUE]
    /\ pendingKey' = TRUE /\ wake' = TRUE
    /\ UNCHANGED <<screen, gen, geom, watching, soon, deferred, shadow, lastGen, pc,
                   tick, seen, told>>

\* A client that was told the pane moved reads the pane, when it gets to it.
Reads(s) ==
    /\ s \in told
    /\ told' = told \ {s}
    /\ seen' = [seen EXCEPT ![s] = [rows |-> screen.rows, head |-> screen.head,
                                   shape |-> screen.shape, keyShape |-> screen.shape]]
    /\ UNCHANGED <<screen, gen, wake, geom, framerVars, shadow, lastGen, pc, tick, adds>>

\* A watcher's own interval runs out.
Expire(s) ==
    /\ s \in soon
    /\ soon' = soon \ {s}
    /\ UNCHANGED <<screen, gen, wake, geom, watching, w, pendingKey, deferred, shadow,
                   lastGen, pc, tick, seen, told, adds>>

-----------------------------------------------------------------------------
\* The run goroutine.  It takes a wake, waits out the interval, ...
Wakes ==
    /\ pc = "sleep" /\ wake
    /\ wake' = FALSE /\ pc' = "wait"
    /\ UNCHANGED <<screen, gen, geom, framerVars, shadow, lastGen, tick, seen, told, adds>>

\* ... and tick reads the generation ...
Load ==
    /\ pc = "wait"
    /\ tick' = [NoTick EXCEPT !.gen = gen] /\ pc' = "look"
    /\ UNCHANGED <<screen, gen, wake, geom, framerVars, shadow, lastGen, seen, told, adds>>

Idle == watching = {} \/ (tick.gen = lastGen /\ ~geom /\ ~pendingKey /\ ~deferred)

\* ... swaps geom out and looks at what the framer owes.
Look ==
    /\ pc = "look"
    /\ geom' = FALSE
    /\ IF Idle
       THEN pc' = "sleep" /\ tick' = NoTick /\ UNCHANGED lastGen
       ELSE /\ pc' = "diff" /\ lastGen' = tick.gen
            /\ tick' = [gen |-> tick.gen, key |-> pendingKey, deferred |-> deferred,
                        full |-> geom, changed |-> {}]
    /\ UNCHANGED <<screen, gen, wake, framerVars, shadow, seen, told, adds>>

\* Under p.mu the rows that differ go into the shadow.  Nothing new means only
\* deferred work is left, if anything is.
Full == tick.full \/ tick.key \/ screen.shape # shadow.shape

NothingNew == ~Full /\ screen.rows = shadow.rows /\ screen.head = shadow.head

Diff ==
    /\ pc = "diff"
    /\ shadow' = screen
    /\ IF NothingNew
       THEN /\ tick' = NoTick
            /\ pc' = IF tick.deferred THEN "retry" ELSE "sleep"
       ELSE /\ pc' = "mark"
            /\ tick' = [gen |-> 0, key |-> FALSE, deferred |-> FALSE, full |-> Full,
                  changed |-> {y \in Rows : Full \/ screen.rows[y] # shadow.rows[y]}]
    /\ UNCHANGED <<screen, gen, wake, geom, framerVars, lastGen, seen, told, adds>>

\* Mutant: a full frame does not make every watcher's next one a keyframe.
MarkedRows(r) == [r EXCEPT !.dirty = @ \cup tick.changed, !.pending = TRUE]

Marked(r) == [mode |-> r.mode, key |-> r.key \/ tick.full, pending |-> TRUE,
              dirty |-> r.dirty \cup tick.changed]

\* Every watcher now owes its client something about this screen.
Mark ==
    /\ pc = "mark"
    /\ pendingKey' = FALSE
    /\ w' = [s \in Subs |-> IF s \in watching THEN Marked(w[s]) ELSE w[s]]
    /\ pc' = "deliver" /\ tick' = NoTick
    /\ UNCHANGED <<screen, gen, wake, geom, watching, soon, deferred, shadow, lastGen,
                   seen, told, adds>>

\* anyReady
Ready == {s \in watching : w[s].pending /\ s \notin soon}

Retry ==
    /\ pc = "retry"
    /\ IF Ready = {} THEN pc' = "sleep" /\ wake' = TRUE
                     ELSE pc' = "deliver" /\ UNCHANGED wake
    /\ UNCHANGED <<screen, gen, geom, framerVars, shadow, lastGen, tick, seen, told, adds>>

\* What the client has after a frame: a keyframe is every row of the shadow, a
\* delta the rows it is owed.
Shown(s) ==
    IF w[s].key
    THEN [rows |-> shadow.rows, head |-> shadow.head, shape |-> shadow.shape,
          keyShape |-> shadow.shape]
    ELSE [rows |-> [y \in Rows |-> IF y \in w[s].dirty THEN shadow.rows[y]
                                   ELSE seen[s].rows[y]],
          head |-> shadow.head, shape |-> shadow.shape, keyShape |-> seen[s].keyShape]

\* Mutant: what a watcher was too early for is dropped.
ServedAll == {s \in watching : w[s].pending}

Served == Ready
PutOff == {s \in watching : w[s].pending /\ s \in soon}

\* deliver: offerFrame or offerChanged for whoever is ready, deferred for the
\* rest, and a wake of its own to come back for them.
Deliver ==
    /\ pc = "deliver"
    /\ seen' = [s \in Subs |-> IF s \in Ready /\ w[s].mode = "frames"
                               THEN Shown(s) ELSE seen[s]]
    /\ told' = told \cup {s \in Ready : w[s].mode = "notify"}
    /\ w' = [s \in Subs |-> IF s \in Served
                            THEN [NewWatcher EXCEPT !.mode = w[s].mode]
                            ELSE w[s]]
    /\ soon' = soon \cup Ready
    /\ deferred' = (PutOff # {})
    /\ wake' = (wake \/ PutOff # {})
    /\ pc' = "sleep"
    /\ UNCHANGED <<screen, gen, geom, watching, pendingKey, shadow, lastGen, tick, adds>>

-----------------------------------------------------------------------------
Init ==
    /\ screen \in Screen /\ gen = 0 /\ wake = FALSE /\ geom = FALSE
    /\ watching = {} /\ soon = {} /\ w = [s \in Subs |-> NewWatcher]
    /\ pendingKey = FALSE /\ deferred = FALSE
    /\ shadow = NoScreen /\ lastGen = 0 /\ pc = "sleep" /\ tick = NoTick
    /\ seen = [s \in Subs |-> NoView] /\ told = {} /\ adds = 0

Run == Wakes \/ Load \/ Look \/ Diff \/ Mark \/ Retry \/ Deliver

Next ==
    \/ Paint \/ Resize \/ Run
    \/ \E s \in Subs : Add(s) \/ Remove(s) \/ Resync(s) \/ Expire(s) \/ Reads(s)

Spec == Init /\ [][Next]_vars

-----------------------------------------------------------------------------
\* The client's picture is the pane's, or it has been told to read the pane.
Current(s) ==
    \/ s \in told
    \/ /\ seen[s].rows = screen.rows /\ seen[s].head = screen.head
       /\ seen[s].shape = screen.shape

\* stream.go 371-388: nothing else remembers.  When the framer sleeps and no wake
\* is in its channel, nothing will bring it back until the pane moves: so no
\* watcher may be owed anything, and every client that is sent frames shows the
\* screen as it is.  A change that was rate limited, or that fell into the tick
\* under way, has not been lost.
Settled(s) == ~w[s].pending /\ ~w[s].key /\ (w[s].mode = "frames" => Current(s))

AsleepMeansCurrent ==
    pc = "sleep" /\ ~wake => \A s \in watching : Settled(s)

\* stream.go 311-316: a row the shadow has already swallowed is still owed to
\* whoever was not shown it.
StaleRowsAreOwed ==
    \A s \in watching : w[s].mode = "frames" /\ ~w[s].key /\ pc # "mark" =>
        \A y \in Rows : seen[s].rows[y] # shadow.rows[y] => y \in w[s].dirty /\ w[s].pending

\* stream.go 73-74 and 694-695: a client cannot apply row deltas across a resize,
\* and starts from a keyframe: no delta is for another shape than its keyframe.
DeltasFitTheKeyframe ==
    \A s \in watching : seen[s].shape = seen[s].keyShape

\* No watcher is left behind: neither by a framer asleep nor by one that has
\* already moved its shadow on.
NobodyIsLeftBehind == AsleepMeansCurrent /\ StaleRowsAreOwed
=============================================================================
