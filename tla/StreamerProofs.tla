--------------------------- MODULE StreamerProofs ---------------------------
(***************************************************************************)
(* Theorems about Streamer, for any subscribers, panes and framers: the    *)
(* framer in the table is the one the pane's output wakes, no framer is    *)
(* forgotten, none paints after Shutdown, and who asked to watch           *)
(* everything does.                                                        *)
(*                                                                         *)
(* OneFramerEach is not inductive: a thread could stop a framer that is in *)
(* the table, or clear the handle of a pane that has another one.  It      *)
(* needs that what a thread holds is out of the table (HeldIsOut), that    *)
(* ClosePane holds only its own pane's framer and Shutdown holds framers   *)
(* only once the table is shut (ClosersOwn, ShutIsEmpty).                  *)
(***************************************************************************)
EXTENDS Streamer, TLAPS

Asks == [at : {"resolve", "enter", "leave"}, sub : Subs, pane : Panes]
Has  == [at : {"add", "activate"}, sub : Subs, pane : Panes, fr : Framers]
Jobs == {NoJob, [at |-> "list"]} \cup Asks \cup Has

FramerRec == [pane : Panes, watchers : SUBSET Subs, life : {"running", "told", "gone"}]

TypeOK ==
    /\ pane \in [Panes -> {"absent", "live", "gone", "refused", "cut"}]
    /\ slots \in [Subs -> SUBSET Panes] /\ asked \in [Subs -> SUBSET Panes]
    /\ framers \in [Panes -> Framers \cup {NoFramer}]
    /\ stream \in [Panes -> Framers \cup {NoFramer}]
    /\ framer \in [Framers -> FramerRec]
    /\ all \subseteq Subs /\ dead \subseteq Subs /\ dropped \subseteq Subs
    /\ closed \in BOOLEAN /\ ended \in BOOLEAN
    /\ job \in [Watchers -> Jobs]
    /\ todo \in [Watchers -> SUBSET (Subs \cup Panes)]
    /\ \A s \in Subs : todo[Reader(s)] \subseteq Panes
    /\ \A p \in Panes : todo[Opener(p)] \subseteq Subs
    /\ held \in [Threads -> SUBSET Framers]

\* What a thread has taken out of the table is not in it.
HeldIsOut == \A t \in Threads : \A f \in held[t] : \A p \in Panes : framers[p] # f

\* ClosePane holds its own pane's framer, once the pane is cut off.
ClosersOwn ==
    \A p \in Panes : \A f \in held[Closer(p)] : pane[p] = "cut" /\ framer[f].pane = p

\* A Streamer that is shut has an empty table; an open one has nobody ending it.
ShutIsEmpty ==
    /\ closed => all = {} /\ \A p \in Panes : framers[p] = NoFramer
    /\ ~closed => held[Ender] = {} /\ ~ended
    /\ ended => held[Ender] = {}

\* The framer in the table is the pane's own, runs, and is the one its output
\* wakes unless ClosePane has cut the pane off.
Wakes ==
    \A p \in Panes : framers[p] # NoFramer =>
        /\ framer[framers[p]].pane = p /\ framer[framers[p]].life = "running"
        /\ pane[p] # "cut" => stream[p] = framers[p]

Table == HeldIsOut /\ ClosersOwn /\ ShutIsEmpty /\ Wakes /\ StraysAreHeld

\* Only who may ask to be rid of a pane is leaving one.
LeaversMay == \A s \in Subs : job[Reader(s)].at = "leave" => job[Reader(s)].sub \in Unwatching

\* Whoever watches everything has a slot for a live pane, or will be attached
\* by the reader that is listing the panes or by the opener that is not through.
Attached(s, p) ==
    \/ p \in slots[s]
    \/ job[Reader(s)].at = "list" \/ p \in todo[Reader(s)]
    \/ job[Opener(p)].at = "list" \/ s \in todo[Opener(p)]

AllAttached ==
    \A s \in all \ (dead \cup Unwatching), p \in Panes : pane[p] = "live" => Attached(s, p)

IInv == TypeOK /\ Table /\ LeaversMay /\ AllAttached

-----------------------------------------------------------------------------
LEMMA ThreadNames ==
  /\ \A s, p : Reader(s) # Opener(p) /\ Reader(s) # Closer(p) /\ Opener(s) # Closer(p)
               /\ Reader(s) # Dropper(p) /\ Opener(s) # Dropper(p) /\ Closer(s) # Dropper(p)
               /\ Reader(s) # Ender /\ Opener(s) # Ender /\ Closer(s) # Ender
               /\ Dropper(s) # Ender
  /\ \A x, y : /\ Reader(x) = Reader(y) => x = y
               /\ Opener(x) = Opener(y) => x = y
               /\ Closer(x) = Closer(y) => x = y
               /\ Dropper(x) = Dropper(y) => x = y
  /\ \A x \in Subs : Reader(x) \in Watchers /\ Reader(x) \in Threads /\ Dropper(x) \in Threads
  /\ \A x \in Panes : Opener(x) \in Watchers /\ Opener(x) \in Threads /\ Closer(x) \in Threads
  /\ Ender \in Threads /\ Watchers \subseteq Threads
  /\ \A t \in Watchers : (\E s \in Subs : t = Reader(s)) \/ \E p \in Panes : t = Opener(p)
BY DEF Reader, Opener, Closer, Dropper, Ender, Watchers, Threads

LEMMA InitInv == Init => IInv
<1> SUFFICES ASSUME Init PROVE IInv
  OBVIOUS
<1>1. TypeOK
  <2>1. (CHOOSE p \in Panes : TRUE) \in Panes
    BY StreamerConstants
  <2>2. \A f \in Framers : framer[f] \in FramerRec
    BY <2>1 DEF Init, FramerRec
  <2>3. framer \in [Framers -> FramerRec]
    BY <2>2 DEF Init
  <2> QED BY <2>3, ThreadNames DEF Init, TypeOK, Jobs
<1>2. Table
  BY ThreadNames DEF Init, Table, HeldIsOut, ClosersOwn, ShutIsEmpty, Wakes, StraysAreHeld
<1>3. LeaversMay /\ AllAttached
  BY ThreadNames DEF Init, LeaversMay, AllAttached, NoJob
<1> QED BY <1>1, <1>2, <1>3 DEF IInv

-----------------------------------------------------------------------------
(* Types.                                                                  *)

LEMMA JobTypes ==
  ASSUME TypeOK, NEW t \in Watchers
  PROVE  /\ job[t] \in Jobs
         /\ job[t].at \in {"resolve", "enter", "leave"} => job[t] \in Asks
         /\ job[t].at \in {"add", "activate"} => job[t] \in Has
         /\ NoJob.at = "idle"
BY DEF TypeOK, Jobs, Asks, Has, NoJob

LEMMA BeginType ==
  ASSUME TypeOK, NEW t \in Watchers, NEW s \in Subs, NEW p \in Panes, Begin(t, s, p)
  PROVE  /\ slots' \in [Subs -> SUBSET Panes]
         /\ job' \in [Watchers -> Jobs]
<1>1. [at |-> "resolve", sub |-> s, pane |-> p] \in Jobs
  BY DEF Jobs, Asks
<1> QED BY <1>1 DEF Begin, TypeOK

LEMMA GiveUpType ==
  ASSUME TypeOK, NEW t \in Watchers, GiveUp(t)
  PROVE  /\ slots' \in [Subs -> SUBSET Panes]
         /\ job' \in [Watchers -> Jobs]
BY DEF GiveUp, TypeOK, Jobs

LEMMA TakesType ==
  ASSUME TypeOK, NEW t \in Threads, NEW fs, fs \subseteq Framers, Takes(t, fs)
  PROVE  /\ held' \in [Threads -> SUBSET Framers]
         /\ framers' \in [Panes -> Framers \cup {NoFramer}]
         /\ stream' \in [Panes -> Framers \cup {NoFramer}]
BY DEF Takes, TypeOK

LEMMA BatchPair ==
  ASSUME TypeOK, NEW t \in Watchers, NEW x \in todo[t]
  PROVE  NextOf(t, x)[1] \in Subs /\ NextOf(t, x)[2] \in Panes
<1>1. CASE \E s \in Subs : t = Reader(s)
  BY <1>1 DEF NextOf, Reader, TypeOK
<1>2. CASE \E p \in Panes : t = Opener(p)
  BY <1>2 DEF NextOf, Opener, TypeOK
<1> QED BY <1>1, <1>2, ThreadNames

LEMMA StartedType ==
  ASSUME TypeOK, NEW f \in Framers, NEW p \in Panes, Started(f, p)
  PROVE  /\ framers' \in [Panes -> Framers \cup {NoFramer}]
         /\ stream' \in [Panes -> Framers \cup {NoFramer}]
         /\ framer' \in [Framers -> FramerRec]
<1>1. [pane |-> p, watchers |-> {}, life |-> "running"] \in FramerRec
  BY DEF FramerRec
<1> QED BY <1>1 DEF Started, TypeOK

\* The nested updates, said once.
LEMMA LifeUpdate ==
  ASSUME TypeOK, NEW f \in Framers, NEW l \in {"running", "told", "gone"},
         framer' = [framer EXCEPT ![f].life = l]
  PROVE  /\ framer' \in [Framers -> FramerRec]
         /\ framer'[f].life = l /\ framer'[f].pane = framer[f].pane
         /\ \A g \in Framers : g # f => framer'[g] = framer[g]
<1>1. framer[f] \in FramerRec
  BY DEF TypeOK
<1>2. [framer[f] EXCEPT !.life = l] \in FramerRec
  BY <1>1 DEF FramerRec
<1>3. framer' = [framer EXCEPT ![f] = [framer[f] EXCEPT !.life = l]]
  OBVIOUS
<1>4. framer' \in [Framers -> FramerRec]
  BY <1>2, <1>3 DEF TypeOK
<1>5. framer'[f] = [framer[f] EXCEPT !.life = l]
  BY <1>3 DEF TypeOK
<1>6. \A g \in Framers : g # f => framer'[g] = framer[g]
  BY <1>3 DEF TypeOK
<1> QED BY <1>1, <1>4, <1>5, <1>6 DEF FramerRec

\* framer differs at most in who watches.
SameFramers ==
    /\ framer' \in [Framers -> FramerRec]
    /\ \A g \in Framers : framer'[g].pane = framer[g].pane /\ framer'[g].life = framer[g].life

LEMMA WatchersUpdate ==
  ASSUME TypeOK, NEW f \in Framers, NEW w, w \subseteq Subs,
         framer' = [framer EXCEPT ![f].watchers = w]
  PROVE  SameFramers
<1>1. framer[f] \in FramerRec
  BY DEF TypeOK
<1>2. [framer[f] EXCEPT !.watchers = w] \in FramerRec
  BY <1>1 DEF FramerRec
<1>3. framer' = [framer EXCEPT ![f] = [framer[f] EXCEPT !.watchers = w]]
  OBVIOUS
<1>4. framer' \in [Framers -> FramerRec]
  BY <1>2, <1>3 DEF TypeOK
<1>5. framer'[f] = [framer[f] EXCEPT !.watchers = w]
  BY <1>3 DEF TypeOK
<1>6. \A g \in Framers : g # f => framer'[g] = framer[g]
  BY <1>3 DEF TypeOK
<1>7. framer'[f].pane = framer[f].pane /\ framer'[f].life = framer[f].life
  BY <1>1, <1>5 DEF FramerRec
<1> QED BY <1>4, <1>6, <1>7 DEF SameFramers

LEMMA UnchangedFramers ==
  ASSUME TypeOK, framer' = framer
  PROVE  SameFramers
BY DEF TypeOK, SameFramers

LEMMA TypeStep == TypeOK /\ [Next]_vars => TypeOK'
<1> SUFFICES ASSUME TypeOK, [Next]_vars PROVE TypeOK'
  OBVIOUS
<1> USE ThreadNames
<1>1. ASSUME NEW s \in Subs, NEW p \in Panes, WatchRequest(s, p) PROVE TypeOK'
  BY <1>1, BeginType DEF WatchRequest, TypeOK
<1>2. ASSUME NEW s \in Subs, NEW p \in Panes, UnwatchRequest(s, p) PROVE TypeOK'
  <2>1. framer' \in [Framers -> FramerRec] /\ held' \in [Threads -> SUBSET Framers]
        /\ framers' \in [Panes -> Framers \cup {NoFramer}]
        /\ stream' \in [Panes -> Framers \cup {NoFramer}]
    <3>1. CASE framers[p] = NoFramer
      BY <1>2, <3>1 DEF UnwatchRequest, TypeOK
    <3>2. CASE framers[p] # NoFramer
      <4>1. framers[p] \in Framers
        BY <3>2 DEF TypeOK
      <4>2. framer[framers[p]].watchers \ {s} \subseteq Subs
        BY <4>1 DEF TypeOK, FramerRec
      <4>3. framer' = [framer EXCEPT ![framers[p]].watchers
                                     = framer[framers[p]].watchers \ {s}]
        BY <1>2, <3>2, <4>1 DEF UnwatchRequest, Removed, TypeOK
      <4>4. SameFramers
        BY <4>1, <4>2, <4>3, WatchersUpdate
      <4>5. PICK fs : fs \subseteq Framers /\ Takes(Reader(s), fs)
        BY <1>2, <3>2, <4>1 DEF UnwatchRequest
      <4> QED BY <4>4, <4>5, TakesType DEF SameFramers
    <3> QED BY <3>1, <3>2
  <2>2. [at |-> "leave", sub |-> s, pane |-> p] \in Jobs
    BY DEF Jobs, Asks
  <2>3. job' \in [Watchers -> Jobs]
    BY <1>2, <2>2 DEF UnwatchRequest, TypeOK
  <2> QED BY <1>2, <2>1, <2>3 DEF UnwatchRequest, TypeOK
<1>3. ASSUME NEW t \in Watchers, BatchWatch(t) PROVE TypeOK'
  <2>1. PICK x \in todo[t] : /\ Begin(t, NextOf(t, x)[1], NextOf(t, x)[2])
                             /\ todo' = [todo EXCEPT ![t] = @ \ {x}]
    BY <1>3 DEF BatchWatch
  <2>2. slots' \in [Subs -> SUBSET Panes] /\ job' \in [Watchers -> Jobs]
    BY <2>1, BatchPair, BeginType
  <2>3. /\ todo' \in [Watchers -> SUBSET (Subs \cup Panes)]
        /\ \A w \in Watchers : todo'[w] \subseteq todo[w]
    BY <2>1 DEF TypeOK
  <2>4. /\ \A s \in Subs : todo'[Reader(s)] \subseteq Panes
        /\ \A p \in Panes : todo'[Opener(p)] \subseteq Subs
    BY <2>3 DEF TypeOK
  <2> QED BY <1>3, <2>2, <2>3, <2>4 DEF BatchWatch, TypeOK
<1>4. ASSUME NEW t \in Watchers, Resolve(t) PROVE TypeOK'
  <2>1. CASE pane[job[t].pane] = "live"
    <3>1. job[t] \in Asks
      BY <1>4, JobTypes DEF Resolve
    <3>2. [job[t] EXCEPT !.at = "enter"] \in Jobs
      BY <3>1 DEF Jobs, Asks
    <3>3. job' = [job EXCEPT ![t] = [job[t] EXCEPT !.at = "enter"]]
      BY <1>4, <2>1 DEF Resolve
    <3>4. job' \in [Watchers -> Jobs]
      BY <3>2, <3>3 DEF TypeOK
    <3> QED BY <1>4, <2>1, <3>4 DEF Resolve, TypeOK
  <2>2. CASE pane[job[t].pane] # "live"
    BY <1>4, <2>2, GiveUpType DEF Resolve, TypeOK
  <2> QED BY <2>1, <2>2
<1>5. ASSUME NEW t \in Watchers, Enter(t) PROVE TypeOK'
  <2>1. job[t] \in Asks
    BY <1>5, JobTypes DEF Enter
  <2>2. CASE closed
    <3>1. GiveUp(t) /\ UNCHANGED <<framers, stream, framer>>
      BY <1>5, <2>2 DEF Enter, ShutDown
    <3> QED BY <1>5, <3>1, GiveUpType DEF Enter, TypeOK
  <2>3. CASE ~closed
    <3>1. PICK f \in Framers :
            /\ job' = [job EXCEPT ![t] = [at |-> "add", sub |-> @.sub,
                                          pane |-> job[t].pane, fr |-> f]]
            /\ \/ UNCHANGED <<framers, stream, framer>>
               \/ Started(f, job[t].pane)
            /\ UNCHANGED slots
      BY <1>5, <2>1, <2>3 DEF Enter, ShutDown, Missing, TypeOK, Asks
    <3>2. [at |-> "add", sub |-> job[t].sub, pane |-> job[t].pane, fr |-> f] \in Jobs
      BY <2>1 DEF Jobs, Asks, Has
    <3>3. job' \in [Watchers -> Jobs]
      BY <3>1, <3>2 DEF TypeOK
    <3>4. /\ framers' \in [Panes -> Framers \cup {NoFramer}]
          /\ stream' \in [Panes -> Framers \cup {NoFramer}]
          /\ framer' \in [Framers -> FramerRec]
      <4>1. job[t].pane \in Panes
        BY <2>1 DEF Asks
      <4>2. CASE Started(f, job[t].pane)
        BY <4>1, <4>2, StartedType
      <4> QED BY <3>1, <4>2 DEF TypeOK
    <3> QED BY <1>5, <3>1, <3>3, <3>4 DEF Enter, TypeOK
  <2> QED BY <2>2, <2>3 DEF TypeOK
<1>6. ASSUME NEW t \in Watchers, Add(t) PROVE TypeOK'
  <2>1. job[t] \in Has
    BY <1>6, JobTypes DEF Add
  <2>2. job[t].fr \in Framers /\ job[t].sub \in Subs
    BY <2>1 DEF Has
  <2>3. framer[job[t].fr].watchers \cup {job[t].sub} \subseteq Subs
    BY <2>2 DEF TypeOK, FramerRec
  <2>4. framer' = [framer EXCEPT ![job[t].fr].watchers
                                 = framer[job[t].fr].watchers \cup {job[t].sub}]
    BY <1>6, <2>2 DEF Add, TypeOK
  <2>5. SameFramers
    BY <2>2, <2>3, <2>4, WatchersUpdate
  <2>6. [job[t] EXCEPT !.at = "activate"] \in Jobs
    BY <2>1 DEF Jobs, Has
  <2>7. job' = [job EXCEPT ![t] = [job[t] EXCEPT !.at = "activate"]]
    BY <1>6 DEF Add
  <2>8. job' \in [Watchers -> Jobs]
    BY <2>6, <2>7 DEF TypeOK
  <2> QED BY <1>6, <2>5, <2>8 DEF Add, TypeOK, SameFramers
<1>7. ASSUME NEW t \in Watchers, Activate(t) PROVE TypeOK'
  <2>1. job[t] \in Has
    BY <1>7, JobTypes DEF Activate
  <2>2. asked' \in [Subs -> SUBSET Panes]
    BY <1>7, <2>1 DEF Activate, TypeOK, Has
  <2>3. job' \in [Watchers -> Jobs]
    BY <1>7 DEF Activate, TypeOK, Jobs
  <2> QED BY <1>7, <2>2, <2>3 DEF Activate, TypeOK
<1>8. ASSUME NEW s \in Subs, SubStep(s) \/ Die(s) PROVE TypeOK'
  <2>1. CASE Leave(s)
    BY <2>1, GiveUpType DEF Leave, TypeOK
  <2>2. CASE WatchAll(s)
    BY <2>2 DEF WatchAll, TypeOK, Jobs
  <2>3. CASE List(s)
    <3>1. Listed \subseteq Panes
      BY DEF Listed
    <3>2. job' \in [Watchers -> Jobs]
      BY <2>3 DEF List, TypeOK, Jobs
    <3>3. /\ todo' \in [Watchers -> SUBSET (Subs \cup Panes)]
          /\ \A u \in Subs : todo'[Reader(u)] \subseteq Panes
          /\ \A p \in Panes : todo'[Opener(p)] \subseteq Subs
      BY <2>3, <3>1 DEF List, TypeOK
    <3> QED BY <2>3, <3>2, <3>3 DEF List, TypeOK
  <2>4. CASE Drop(s)
    <3> DEFINE listed == {framers[p] : p \in Panes} \ {NoFramer}
    <3>1. listed \subseteq Framers
      BY DEF TypeOK
    <3>2. \A f \in Framers : framer'[f] \in FramerRec
      <4>1. SUFFICES ASSUME NEW f \in Framers PROVE framer'[f] \in FramerRec
        OBVIOUS
      <4>2. \/ framer'[f] = [framer[f] EXCEPT !.watchers = @ \ {s}]
            \/ framer'[f] = framer[f]
        BY <2>4 DEF Drop
      <4>3. framer[f] \in FramerRec
        BY DEF TypeOK
      <4> QED BY <4>2, <4>3 DEF FramerRec
    <3>3. framer' \in [Framers -> FramerRec]
      BY <2>4, <3>2 DEF Drop
    <3>4. PICK fs : fs \subseteq Framers /\ Takes(Dropper(s), fs)
      BY <2>4, <3>1 DEF Drop
    <3> QED BY <2>4, <3>3, <3>4, TakesType DEF Drop, TypeOK
  <2>5. CASE Die(s)
    BY <2>5 DEF Die, TypeOK
  <2> QED BY <1>8, <2>1, <2>2, <2>3, <2>4, <2>5 DEF SubStep
<1>9. ASSUME NEW p \in Panes, PaneStep(p) \/ OpenPane(p) \/ ClosePane(p) PROVE TypeOK'
  <2>1. CASE PaneOpened(p)
    <3>1. job' \in [Watchers -> Jobs]
      BY <2>1 DEF PaneOpened, TypeOK, Jobs
    <3>2. /\ todo' \in [Watchers -> SUBSET (Subs \cup Panes)]
          /\ \A u \in Subs : todo'[Reader(u)] \subseteq Panes
          /\ \A q \in Panes : todo'[Opener(q)] \subseteq Subs
      BY <2>1 DEF PaneOpened, TypeOK
    <3> QED BY <2>1, <3>1, <3>2 DEF PaneOpened, TypeOK
  <2>2. CASE HubPaneClosed(p)
    BY <2>2 DEF HubPaneClosed, TypeOK
  <2>3. CASE PaneClosed(p)
    BY <2>3 DEF PaneClosed, TypeOK
  <2>4. CASE OpenPane(p)
    BY <2>4 DEF OpenPane, TypeOK, Jobs
  <2>5. CASE ClosePane(p)
    BY <2>5 DEF ClosePane, TypeOK
  <2> QED BY <1>9, <2>1, <2>2, <2>3, <2>4, <2>5 DEF PaneStep
<1>10. ASSUME NEW t \in Threads, JoinStep(t) PROVE TypeOK'
  <2>1. CASE Stop(t)
    <3>1. PICK f \in held[t] :
            /\ framer' = [framer EXCEPT ![f].life = "told"]
            /\ stream' = IF ClearsStream(t)
                         THEN [stream EXCEPT ![framer[f].pane] = NoFramer] ELSE stream
      BY <2>1 DEF Stop
    <3>2. f \in Framers
      BY DEF TypeOK
    <3>3. framer' \in [Framers -> FramerRec]
      BY <3>1, <3>2, LifeUpdate
    <3>4. stream' \in [Panes -> Framers \cup {NoFramer}]
      BY <3>1 DEF TypeOK
    <3> QED BY <2>1, <3>3, <3>4 DEF Stop, TypeOK
  <2>2. CASE Joined(t)
    BY <2>2 DEF Joined, TypeOK
  <2> QED BY <1>10, <2>1, <2>2 DEF JoinStep
<1>11. ASSUME NEW f \in Framers, Exit(f) PROVE TypeOK'
  BY <1>11, LifeUpdate DEF Exit, TypeOK
<1>12. CASE Shutdown
  BY <1>12 DEF Shutdown, TypeOK
<1>13. CASE Ended
  BY <1>13 DEF Ended, TypeOK
<1>14. CASE UNCHANGED vars
  BY <1>14 DEF vars, TypeOK
<1> QED BY <1>1, <1>2, <1>3, <1>4, <1>5, <1>6, <1>7, <1>8, <1>9, <1>10, <1>11, <1>12,
           <1>13, <1>14 DEF Next, WatchStep

-----------------------------------------------------------------------------
(* The table.                                                              *)

\* Nobody is cut off and nobody brought back.
SameCuts == \A p \in Panes : pane[p] = "cut" <=> pane'[p] = "cut"

LEMMA SameTable ==
  ASSUME TypeOK, Table, UNCHANGED <<framers, stream, held, closed, ended>>,
         SameFramers, SameCuts, closed => all' \subseteq all
  PROVE  Table'
<1>1. HeldIsOut' /\ ShutIsEmpty'
  BY DEF Table, HeldIsOut, ShutIsEmpty
<1>2. ClosersOwn'
  BY ThreadNames DEF Table, ClosersOwn, SameCuts, SameFramers, TypeOK
<1>3. Wakes'
  BY DEF Table, Wakes, SameCuts, SameFramers, TypeOK
<1>4. StraysAreHeld'
  BY DEF Table, StraysAreHeld, SameFramers
<1> QED BY <1>1, <1>2, <1>3, <1>4 DEF Table

\* A thread that holds nothing takes what it emptied out of the table.
LEMMA TakenTable ==
  ASSUME TypeOK, Table, NEW t \in Threads, held[t] = {}, NEW fs, Takes(t, fs),
         fs \subseteq {framers[p] : p \in Panes} \ {NoFramer},
         \A p \in Panes : t # Closer(p), t # Ender,
         SameFramers, UNCHANGED <<pane, closed, ended>>, all' \subseteq all
  PROVE  Table'
<1>1. /\ \A u \in Threads : held'[u] = IF u = t THEN fs ELSE held[u]
      /\ \A p \in Panes : /\ framers'[p] = IF framers[p] \in fs THEN NoFramer ELSE framers[p]
                          /\ stream'[p] = IF framers[p] \in fs THEN NoFramer ELSE stream[p]
  BY DEF Takes, TypeOK
<1>2. NoFramer \notin fs /\ fs \subseteq Framers
  BY StreamerConstants DEF TypeOK
<1>3. HeldIsOut'
  <2>1. SUFFICES ASSUME NEW u \in Threads, NEW f \in held'[u], NEW p \in Panes
                 PROVE  framers'[p] # f
    BY DEF HeldIsOut
  <2>2. f # NoFramer
    BY <1>1, <1>2, StreamerConstants DEF TypeOK
  <2> QED BY <1>1, <2>2 DEF Table, HeldIsOut
<1>4. ClosersOwn'
  <2>1. SUFFICES ASSUME NEW p \in Panes, NEW f \in held'[Closer(p)]
                 PROVE  pane'[p] = "cut" /\ framer'[f].pane = p
    BY DEF ClosersOwn
  <2>2. f \in held[Closer(p)] /\ f \in Framers
    BY <1>1, ThreadNames DEF TypeOK
  <2> QED BY <2>2 DEF Table, ClosersOwn, SameFramers
<1>5. ShutIsEmpty'
  BY <1>1, ThreadNames DEF Table, ShutIsEmpty
<1>6. Wakes'
  <2>1. SUFFICES ASSUME NEW p \in Panes, framers'[p] # NoFramer
                 PROVE  /\ framer'[framers'[p]].pane = p
                        /\ framer'[framers'[p]].life = "running"
                        /\ pane'[p] # "cut" => stream'[p] = framers'[p]
    BY DEF Wakes
  <2>2. framers'[p] = framers[p] /\ stream'[p] = stream[p] /\ framers[p] \in Framers
    BY <1>1, <2>1 DEF TypeOK
  <2> QED BY <2>1, <2>2 DEF Table, Wakes, SameFramers
<1>7. StraysAreHeld'
  <2>1. SUFFICES ASSUME NEW f \in Framers, framer'[f].life # "gone"
                 PROVE  \/ \E p \in Panes : framers'[p] = f
                        \/ \E u \in Threads : f \in held'[u]
    BY DEF StraysAreHeld
  <2>2. framer[f].life # "gone"
    BY <2>1 DEF SameFramers
  <2>3. CASE \E u \in Threads : f \in held[u]
    BY <1>1, <2>3
  <2>4. CASE \E p \in Panes : framers[p] = f
    BY <1>1, <2>4
  <2> QED BY <2>2, <2>3, <2>4 DEF Table, StraysAreHeld
<1> QED BY <1>3, <1>4, <1>5, <1>6, <1>7 DEF Table

\* A framer nothing refers to is not in the table, nor held, nor running.
LEMMA FreshFramer ==
  ASSUME TypeOK, NEW f \in Framers \ Reachable
  PROVE  /\ \A p \in Panes : framers[p] # f
         /\ \A t \in Threads : f \notin held[t]
         /\ framer[f].life = "gone"
<1>1. ASSUME NEW p \in Panes PROVE framers[p] # f
  BY DEF Reachable, Held
<1>2. ASSUME NEW t \in Threads PROVE f \notin held[t]
  BY DEF Reachable, Held
<1>3. framer[f].life = "gone"
  BY DEF Reachable, Alive
<1> QED BY <1>1, <1>2, <1>3

LEMMA StartedTable ==
  ASSUME TypeOK, Table, NEW p \in Panes, framers[p] = NoFramer, ~closed,
         NEW f \in Framers \ Reachable, Started(f, p),
         UNCHANGED <<pane, held, closed, all, ended>>
  PROVE  Table'
<1>1. /\ framers'[p] = f /\ stream'[p] = f
      /\ \A q \in Panes : q # p => framers'[q] = framers[q] /\ stream'[q] = stream[q]
      /\ framer'[f].pane = p /\ framer'[f].life = "running"
      /\ \A g \in Framers : g # f => framer'[g] = framer[g]
  BY DEF Started, TypeOK
<1>2. /\ \A q \in Panes : framers[q] # f
      /\ \A t \in Threads : f \notin held[t]
  BY FreshFramer
<1>3. HeldIsOut'
  BY <1>1, <1>2 DEF Table, HeldIsOut
<1>4. ClosersOwn'
  <2>1. SUFFICES ASSUME NEW q \in Panes, NEW g \in held'[Closer(q)]
                 PROVE  pane'[q] = "cut" /\ framer'[g].pane = q
    BY DEF ClosersOwn
  <2>2. g \in held[Closer(q)] /\ g \in Framers /\ g # f
    BY <1>2, ThreadNames DEF TypeOK
  <2> QED BY <1>1, <2>2 DEF Table, ClosersOwn
<1>5. ShutIsEmpty'
  BY DEF Table, ShutIsEmpty
<1>6. Wakes'
  <2>1. SUFFICES ASSUME NEW q \in Panes, framers'[q] # NoFramer
                 PROVE  /\ framer'[framers'[q]].pane = q
                        /\ framer'[framers'[q]].life = "running"
                        /\ pane'[q] # "cut" => stream'[q] = framers'[q]
    BY DEF Wakes
  <2>2. CASE q = p
    BY <1>1, <2>2
  <2>3. CASE q # p
    <3>1. framers'[q] = framers[q] /\ framers[q] \in Framers /\ framers[q] # f
      BY <1>1, <1>2, <2>1, <2>3 DEF TypeOK
    <3> QED BY <1>1, <2>1, <2>3, <3>1 DEF Table, Wakes
  <2> QED BY <2>2, <2>3
<1>7. StraysAreHeld'
  <2>1. SUFFICES ASSUME NEW g \in Framers, framer'[g].life # "gone"
                 PROVE  \/ \E q \in Panes : framers'[q] = g
                        \/ \E u \in Threads : g \in held'[u]
    BY DEF StraysAreHeld
  <2>2. CASE g = f
    BY <1>1, <2>2
  <2>3. CASE g # f
    <3>1. framer[g].life # "gone"
      BY <1>1, <2>1, <2>3
    <3>2. CASE \E q \in Panes : framers[q] = g
      <4>1. PICK q \in Panes : framers[q] = g
        BY <3>2
      <4>2. q # p
        BY <4>1, StreamerConstants
      <4> QED BY <1>1, <4>1, <4>2
    <3> QED BY <3>1, <3>2 DEF Table, StraysAreHeld
  <2> QED BY <2>2, <2>3
<1> QED BY <1>3, <1>4, <1>5, <1>6, <1>7 DEF Table

\* paneClosed takes the pane's framer, whoever watches.
LEMMA PaneClosedTable ==
  ASSUME TypeOK, Table, NEW p \in Panes, PaneClosed(p)
  PROVE  Table'
<1>1. /\ framers'[p] = NoFramer
      /\ \A q \in Panes : q # p => framers'[q] = framers[q] /\ pane'[q] = pane[q]
      /\ pane'[p] = "cut" /\ pane[p] = "refused"
      /\ UNCHANGED <<stream, framer, closed, ended, all>>
  BY DEF PaneClosed, TypeOK
<1>2. \A u \in Threads : held'[u] = IF u = Closer(p) THEN {framers[p]} \ {NoFramer} ELSE held[u]
  BY DEF PaneClosed, TypeOK
<1>3. held[Closer(p)] = {}
  BY <1>1 DEF Table, ClosersOwn
<1>4. \A q, r \in Panes : framers[q] = framers[r] /\ framers[q] # NoFramer => q = r
  BY DEF Table, Wakes
<1>5. HeldIsOut'
  <2>1. SUFFICES ASSUME NEW u \in Threads, NEW f \in held'[u], NEW q \in Panes
                 PROVE  framers'[q] # f
    BY DEF HeldIsOut
  <2>2. f # NoFramer
    BY <1>2, StreamerConstants DEF TypeOK
  <2> QED BY <1>1, <1>2, <1>4, <2>2 DEF Table, HeldIsOut
<1>6. ClosersOwn'
  <2>1. SUFFICES ASSUME NEW q \in Panes, NEW f \in held'[Closer(q)]
                 PROVE  pane'[q] = "cut" /\ framer'[f].pane = q
    BY DEF ClosersOwn
  <2>2. CASE q = p
    BY <1>1, <1>2, <2>1, <2>2, ThreadNames DEF Table, Wakes
  <2>3. CASE q # p
    BY <1>1, <1>2, <2>1, <2>3, ThreadNames DEF Table, ClosersOwn
  <2> QED BY <2>2, <2>3
<1>7. ShutIsEmpty'
  BY <1>1, <1>2, ThreadNames DEF Table, ShutIsEmpty
<1>8. Wakes'
  BY <1>1 DEF Table, Wakes
<1>9. StraysAreHeld'
  <2>1. SUFFICES ASSUME NEW f \in Framers, framer[f].life # "gone"
                 PROVE  \/ \E q \in Panes : framers'[q] = f
                        \/ \E u \in Threads : f \in held'[u]
    BY <1>1 DEF StraysAreHeld
  <2>2. CASE \E u \in Threads : f \in held[u]
    BY <1>2, <1>3, <2>2
  <2>3. CASE \E q \in Panes : framers[q] = f
    <3>1. PICK q \in Panes : framers[q] = f
      BY <2>3
    <3>2. CASE q = p
      BY <1>2, <3>1, <3>2, ThreadNames, StreamerConstants
    <3> QED BY <1>1, <3>1, <3>2
  <2> QED BY <2>1, <2>2, <2>3 DEF Table, StraysAreHeld
<1> QED BY <1>5, <1>6, <1>7, <1>8, <1>9 DEF Table

LEMMA ShutdownTable ==
  ASSUME TypeOK, Table, Shutdown
  PROVE  Table'
<1>1. /\ \A p \in Panes : framers'[p] = NoFramer
      /\ closed' /\ ~closed /\ all' = {} /\ UNCHANGED <<pane, stream, framer, ended>>
  BY DEF Shutdown
<1>2. \A u \in Threads : held'[u] = IF u = Ender THEN {framers[p] : p \in Panes} \ {NoFramer}
                                                 ELSE held[u]
  BY DEF Shutdown, TypeOK
<1>3. held[Ender] = {} /\ ~ended
  BY <1>1 DEF Table, ShutIsEmpty
<1>4. HeldIsOut'
  <2>1. \A u \in Threads : NoFramer \notin held'[u]
    BY <1>2, StreamerConstants DEF TypeOK
  <2> QED BY <1>1, <2>1 DEF HeldIsOut
<1>5. ClosersOwn'
  BY <1>1, <1>2, ThreadNames DEF Table, ClosersOwn
<1>6. ShutIsEmpty'
  BY <1>1, <1>3 DEF ShutIsEmpty
<1>7. Wakes'
  BY <1>1 DEF Wakes
<1>8. StraysAreHeld'
  <2>1. SUFFICES ASSUME NEW f \in Framers, framer[f].life # "gone"
                 PROVE  \E u \in Threads : f \in held'[u]
    BY <1>1 DEF StraysAreHeld
  <2>2. CASE \E u \in Threads : f \in held[u]
    BY <1>2, <1>3, <2>2
  <2>3. CASE \E q \in Panes : framers[q] = f
    <3>1. f # NoFramer
      BY StreamerConstants
    <3>2. f \in {framers[p] : p \in Panes} \ {NoFramer}
      BY <2>3, <3>1
    <3>3. Ender \in Threads
      BY ThreadNames
    <3> QED BY <1>2, <3>2, <3>3
  <2> QED BY <2>1, <2>2, <2>3 DEF Table, StraysAreHeld
<1> QED BY <1>4, <1>5, <1>6, <1>7, <1>8 DEF Table

\* A framer that is told is held, and the handle its owner clears is its pane's own.
LEMMA StopTable ==
  ASSUME TypeOK, Table, NEW t \in Threads, Stop(t)
  PROVE  Table'
<1>1. PICK f \in held[t] :
            /\ framer' = [framer EXCEPT ![f].life = "told"]
            /\ stream' = IF ClearsStream(t)
                         THEN [stream EXCEPT ![framer[f].pane] = NoFramer] ELSE stream
  BY DEF Stop
<1>2. f \in Framers /\ UNCHANGED <<pane, framers, all, closed, held, ended>>
  BY DEF Stop, TypeOK
<1>3. /\ framer'[f].life = "told"
      /\ \A g \in Framers : framer'[g].pane = framer[g].pane
      /\ \A g \in Framers : g # f => framer'[g] = framer[g]
  BY <1>1, <1>2, LifeUpdate
<1>4. HeldIsOut' /\ ShutIsEmpty'
  BY <1>2 DEF Table, HeldIsOut, ShutIsEmpty
<1>5. ClosersOwn'
  BY <1>2, <1>3, ThreadNames DEF Table, ClosersOwn, TypeOK
<1>6. Wakes'
  <2>1. SUFFICES ASSUME NEW p \in Panes, framers[p] # NoFramer
                 PROVE  /\ framer'[framers[p]].pane = p
                        /\ framer'[framers[p]].life = "running"
                        /\ pane[p] # "cut" => stream'[p] = framers[p]
    BY <1>2 DEF Wakes
  <2>2. framers[p] \in Framers /\ framers[p] # f
    BY <2>1 DEF Table, HeldIsOut, TypeOK
  <2>3. ASSUME pane[p] # "cut" PROVE stream'[p] = stream[p]
    <3>1. CASE t[1] = "ender"
      <4>1. t = Ender
        BY <3>1 DEF Threads, Watchers, Reader, Opener, Closer, Dropper, Ender
      <4> QED BY <2>1, <4>1 DEF Table, ShutIsEmpty
    <3>2. CASE t[1] = "closer"
      <4>1. PICK q \in Panes : t = Closer(q)
        BY <3>2 DEF Threads, Watchers, Reader, Opener, Closer, Dropper, Ender
      <4>2. framer[f].pane = q /\ pane[q] = "cut"
        BY <4>1 DEF Table, ClosersOwn
      <4> QED BY <1>1, <2>3, <4>2 DEF TypeOK
    <3> QED BY <1>1, <3>1, <3>2 DEF ClearsStream
  <2> QED BY <1>3, <2>1, <2>2, <2>3 DEF Table, Wakes
<1>7. StraysAreHeld'
  BY <1>2, <1>3 DEF Table, StraysAreHeld
<1> QED BY <1>4, <1>5, <1>6, <1>7 DEF Table

LEMMA JoinedTable ==
  ASSUME TypeOK, Table, NEW t \in Threads, Joined(t)
  PROVE  Table'
<1>1. PICK f \in held[t] : IsGone(f) /\ held' = [held EXCEPT ![t] = @ \ {f}]
  BY DEF Joined
<1>2. \A u \in Threads : held'[u] \subseteq held[u] /\ held[u] \ {f} \subseteq held'[u]
  BY <1>1 DEF TypeOK
<1>3. UNCHANGED <<pane, framers, stream, framer, all, closed, ended>>
  BY DEF Joined
<1>4. HeldIsOut' /\ ShutIsEmpty'
  BY <1>2, <1>3, ThreadNames DEF Table, HeldIsOut, ShutIsEmpty
<1>5. ClosersOwn'
  BY <1>2, <1>3, ThreadNames DEF Table, ClosersOwn
<1>6. Wakes'
  BY <1>3 DEF Table, Wakes
<1>7. StraysAreHeld'
  BY <1>1, <1>2, <1>3 DEF Table, StraysAreHeld, IsGone
<1> QED BY <1>4, <1>5, <1>6, <1>7 DEF Table

LEMMA ExitTable ==
  ASSUME TypeOK, Table, NEW f \in Framers, Exit(f)
  PROVE  Table'
<1>1. /\ framer'[f].life = "gone" /\ framer[f].life = "told"
      /\ \A g \in Framers : framer'[g].pane = framer[g].pane
      /\ \A g \in Framers : g # f => framer'[g] = framer[g]
      /\ UNCHANGED <<pane, framers, stream, held, all, closed, ended>>
  BY LifeUpdate DEF Exit
<1>2. HeldIsOut' /\ ShutIsEmpty'
  BY <1>1 DEF Table, HeldIsOut, ShutIsEmpty
<1>3. ClosersOwn'
  BY <1>1, ThreadNames DEF Table, ClosersOwn, TypeOK
<1>4. Wakes'
  BY <1>1 DEF Table, Wakes, TypeOK
<1>5. StraysAreHeld'
  BY <1>1 DEF Table, StraysAreHeld
<1> QED BY <1>2, <1>3, <1>4, <1>5 DEF Table

LEMMA TableStep == TypeOK /\ TypeOK' /\ Table /\ [Next]_vars => Table'
<1> SUFFICES ASSUME TypeOK, TypeOK', Table, [Next]_vars PROVE Table'
  OBVIOUS
<1>1. ASSUME NEW s \in Subs, NEW p \in Panes, WatchRequest(s, p) PROVE Table'
  BY <1>1, UnchangedFramers, SameTable DEF WatchRequest, SameCuts
<1>2. ASSUME NEW s \in Subs, NEW p \in Panes, UnwatchRequest(s, p) PROVE Table'
  <2>1. UNCHANGED <<pane, closed, ended, all>>
    BY <1>2 DEF UnwatchRequest
  <2>2. CASE framers[p] = NoFramer
    BY <1>2, <2>2, UnchangedFramers, SameTable DEF UnwatchRequest, SameCuts
  <2>3. CASE framers[p] # NoFramer
    <3>1. framers[p] \in Framers /\ held[Reader(s)] = {}
      BY <1>2, <2>3 DEF TypeOK, UnwatchRequest, Idle
    <3>2. framer[framers[p]].watchers \ {s} \subseteq Subs
      BY <3>1 DEF TypeOK, FramerRec
    <3>3. framer' = [framer EXCEPT ![framers[p]].watchers
                                   = framer[framers[p]].watchers \ {s}]
      BY <1>2, <2>3, <3>1 DEF UnwatchRequest, Removed, TypeOK
    <3>4. SameFramers
      BY <3>1, <3>2, <3>3, WatchersUpdate
    <3>5. PICK fs : fs \subseteq {framers[p]} /\ Takes(Reader(s), fs)
      BY <1>2, <2>3, <3>1 DEF UnwatchRequest
    <3>6. fs \subseteq {framers[q] : q \in Panes} \ {NoFramer}
      BY <2>3, <3>5
    <3>7. Reader(s) \in Threads /\ Reader(s) # Ender /\ \A q \in Panes : Reader(s) # Closer(q)
      BY ThreadNames
    <3> QED BY <2>1, <3>1, <3>4, <3>5, <3>6, <3>7, TakenTable
  <2> QED BY <2>2, <2>3
<1>3. ASSUME NEW t \in Watchers, BatchWatch(t) PROVE Table'
  BY <1>3, UnchangedFramers, SameTable DEF BatchWatch, SameCuts
<1>4. ASSUME NEW t \in Watchers, Resolve(t) PROVE Table'
  BY <1>4, UnchangedFramers, SameTable DEF Resolve, SameCuts
<1>5. ASSUME NEW t \in Watchers, Enter(t) PROVE Table'
  <2>1. UNCHANGED <<pane, all, closed, held, ended>>
    BY <1>5 DEF Enter
  <2>2. CASE UNCHANGED <<framers, stream, framer>>
    BY <2>1, <2>2, UnchangedFramers, SameTable DEF SameCuts
  <2>3. CASE ~UNCHANGED <<framers, stream, framer>>
    <3>1. job[t].pane \in Panes
      BY <1>5, JobTypes DEF Enter, Asks
    <3>2. /\ ~closed /\ framers[job[t].pane] = NoFramer
          /\ \E f \in Framers \ Reachable : Started(f, job[t].pane)
      BY <1>5, <2>3 DEF Enter, ShutDown, Missing
    <3> QED BY <2>1, <3>1, <3>2, StartedTable
  <2> QED BY <2>2, <2>3
<1>6. ASSUME NEW t \in Watchers, Add(t) PROVE Table'
  <2>1. job[t] \in Has
    BY <1>6, JobTypes DEF Add
  <2>2. job[t].fr \in Framers /\ job[t].sub \in Subs
    BY <2>1 DEF Has
  <2>3. framer[job[t].fr].watchers \cup {job[t].sub} \subseteq Subs
    BY <2>2 DEF TypeOK, FramerRec
  <2>4. framer' = [framer EXCEPT ![job[t].fr].watchers
                                 = framer[job[t].fr].watchers \cup {job[t].sub}]
    BY <1>6, <2>2 DEF Add, TypeOK
  <2>5. SameFramers
    BY <2>2, <2>3, <2>4, WatchersUpdate
  <2> QED BY <1>6, <2>5, SameTable DEF Add, SameCuts
<1>7. ASSUME NEW t \in Watchers, Activate(t) PROVE Table'
  BY <1>7, UnchangedFramers, SameTable DEF Activate, SameCuts
<1>8. ASSUME NEW s \in Subs, SubStep(s) \/ Die(s) PROVE Table'
  <2>1. CASE Leave(s)
    BY <2>1, UnchangedFramers, SameTable DEF Leave, SameCuts
  <2>2. CASE WatchAll(s)
    BY <2>2, UnchangedFramers, SameTable DEF WatchAll, SameCuts
  <2>3. CASE List(s)
    BY <2>3, UnchangedFramers, SameTable DEF List, SameCuts
  <2>4. CASE Drop(s)
    <3> DEFINE listed == {framers[p] : p \in Panes} \ {NoFramer}
    <3>1. SameFramers
      <4>1. \A f \in Framers : framer[f] \in FramerRec
        BY DEF TypeOK
      <4>2. ASSUME NEW f \in Framers
            PROVE  framer'[f].pane = framer[f].pane /\ framer'[f].life = framer[f].life
        <5>1. \/ framer'[f] = [framer[f] EXCEPT !.watchers = @ \ {s}]
              \/ framer'[f] = framer[f]
          BY <2>4 DEF Drop
        <5> QED BY <4>1, <5>1 DEF FramerRec
      <4> QED BY <4>2 DEF SameFramers, TypeOK
    <3>2. PICK fs : fs \subseteq listed /\ Takes(Dropper(s), fs)
      BY <2>4 DEF Drop
    <3>3. Dropper(s) \in Threads /\ Dropper(s) # Ender /\ \A q \in Panes : Dropper(s) # Closer(q)
      BY ThreadNames
    <3>4. held[Dropper(s)] = {} /\ UNCHANGED <<pane, closed, ended>> /\ all' \subseteq all
      BY <2>4 DEF Drop
    <3> HIDE DEF listed
    <3>5. fs \subseteq {framers[p] : p \in Panes} \ {NoFramer}
      BY <3>2 DEF listed
    <3> QED BY <3>1, <3>2, <3>3, <3>4, <3>5, TakenTable
  <2>5. CASE Die(s)
    BY <2>5, UnchangedFramers, SameTable DEF Die, SameCuts
  <2> QED BY <1>8, <2>1, <2>2, <2>3, <2>4, <2>5 DEF SubStep
<1>9. ASSUME NEW p \in Panes, PaneStep(p) \/ OpenPane(p) \/ ClosePane(p) PROVE Table'
  <2>1. CASE PaneOpened(p)
    BY <2>1, UnchangedFramers, SameTable DEF PaneOpened, SameCuts
  <2>2. CASE HubPaneClosed(p) \/ OpenPane(p) \/ ClosePane(p)
    <3>1. SameCuts
      BY <2>2 DEF HubPaneClosed, OpenPane, ClosePane, SameCuts, TypeOK
    <3> QED BY <2>2, <3>1, UnchangedFramers, SameTable DEF HubPaneClosed, OpenPane, ClosePane
  <2>3. CASE PaneClosed(p)
    BY <2>3, PaneClosedTable
  <2> QED BY <1>9, <2>1, <2>2, <2>3 DEF PaneStep
<1>10. ASSUME NEW t \in Threads, JoinStep(t) PROVE Table'
  BY <1>10, StopTable, JoinedTable DEF JoinStep
<1>11. ASSUME NEW f \in Framers, Exit(f) PROVE Table'
  BY <1>11, ExitTable
<1>12. CASE Shutdown
  BY <1>12, ShutdownTable
<1>13. CASE Ended
  <2>1. SameFramers /\ SameCuts
    BY <1>13, UnchangedFramers DEF Ended, SameCuts
  <2>2. HeldIsOut' /\ ClosersOwn' /\ Wakes' /\ StraysAreHeld'
    BY <1>13 DEF Ended, Table, HeldIsOut, ClosersOwn, Wakes, StraysAreHeld
  <2>3. ShutIsEmpty'
    BY <1>13 DEF Ended, EnderDone, Table, ShutIsEmpty
  <2> QED BY <2>2, <2>3 DEF Table
<1>14. CASE UNCHANGED vars
  BY <1>14, UnchangedFramers, SameTable DEF vars, SameCuts
<1> QED BY <1>1, <1>2, <1>3, <1>4, <1>5, <1>6, <1>7, <1>8, <1>9, <1>10, <1>11, <1>12,
           <1>13, <1>14 DEF Next, WatchStep

-----------------------------------------------------------------------------
(* Who watches everything.                                                 *)

LEMMA LeaverStep == TypeOK /\ LeaversMay /\ [Next]_vars => LeaversMay'
<1> SUFFICES ASSUME TypeOK, LeaversMay, [Next]_vars,
                    NEW s \in Subs, job'[Reader(s)].at = "leave"
             PROVE  job'[Reader(s)].sub \in Unwatching
  BY DEF LeaversMay
<1>1. CASE job'[Reader(s)] = job[Reader(s)]
  BY <1>1 DEF LeaversMay
<1>2. Reader(s) \in Watchers /\ NoJob.at = "idle"
  BY ThreadNames DEF NoJob
<1>3. ASSUME NEW u \in Subs, NEW p \in Panes, UnwatchRequest(u, p)
      PROVE  job'[Reader(s)].sub \in Unwatching
  <2>1. CASE u = s
    BY <1>2, <1>3, <2>1 DEF UnwatchRequest, TypeOK
  <2>2. CASE u # s
    BY <1>1, <1>2, <1>3, <2>2, ThreadNames DEF UnwatchRequest, TypeOK
  <2> QED BY <2>1, <2>2
<1>4. ASSUME NEW t \in Watchers, NEW r, r.at # "leave", job' = [job EXCEPT ![t] = r]
      PROVE  job'[Reader(s)].sub \in Unwatching
  BY <1>1, <1>2, <1>4 DEF TypeOK
<1>5. ASSUME NEW t \in Watchers, NEW u, NEW p, Begin(t, u, p)
      PROVE  job'[Reader(s)].sub \in Unwatching
  <2>1. [at |-> "resolve", sub |-> u, pane |-> p].at # "leave"
    OBVIOUS
  <2> QED BY <1>1, <1>4, <1>5, <2>1 DEF Begin
<1>6. ASSUME NEW t \in Watchers, GiveUp(t)
      PROVE  job'[Reader(s)].sub \in Unwatching
  BY <1>2, <1>4, <1>6 DEF GiveUp
<1>7. ASSUME NEW t \in Watchers, WatchStep(t)
      PROVE  job'[Reader(s)].sub \in Unwatching
  <2>1. CASE BatchWatch(t)
    BY <1>5, <2>1 DEF BatchWatch
  <2>2. CASE Resolve(t)
    <3>1. CASE job' = [job EXCEPT ![t].at = "enter"]
      <4>1. job[t] \in Asks
        BY <2>2, JobTypes DEF Resolve
      <4>2. [job[t] EXCEPT !.at = "enter"].at # "leave"
        BY <4>1 DEF Asks
      <4>3. job' = [job EXCEPT ![t] = [job[t] EXCEPT !.at = "enter"]]
        BY <3>1
      <4> QED BY <1>4, <4>2, <4>3
    <3> QED BY <1>6, <2>2, <3>1 DEF Resolve
  <2>3. CASE Enter(t)
    <3>1. GiveUp(t) \/ \E f : job' = [job EXCEPT ![t] = [at |-> "add", sub |-> job[t].sub,
                                                         pane |-> job[t].pane, fr |-> f]]
      BY <2>3 DEF Enter, TypeOK
    <3>2. \A f : [at |-> "add", sub |-> job[t].sub, pane |-> job[t].pane, fr |-> f].at # "leave"
      OBVIOUS
    <3> QED BY <1>4, <1>6, <3>1, <3>2
  <2>4. CASE Add(t)
    <3>1. job[t] \in Has
      BY <2>4, JobTypes DEF Add
    <3>2. [job[t] EXCEPT !.at = "activate"].at # "leave"
      BY <3>1 DEF Has
    <3>3. job' = [job EXCEPT ![t] = [job[t] EXCEPT !.at = "activate"]]
      BY <2>4 DEF Add
    <3> QED BY <1>4, <3>2, <3>3
  <2>5. CASE Activate(t)
    BY <1>2, <1>4, <2>5 DEF Activate
  <2> QED BY <1>7, <2>1, <2>2, <2>3, <2>4, <2>5 DEF WatchStep
<1>8. ASSUME NEW u \in Subs, SubStep(u) \/ Die(u)
      PROVE  job'[Reader(s)].sub \in Unwatching
  <2>1. Reader(u) \in Watchers /\ [at |-> "list"].at # "leave"
    BY ThreadNames
  <2> QED BY <1>1, <1>2, <1>4, <1>6, <1>8, <2>1
          DEF SubStep, Leave, WatchAll, List, Drop, Die
<1>9. ASSUME NEW p \in Panes, PaneStep(p) \/ OpenPane(p) \/ ClosePane(p)
      PROVE  job'[Reader(s)].sub \in Unwatching
  <2>1. Opener(p) \in Watchers /\ [at |-> "list"].at # "leave"
    BY ThreadNames
  <2> QED BY <1>1, <1>2, <1>4, <1>9, <2>1
          DEF PaneStep, PaneOpened, HubPaneClosed, PaneClosed, OpenPane, ClosePane
<1>10. ASSUME NEW u \in Subs, NEW p \in Panes, WatchRequest(u, p)
       PROVE  job'[Reader(s)].sub \in Unwatching
  BY <1>5, <1>10, ThreadNames DEF WatchRequest
<1>11. CASE UNCHANGED job
  BY <1>1, <1>11
<1> QED BY <1>3, <1>7, <1>8, <1>9, <1>10, <1>11
        DEF Next, JoinStep, Stop, Joined, Exit, Shutdown, Ended, vars

\* A pane nobody attached a subscriber to, and what a step may do about it.
Keeps(s, p) ==
    /\ p \in slots[s] => p \in slots'[s]
    /\ job[Reader(s)].at = "list" => job'[Reader(s)].at = "list"
    /\ job[Opener(p)].at = "list" => job'[Opener(p)].at = "list"

LEMMA KeepsAttached ==
  ASSUME NEW s, NEW p, Attached(s, p), Keeps(s, p), todo' = todo
  PROVE  Attached(s, p)'
BY DEF Attached, Keeps

\* A step of a watch takes no list from anybody.
LEMMA ListsStay ==
  ASSUME TypeOK, NEW t \in Watchers, job[t].at # "list",
         \A u \in Watchers : u # t => job'[u] = job[u], NEW s \in Subs, NEW p \in Panes,
         p \in slots[s] => p \in slots'[s]
  PROVE  Keeps(s, p)
BY ThreadNames DEF Keeps

LEMMA GiveUpOthers ==
  ASSUME TypeOK, NEW t \in Watchers, GiveUp(t), NEW s \in Subs, NEW p \in Panes,
         s # job[t].sub \/ p # job[t].pane
  PROVE  p \in slots[s] => p \in slots'[s]
BY DEF GiveUp, TypeOK

\* What a step of the panes and of the subscribers may do to who is watching everything.
Others == all' \subseteq all /\ dead \subseteq dead' /\ \A p \in Panes : pane'[p] = "live" => pane[p] = "live"

LEMMA SameAttached ==
  ASSUME AllAttached, Others,
         \A s \in all \ (dead \cup Unwatching), p \in Panes :
             pane[p] = "live" /\ Attached(s, p) => Attached(s, p)'
  PROVE  AllAttached'
BY DEF AllAttached, Others

LEMMA AttachStep == IInv /\ TypeOK' /\ [Next]_vars => AllAttached'
<1> SUFFICES ASSUME IInv, TypeOK', [Next]_vars PROVE AllAttached'
  OBVIOUS
<1>0. /\ TypeOK /\ LeaversMay /\ AllAttached /\ (closed => all = {})
      /\ NoJob.at = "idle" /\ all \subseteq Subs
  BY DEF IInv, Table, ShutIsEmpty, NoJob, TypeOK
<1>1. ASSUME NEW u \in Subs, NEW q \in Panes, WatchRequest(u, q) PROVE AllAttached'
  <2>1. SUFFICES ASSUME NEW s \in Subs, NEW p \in Panes, Attached(s, p) PROVE Attached(s, p)'
    BY <1>0, <1>1, SameAttached DEF WatchRequest, Others
  <2>2. /\ job[Reader(u)].at # "list" /\ \A t \in Watchers : t # Reader(u) => job'[t] = job[t]
        /\ slots[s] \subseteq slots'[s] /\ Reader(u) \in Watchers
    BY <1>0, <1>1, ThreadNames DEF WatchRequest, Idle, Begin, TypeOK
  <2>3. Keeps(s, p)
    BY <1>0, <2>2, ListsStay
  <2> QED BY <1>1, <2>1, <2>3, KeepsAttached DEF WatchRequest
<1>2. ASSUME NEW u \in Subs, NEW q \in Panes, UnwatchRequest(u, q) PROVE AllAttached'
  <2>1. SUFFICES ASSUME NEW s \in Subs, NEW p \in Panes, Attached(s, p) PROVE Attached(s, p)'
    BY <1>0, <1>2, SameAttached DEF UnwatchRequest, Others
  <2>2. /\ job[Reader(u)].at # "list" /\ \A t \in Watchers : t # Reader(u) => job'[t] = job[t]
        /\ slots' = slots /\ Reader(u) \in Watchers
    BY <1>0, <1>2, ThreadNames DEF UnwatchRequest, Idle, TypeOK
  <2>3. Keeps(s, p)
    BY <1>0, <2>2, ListsStay
  <2> QED BY <1>2, <2>1, <2>3, KeepsAttached DEF UnwatchRequest
<1>3. ASSUME NEW t \in Watchers, BatchWatch(t) PROVE AllAttached'
  <2>1. SUFFICES ASSUME NEW s \in all \ (dead \cup Unwatching), NEW p \in Panes,
                        pane[p] = "live", Attached(s, p)
                 PROVE  Attached(s, p)'
    BY <1>0, <1>3, SameAttached DEF BatchWatch, Others
  <2>2. PICK x \in todo[t] : /\ Begin(t, NextOf(t, x)[1], NextOf(t, x)[2])
                             /\ todo' = [todo EXCEPT ![t] = @ \ {x}]
    BY <1>3 DEF BatchWatch
  <2>3. s \in Subs /\ Reader(s) \in Watchers /\ Opener(p) \in Watchers
    BY <1>0, ThreadNames
  <2>4. /\ job[t].at # "list" /\ \A v \in Watchers : v # t => job'[v] = job[v]
        /\ slots[s] \subseteq slots'[s]
    BY <1>0, <1>3, <2>2, <2>3, BatchPair DEF BatchWatch, Begin, TypeOK
  <2>5. Keeps(s, p)
    BY <1>0, <2>3, <2>4, ListsStay
  <2>6. CASE NextOf(t, x) = <<s, p>>
    <3>1. Begin(t, s, p)
      BY <2>2, <2>6
    <3>2. p \in slots'[s]
      BY <1>0, <2>1, <2>3, <3>1 DEF Begin, Refused, TypeOK
    <3> QED BY <3>2 DEF Attached
  <2>7. CASE NextOf(t, x) # <<s, p>>
    <3>1. p \in todo[Reader(s)] => p \in todo'[Reader(s)]
      <4>1. t = Reader(s) => NextOf(t, x) = <<s, x>>
        BY DEF NextOf, Reader
      <4> QED BY <1>0, <2>2, <2>3, <2>7, <4>1 DEF TypeOK
    <3>2. s \in todo[Opener(p)] => s \in todo'[Opener(p)]
      <4>1. t = Opener(p) => NextOf(t, x) = <<x, p>>
        BY DEF NextOf, Opener
      <4> QED BY <1>0, <2>2, <2>3, <2>7, <4>1 DEF TypeOK
    <3> QED BY <2>1, <2>5, <3>1, <3>2 DEF Attached, Keeps
  <2> QED BY <2>6, <2>7
<1>4. ASSUME NEW t \in Watchers, Resolve(t) PROVE AllAttached'
  <2>1. SUFFICES ASSUME NEW s \in all \ (dead \cup Unwatching), NEW p \in Panes,
                        pane[p] = "live", Attached(s, p)
                 PROVE  Attached(s, p)'
    BY <1>0, <1>4, SameAttached DEF Resolve, Others
  <2>2. job[t].at # "list" /\ \A v \in Watchers : v # t => job'[v] = job[v]
    BY <1>0, <1>4 DEF Resolve, GiveUp, TypeOK
  <2>3. p \in slots[s] => p \in slots'[s]
    <3>1. CASE pane[job[t].pane] = "live"
      BY <1>4, <3>1 DEF Resolve
    <3>2. CASE pane[job[t].pane] # "live"
      BY <1>0, <1>4, <2>1, <3>2, GiveUpOthers DEF Resolve
    <3> QED BY <3>1, <3>2
  <2>4. Keeps(s, p)
    BY <1>0, <2>2, <2>3, ListsStay
  <2> QED BY <1>4, <2>1, <2>4, KeepsAttached DEF Resolve
<1>5. ASSUME NEW t \in Watchers, Enter(t) PROVE AllAttached'
  <2>1. SUFFICES ASSUME NEW s \in all \ (dead \cup Unwatching), NEW p \in Panes,
                        pane[p] = "live", Attached(s, p)
                 PROVE  Attached(s, p)'
    BY <1>0, <1>5, SameAttached DEF Enter, Others
  <2>2. ~closed
    BY <1>0
  <2>3. slots' = slots
    BY <1>5, <2>2 DEF Enter, ShutDown
  <2>4. job[t].at # "list" /\ \A v \in Watchers : v # t => job'[v] = job[v]
    BY <1>0, <1>5, <2>2 DEF Enter, ShutDown, TypeOK
  <2>5. Keeps(s, p)
    BY <1>0, <2>3, <2>4, ListsStay
  <2> QED BY <1>5, <2>1, <2>5, KeepsAttached DEF Enter
<1>6. ASSUME NEW t \in Watchers, Add(t) \/ Activate(t) PROVE AllAttached'
  <2>1. SUFFICES ASSUME NEW s \in Subs, NEW p \in Panes, Attached(s, p) PROVE Attached(s, p)'
    BY <1>0, <1>6, SameAttached DEF Add, Activate, Others
  <2>2. /\ job[t].at # "list" /\ \A v \in Watchers : v # t => job'[v] = job[v]
        /\ slots' = slots /\ todo' = todo
    BY <1>0, <1>6 DEF Add, Activate, TypeOK
  <2>3. Keeps(s, p)
    BY <1>0, <2>2, ListsStay
  <2> QED BY <2>1, <2>2, <2>3, KeepsAttached
<1>7. ASSUME NEW u \in Subs, Leave(u) PROVE AllAttached'
  <2>1. SUFFICES ASSUME NEW s \in all \ (dead \cup Unwatching), NEW p \in Panes,
                        pane[p] = "live", Attached(s, p)
                 PROVE  Attached(s, p)'
    BY <1>0, <1>7, SameAttached DEF Leave, Others
  <2>2. Reader(u) \in Watchers /\ job[Reader(u)].at = "leave" /\ GiveUp(Reader(u))
    BY <1>7, ThreadNames DEF Leave
  <2>3. job[Reader(u)].sub # s
    BY <1>0, <2>2 DEF LeaversMay
  <2>4. p \in slots[s] => p \in slots'[s]
    BY <1>0, <2>2, <2>3, GiveUpOthers
  <2>5. \A v \in Watchers : v # Reader(u) => job'[v] = job[v]
    BY <1>0, <2>2 DEF GiveUp, TypeOK
  <2>6. Keeps(s, p)
    BY <1>0, <2>2, <2>4, <2>5, ListsStay
  <2> QED BY <1>7, <2>1, <2>6, KeepsAttached DEF Leave
<1>8. ASSUME NEW u \in Subs, WatchAll(u) PROVE AllAttached'
  <2>1. /\ all' = all \cup {u} /\ job[Reader(u)].at = "idle" /\ Reader(u) \in Watchers
        /\ job'[Reader(u)].at = "list" /\ \A v \in Watchers : v # Reader(u) => job'[v] = job[v]
        /\ UNCHANGED <<pane, slots, todo, dead>>
    BY <1>0, <1>8, ThreadNames DEF WatchAll, Idle, TypeOK
  <2>2. SUFFICES ASSUME NEW s \in all \cup {u}, s \notin dead, s \notin Unwatching,
                        NEW p \in Panes, pane[p] = "live"
                 PROVE  Attached(s, p)'
    BY <2>1 DEF AllAttached
  <2>3. CASE s = u
    BY <2>1, <2>3 DEF Attached
  <2>4. CASE s # u
    <3>1. Attached(s, p) /\ s \in Subs
      BY <1>0, <2>2, <2>4 DEF AllAttached
    <3>2. Keeps(s, p)
      BY <1>0, <2>1, <3>1, ListsStay
    <3> QED BY <2>1, <3>1, <3>2, KeepsAttached
  <2> QED BY <2>3, <2>4
<1>9. ASSUME NEW u \in Subs, List(u) PROVE AllAttached'
  <2>1. SUFFICES ASSUME NEW s \in all \ (dead \cup Unwatching), NEW p \in Panes,
                        pane[p] = "live", Attached(s, p)
                 PROVE  Attached(s, p)'
    BY <1>0, <1>9, SameAttached DEF List, Others
  <2>2. s \in Subs /\ Reader(u) \in Watchers /\ Reader(s) \in Watchers
        /\ Opener(p) \in Watchers /\ Opener(p) # Reader(u)
    BY <1>0, ThreadNames
  <2>3. CASE s = u
    <3>1. p \in todo'[Reader(s)]
      BY <1>0, <1>9, <2>1, <2>2, <2>3 DEF List, Listed, TypeOK
    <3> QED BY <3>1 DEF Attached
  <2>4. CASE s # u
    <3>1. Reader(s) # Reader(u)
      BY <2>4, ThreadNames
    <3>2. /\ job'[Reader(s)] = job[Reader(s)] /\ todo'[Reader(s)] = todo[Reader(s)]
          /\ job'[Opener(p)] = job[Opener(p)] /\ todo'[Opener(p)] = todo[Opener(p)]
          /\ slots' = slots
      BY <1>0, <1>9, <2>2, <3>1 DEF List, TypeOK
    <3> QED BY <2>1, <3>2 DEF Attached
  <2> QED BY <2>3, <2>4
<1>10. ASSUME NEW u \in Subs, Drop(u) \/ Die(u) PROVE AllAttached'
  <2>1. UNCHANGED <<pane, slots, job, todo>> /\ all' \subseteq all /\ dead \subseteq dead'
    BY <1>10 DEF Drop, Die
  <2> QED BY <1>0, <2>1, SameAttached DEF Attached, Others
<1>11. ASSUME NEW q \in Panes, PaneOpened(q) PROVE AllAttached'
  <2>1. SUFFICES ASSUME NEW s \in all \ (dead \cup Unwatching), NEW p \in Panes,
                        pane[p] = "live", Attached(s, p)
                 PROVE  Attached(s, p)'
    BY <1>0, <1>11, SameAttached DEF PaneOpened, Others
  <2>2. s \in Subs /\ Reader(s) \in Watchers /\ ~closed
        /\ Opener(p) \in Watchers /\ Opener(q) \in Watchers /\ Reader(s) # Opener(q)
    BY <1>0, ThreadNames
  <2>3. CASE p = q
    <3>1. s \in todo'[Opener(p)]
      BY <1>0, <1>11, <2>1, <2>2, <2>3 DEF PaneOpened, TypeOK
    <3> QED BY <3>1 DEF Attached
  <2>4. CASE p # q
    <3>1. Opener(p) # Opener(q)
      BY <2>4, ThreadNames
    <3>2. /\ job'[Reader(s)] = job[Reader(s)] /\ todo'[Reader(s)] = todo[Reader(s)]
          /\ job'[Opener(p)] = job[Opener(p)] /\ todo'[Opener(p)] = todo[Opener(p)]
          /\ slots' = slots
      BY <1>0, <1>11, <2>2, <3>1 DEF PaneOpened, TypeOK
    <3> QED BY <2>1, <3>2 DEF Attached
  <2> QED BY <2>3, <2>4
<1>12. ASSUME NEW q \in Panes, OpenPane(q) PROVE AllAttached'
  <2>1. SUFFICES ASSUME NEW s \in all \ (dead \cup Unwatching), NEW p \in Panes, pane'[p] = "live"
                 PROVE  Attached(s, p)'
    BY <1>12 DEF OpenPane, AllAttached
  <2>2. s \in Subs /\ Opener(q) \in Watchers /\ Reader(s) \in Watchers
        /\ Opener(p) \in Watchers /\ Reader(s) # Opener(q)
    BY <1>0, ThreadNames
  <2>3. CASE p = q
    BY <1>0, <1>12, <2>2, <2>3 DEF OpenPane, Attached, TypeOK
  <2>4. CASE p # q
    <3>1. Opener(p) # Opener(q)
      BY <2>4, ThreadNames
    <3>2. Attached(s, p)
      BY <1>0, <1>12, <2>1, <2>4 DEF OpenPane, AllAttached, TypeOK
    <3>3. /\ job'[Reader(s)] = job[Reader(s)] /\ job'[Opener(p)] = job[Opener(p)]
          /\ UNCHANGED <<slots, todo>>
      BY <1>0, <1>12, <2>2, <3>1 DEF OpenPane, TypeOK
    <3> QED BY <3>2, <3>3 DEF Attached
  <2> QED BY <2>3, <2>4
<1>13. ASSUME NEW q \in Panes, HubPaneClosed(q) \/ PaneClosed(q) \/ ClosePane(q)
       PROVE AllAttached'
  <2>1. UNCHANGED <<job, todo, all, dead>>
    BY <1>13 DEF HubPaneClosed, PaneClosed, ClosePane
  <2>2. ASSUME NEW p \in Panes, pane'[p] = "live"
        PROVE  pane[p] = "live" /\ \A s \in Subs : p \in slots[s] => p \in slots'[s]
    BY <1>0, <1>13, <2>2 DEF HubPaneClosed, PaneClosed, ClosePane, TypeOK
  <2>3. SUFFICES ASSUME NEW s \in all \ (dead \cup Unwatching), NEW p \in Panes, pane'[p] = "live"
                 PROVE  Attached(s, p)'
    BY <2>1 DEF AllAttached
  <2>4. Attached(s, p) /\ s \in Subs
    BY <1>0, <2>2, <2>3 DEF AllAttached
  <2> QED BY <2>1, <2>2, <2>3, <2>4 DEF Attached
<1>14. CASE Shutdown
  BY <1>14 DEF Shutdown, AllAttached
<1>15. CASE UNCHANGED <<pane, slots, job, todo, all, dead>>
  BY <1>0, <1>15 DEF AllAttached, Attached
<1> QED BY <1>1, <1>2, <1>3, <1>4, <1>5, <1>6, <1>7, <1>8, <1>9, <1>10, <1>11, <1>12,
           <1>13, <1>14, <1>15
        DEF Next, WatchStep, SubStep, PaneStep, JoinStep, Stop, Joined, Exit, Ended, vars

-----------------------------------------------------------------------------
LEMMA Consequences == IInv => OneFramerEach /\ AllMeansAll
<1> SUFFICES ASSUME IInv PROVE OneFramerEach /\ AllMeansAll
  OBVIOUS
<1>1. OutputReachesTheFramer /\ StraysAreHeld
  BY DEF IInv, Table, Wakes, OutputReachesTheFramer
<1>2. NobodyPaintsAfterShutdown
  <2>1. SUFFICES ASSUME ended, NEW f \in Framers, framer[f].life # "gone"
                 PROVE  \E t \in Threads \ {Ender} : f \in held[t]
    BY DEF NobodyPaintsAfterShutdown
  <2>2. closed /\ held[Ender] = {} /\ \A p \in Panes : framers[p] # f
    BY <2>1, StreamerConstants DEF IInv, TypeOK, Table, ShutIsEmpty
  <2> QED BY <1>1, <2>1, <2>2 DEF StraysAreHeld
<1>3. AllMeansAll
  <2>1. SUFFICES ASSUME \A t \in Watchers : Idle(t),
                        NEW s \in all \ (dead \cup Unwatching), NEW p \in Panes, pane[p] = "live"
                 PROVE  p \in slots[s]
    BY DEF AllMeansAll
  <2>2. Reader(s) \in Watchers /\ Opener(p) \in Watchers /\ Attached(s, p) /\ NoJob.at = "idle"
    BY <2>1, ThreadNames DEF IInv, AllAttached, TypeOK, NoJob
  <2> QED BY <2>1, <2>2 DEF Attached, Idle
<1> QED BY <1>1, <1>2, <1>3 DEF OneFramerEach, NoFramerLeaks

LEMMA Invariance == Spec => []IInv
<1>1. Init => IInv
  BY InitInv
<1>2. IInv /\ [Next]_vars => IInv'
  BY TypeStep, TableStep, LeaverStep, AttachStep DEF IInv
<1> QED BY <1>1, <1>2, PTL DEF Spec

\* Streamer.framers, Pane.stream and the framers' goroutines (stream.go 15-17, 129-131,
\* 269-300): whatever watches, unwatches, drops, closes and the shutdown do between each
\* other's critical sections, the framer in the table runs and is the one its pane's
\* output wakes, and every other one that still runs is held by a thread that will
\* shut it down; after Shutdown only by one that was at it already.
THEOREM OneFramer == Spec => []OneFramerEach
<1> QED BY Invariance, Consequences, PTL

\* Streamer.WatchAll and paneOpened (stream.go 207-226): registering before the panes are
\* listed, and publishing a pane before asking who watches everything, leave no live
\* pane that neither of them attached.
THEOREM AllIsAll == Spec => []AllMeansAll
<1> QED BY Invariance, Consequences, PTL
=============================================================================
