---------------------------- MODULE HubCallProofs ----------------------------
(***************************************************************************)
(* Theorems about HubCall: for any number of connections, panes, requests  *)
(* and lane objects, a lane delivers one request at a time and in the      *)
(* order of submission, every request ends with one answer and its slot    *)
(* given back, a Quiesce that says it stopped everything has, and nothing  *)
(* that was accepted is left without an answer.                            *)
(*                                                                         *)
(* None is inductive.  That a lane is serial rests on the maps of the Subs *)
(* (two lanes of one key never live at once), on what a caller holds       *)
(* between two critical sections, on where each request that waits or runs *)
(* is, and on what shutdown lets through; IInv states each of these.  That *)
(* nothing is stranded rests on who looks after what: LookedAfter names,   *)
(* for a lane in a caller's hand, for one not yet started, for each request*)
(* queued and for what a Quiesce took out, the step that will deal with it.*)
(***************************************************************************)
EXTENDS HubCall, FiniteSetTheorems, TLAPS

Live      == {"look", "wait", "run"}
Gone      == {"retire", "retire2", "dead"}
Accepting == {"look", "open", "insert", "push", "forget"}
Delivered == {"taken", "running", "returned"}

ReqPcs  == {"new", "look", "open", "insert", "push", "forget", "queued", "taken", "running",
            "returned", "done"}
ReqRec  == [pc : ReqPcs, lane : Lanes \cup {NoLane}, tries : Int, before : SUBSET Reqs]
LanePcs == {"none", "fresh", "look", "wait", "run", "retire", "retire2", "dead"}
Keys    == (Subs \cup {NoReq}) \X (Panes \cup {NoPane})
LaneRec == [pc : LanePcs, key : Keys, q : Seq(Reqs), run : Reqs \cup {NoReq}, wake : BOOLEAN,
            closed : BOOLEAN, quiesced : BOOLEAN, retired : BOOLEAN, cancelled : BOOLEAN]
SubRec  == [gone : BOOLEAN, slots : Int, lanes : [Panes -> Lanes \cup {NoLane}]]
LeaveRec == [pc : {"open", "going", "gone"}, todo : SUBSET Lanes]
QuietRec == [pc : {"idle", "cancel", "lanes", "empty", "discard", "waiting", "stopped",
                   "grace"},
             calls : SUBSET Reqs, lanes : SUBSET Lanes, todo : SUBSET Lanes,
             at : Lanes \cup {NoLane}, drop : Seq(Reqs)]
Answer  == {"not_ready", "busy", "done", "timeout", "discarded"}

ReqOK     == req \in [Reqs -> ReqRec]
LaneOK    == lane \in [Lanes -> LaneRec]
SubOK     == sub \in [Subs -> SubRec]
LeaveOK   == leave \in [Subs -> LeaveRec]
QuietOK   == quiescer \in QuietRec
AnswersOK == answers \in [Reqs -> Seq(Answer)]
SetsOK    == /\ expired \subseteq Reqs /\ cancelled \subseteq Reqs /\ calls \subseteq Reqs
             /\ closing \in BOOLEAN /\ hubLanes \subseteq Lanes
TypeOK    == ReqOK /\ LaneOK /\ SubOK /\ LeaveOK /\ QuietOK /\ AnswersOK /\ SetsOK

\* The lane a Sub has for a pane is a lane of that key that has not yet left its map, ...
MapIsLive ==
    \A s \in Subs, p \in Panes : sub[s].lanes[p] # NoLane =>
        /\ lane[sub[s].lanes[p]].key = <<s, p>>
        /\ lane[sub[s].lanes[p]].pc \in {"look", "wait", "run", "retire"}

\* ... and a lane that drains is in the map.
LiveIsMapped ==
    \A l \in Lanes : lane[l].pc \in Live =>
        \E s \in Subs, p \in Panes : lane[l].key = <<s, p>> /\ sub[s].lanes[p] = l

\* What a lane is by where its drainer stands.
LaneStands ==
    \A l \in Lanes :
        /\ l \in hubLanes <=> lane[l].pc \notin {"none", "dead"}
        /\ lane[l].retired <=> lane[l].pc \in Gone
        /\ lane[l].run # NoReq <=> lane[l].pc = "run"
        /\ lane[l].pc \notin Live \/ lane[l].quiesced => lane[l].q = << >>
        /\ lane[l].pc \notin {"none", "dead"} => lane[l].key \in Subs \X Panes

\* The lane a caller holds: its own and new, or the one it found.
HandOf(r) ==
    /\ req[r].pc \in Accepting \cup {"queued"} => OnLane(r)
    /\ req[r].pc = "insert" =>
          /\ req[r].lane \in Lanes /\ lane[req[r].lane].pc = "fresh"
          /\ lane[req[r].lane].key = Key(r)
          /\ \A q \in Reqs : req[q].pc = "insert" /\ req[q].lane = req[r].lane => q = r
    /\ req[r].pc \in {"push", "forget"} =>
          /\ req[r].lane \in Lanes
          /\ \/ lane[req[r].lane].retired
             \/ lane[req[r].lane].pc \in Live /\ lane[req[r].lane].key = Key(r)
    /\ req[r].pc = "forget" => lane[req[r].lane].retired
InHand == \A r \in Reqs : HandOf(r)

\* A request that waits is in one place of one queue, unless shutdown has it.
QueuedOnce ==
    /\ \A l \in Lanes : \A i \in 1..Len(lane[l].q) :
          req[lane[l].q[i]].pc = "queued" /\ Key(lane[l].q[i]) = lane[l].key
    /\ \A l, m \in Lanes : \A i \in 1..Len(lane[l].q), j \in 1..Len(lane[m].q) :
          lane[l].q[i] = lane[m].q[j] => l = m /\ i = j
    /\ \A r \in Reqs : req[r].pc = "queued" =>
          closing \/ \E l \in Lanes : \E i \in 1..Len(lane[l].q) : lane[l].q[i] = r

\* What shutdown has taken out of a queue waits there for its answer.
DroppedOnce ==
    \A i \in 1..Len(quiescer.drop) :
        /\ req[quiescer.drop[i]].pc = "queued"
        /\ \A l \in Lanes : \A j \in 1..Len(lane[l].q) : lane[l].q[j] # quiescer.drop[i]

\* A delivery that runs is what its lane runs.
RunsOnLane ==
    /\ \A l \in Lanes : lane[l].run # NoReq =>
          /\ OnLane(lane[l].run) /\ Key(lane[l].run) = lane[l].key
          /\ req[lane[l].run].pc \in Delivered
    /\ \A r \in Reqs : OnLane(r) /\ req[r].pc \in Delivered => \E l \in Lanes : lane[l].run = r
    /\ calls = {r \in Reqs : req[r].pc = "running"}

\* What was accepted before a request is before it in the queue, or runs, or is over.
AcceptedFirst ==
    \A r \in Reqs : \A q \in req[r].before :
        Key(q) = Key(r) /\ req[q].pc \in {"queued", "done"} \cup Delivered
AheadInQueue ==
    ~closing => \A l \in Lanes : \A j \in 1..Len(lane[l].q) : \A q \in req[lane[l].q[j]].before :
        req[q].pc = "done" \/ lane[l].run = q \/ \E i \in 1..(j - 1) : lane[l].q[i] = q
OverBefore ==
    \A r \in Reqs : OnLane(r) =>
        /\ req[r].pc = "running" \/ (req[r].pc = "taken" /\ ~closing) =>
              \A q \in req[r].before : req[q].pc = "done"

\* The requests that hold a slot of s; there are finitely many, so they can be counted.
Holders(s) == {r \in Reqs : SubOf[r] = s /\ ~OnLane(r)
                            /\ req[r].pc \in {"taken", "running", "returned"}}
SlotsCounted == \A s \in Subs : IsFiniteSet(Holders(s))

\* Once Quiesce has begun nothing new runs, and lanes are emptied one by one.
Quieting ==
    /\ closing <=> quiescer.pc # "idle"
    /\ quiescer.pc = "cancel" => calls \subseteq quiescer.calls
    /\ quiescer.pc \notin {"idle", "cancel"} => calls \subseteq cancelled
    /\ quiescer.pc \notin {"idle", "cancel", "lanes"} =>
          \A l \in hubLanes : lane[l].quiesced \/ l \in quiescer.todo
    /\ quiescer.pc \in {"empty", "discard", "waiting"} => hubLanes \subseteq quiescer.lanes
    /\ quiescer.pc \in {"waiting", "stopped", "grace"} => quiescer.todo = {}
    /\ quiescer.pc = "discard" => quiescer.at \in Lanes
    /\ quiescer.pc = "stopped" => calls = {} /\ \A l \in Lanes : lane[l].run = NoReq

Maps  == MapIsLive /\ LiveIsMapped
Items == QueuedOnce /\ DroppedOnce /\ RunsOnLane /\ AcceptedFirst /\ AheadInQueue /\ OverBefore
Slots == SlotsCounted /\ SlotsExact

IInv == TypeOK /\ Maps /\ LaneStands /\ InHand /\ Items /\ AnsweredOnce /\ Slots /\ Quieting

-----------------------------------------------------------------------------
(* What the updates of the model do to the one record they change.         *)

ReqStep(r, pc, l, b) ==
    /\ ReqOK'
    /\ req'[r].pc = pc /\ req'[r].lane = l /\ req'[r].before = b
    /\ \A q \in Reqs : q # r => req'[q] = req[q]

\* The request moves on, and keeps the rest.
LEMMA GoToStep ==
    ASSUME ReqOK, NEW r \in Reqs, NEW pc \in ReqPcs, GoTo(r, pc)
    PROVE  ReqStep(r, pc, req[r].lane, req[r].before)
<1> DEFINE R == [req[r] EXCEPT !.pc = pc]
<1>1. req' = [req EXCEPT ![r] = R]
  BY DEF ReqOK, GoTo
<1>2. R \in ReqRec /\ R.pc = pc /\ R.lane = req[r].lane /\ R.before = req[r].before
  BY DEF ReqOK, ReqRec
<1> HIDE DEF R
<1> QED BY <1>1, <1>2 DEF ReqOK, ReqStep

\* It moves on with another lane in hand.
LEMMA WithStep ==
    ASSUME ReqOK, NEW r \in Reqs, NEW pc \in ReqPcs, NEW l \in Lanes \cup {NoLane},
           With(r, pc, l)
    PROVE  ReqStep(r, pc, l, req[r].before)
<1> DEFINE R == [req[r] EXCEPT !.pc = pc, !.lane = l]
<1>1. req' = [req EXCEPT ![r] = R]
  BY DEF ReqOK, With
<1>2. R \in ReqRec /\ R.pc = pc /\ R.lane = l /\ R.before = req[r].before
  BY DEF ReqOK, ReqRec
<1> HIDE DEF R
<1> QED BY <1>1, <1>2 DEF ReqOK, ReqStep

\* It begins, after those in b.
LEMMA BeginStep ==
    ASSUME ReqOK, NEW r \in Reqs, NEW b \in SUBSET Reqs,
           req' = [req EXCEPT ![r] = [@ EXCEPT !.pc = "look", !.before = b]]
    PROVE  ReqStep(r, "look", req[r].lane, b)
<1> DEFINE Q == [req[r] EXCEPT !.pc = "look"]
           R == [Q EXCEPT !.before = b]
<1>1. req' = [req EXCEPT ![r] = R]
  BY DEF ReqOK
<1>2. Q \in ReqRec /\ Q.pc = "look" /\ Q.lane = req[r].lane
  BY DEF ReqOK, ReqRec, ReqPcs
<1> HIDE DEF Q
<1>3. R \in ReqRec /\ R.pc = Q.pc /\ R.lane = Q.lane /\ R.before = b
  BY <1>2 DEF ReqRec
<1> HIDE DEF R
<1> QED BY <1>1, <1>2, <1>3 DEF ReqOK, ReqStep

\* It is over.
LEMMA EndStep ==
    ASSUME ReqOK, NEW r \in Reqs, End(r)
    PROVE  ReqStep(r, "done", NoLane, {})
<1>1. req' = [req EXCEPT ![r] = Over]
  BY DEF End
<1>2. Over \in ReqRec /\ Over.pc = "done" /\ Over.lane = NoLane /\ Over.before = {}
  BY CallBounds DEF Over, ReqRec, ReqPcs
<1> QED BY <1>1, <1>2 DEF ReqOK, ReqStep

LaneStep(l, pc, q, run, quiesced, retired) ==
    /\ LaneOK'
    /\ lane'[l].key = lane[l].key /\ lane'[l].pc = pc /\ lane'[l].q = q /\ lane'[l].run = run
    /\ lane'[l].quiesced = quiesced /\ lane'[l].retired = retired
    /\ \A m \in Lanes : m # l => lane'[m] = lane[m]

\* One lane becomes what the record L says.
LEMMA LanePut ==
    ASSUME LaneOK, NEW l \in Lanes, NEW L \in LaneRec, lane' = [lane EXCEPT ![l] = L]
    PROVE  LaneOK' /\ lane'[l] = L /\ \A m \in Lanes : m # l => lane'[m] = lane[m]
BY DEF LaneOK

\* Its drainer moves, and nothing else of it.
LEMMA DrainerStep ==
    ASSUME LaneOK, NEW l \in Lanes, NEW pc \in LanePcs, lane' = [lane EXCEPT ![l].pc = pc]
    PROVE  LaneStep(l, pc, lane[l].q, lane[l].run, lane[l].quiesced, lane[l].retired)
<1> DEFINE L == [lane[l] EXCEPT !.pc = pc]
<1>1. lane' = [lane EXCEPT ![l] = L]
  BY DEF LaneOK
<1>2. /\ L \in LaneRec /\ L.pc = pc /\ L.key = lane[l].key /\ L.q = lane[l].q
      /\ L.run = lane[l].run /\ L.quiesced = lane[l].quiesced /\ L.retired = lane[l].retired
  BY DEF LaneOK, LaneRec
<1> HIDE DEF L
<1> QED BY <1>1, <1>2, LanePut DEF LaneStep

\* Its drainer leaves the loop.
LEMMA RetireStep ==
    ASSUME LaneOK, NEW l \in Lanes,
           lane' = [lane EXCEPT ![l] = [@ EXCEPT !.pc = "retire", !.retired = TRUE]]
    PROVE  LaneStep(l, "retire", lane[l].q, lane[l].run, lane[l].quiesced, TRUE)
<1> DEFINE L == [lane[l] EXCEPT !.pc = "retire", !.retired = TRUE]
<1>1. lane' = [lane EXCEPT ![l] = L]
  BY DEF LaneOK
<1>2. /\ L \in LaneRec /\ L.pc = "retire" /\ L.key = lane[l].key /\ L.q = lane[l].q
      /\ L.run = lane[l].run /\ L.quiesced = lane[l].quiesced /\ L.retired = TRUE
  BY DEF LaneOK, LaneRec, LanePcs
<1> HIDE DEF L
<1> QED BY <1>1, <1>2, LanePut DEF LaneStep

\* A lane that is new or dead has nothing.
LEMMA NoneLaneOK ==
    /\ NoneLane \in LaneRec /\ NoneLane.q = << >> /\ NoneLane.run = NoReq
    /\ NoneLane.retired = FALSE
BY CallBounds DEF NoneLane, LaneRec, LanePcs, Keys

\* A lane that is let go is dead, empty and retired; the other lanes stay.
LEMMA DeadStep ==
    ASSUME LaneOK, NEW l \in Lanes, lane' = [lane EXCEPT ![l] = Dead]
    PROVE  /\ LaneOK' /\ \A m \in Lanes : m # l => lane'[m] = lane[m]
           /\ lane'[l].pc = "dead" /\ lane'[l].q = << >> /\ lane'[l].run = NoReq
           /\ lane'[l].retired = TRUE
<1>2. /\ Dead \in LaneRec /\ Dead.pc = "dead" /\ Dead.q = << >> /\ Dead.run = NoReq
      /\ Dead.retired = TRUE
  BY NoneLaneOK DEF Dead, LaneRec, LanePcs
<1> QED BY <1>2, LanePut

\* A signal to the drainer changes nothing the invariant is about.
LEMMA SignalStep ==
    ASSUME LaneOK, NEW l \in Lanes,
           \/ lane' = [lane EXCEPT ![l] = [@ EXCEPT !.closed = TRUE, !.wake = TRUE]]
           \/ lane' = [lane EXCEPT ![l] = [@ EXCEPT !.cancelled = TRUE, !.wake = TRUE]]
    PROVE  LaneStep(l, lane[l].pc, lane[l].q, lane[l].run, lane[l].quiesced, lane[l].retired)
<1> DEFINE L == [lane[l] EXCEPT !.closed = TRUE, !.wake = TRUE]
           M == [lane[l] EXCEPT !.cancelled = TRUE, !.wake = TRUE]
<1>1. lane' = [lane EXCEPT ![l] = L] \/ lane' = [lane EXCEPT ![l] = M]
  BY DEF LaneOK
<1>2. /\ L \in LaneRec /\ L.pc = lane[l].pc /\ L.key = lane[l].key /\ L.q = lane[l].q
      /\ L.run = lane[l].run /\ L.quiesced = lane[l].quiesced /\ L.retired = lane[l].retired
  BY DEF LaneOK, LaneRec
<1>3. /\ M \in LaneRec /\ M.pc = lane[l].pc /\ M.key = lane[l].key /\ M.q = lane[l].q
      /\ M.run = lane[l].run /\ M.quiesced = lane[l].quiesced /\ M.retired = lane[l].retired
  BY DEF LaneOK, LaneRec
<1> HIDE DEF L, M
<1>4. CASE lane' = [lane EXCEPT ![l] = L]
  BY <1>4, <1>2, LanePut DEF LaneStep
<1>5. CASE lane' = [lane EXCEPT ![l] = M]
  BY <1>5, <1>3, LanePut DEF LaneStep
<1> QED BY <1>1, <1>4, <1>5

\* The maps and the slots of the Subs.
SameMaps  == \A s \in Subs, p \in Panes : sub'[s].lanes[p] = sub[s].lanes[p]
SameSlots == \A s \in Subs : sub'[s].slots = sub[s].slots

\* Writing one counter of slots changes that counter alone.
LEMMA SlotStep ==
    ASSUME SubOK, NEW s \in Subs, NEW n \in Int, sub' = [sub EXCEPT ![s].slots = n]
    PROVE  /\ SubOK' /\ SameMaps /\ sub'[s].slots = n
           /\ \A t \in Subs : t # s => sub'[t].slots = sub[t].slots
<1> DEFINE S == [sub[s] EXCEPT !.slots = n]
<1>1. sub' = [sub EXCEPT ![s] = S]
  BY DEF SubOK
<1>2. S \in SubRec /\ S.slots = n /\ S.lanes = sub[s].lanes
  BY DEF SubOK, SubRec
<1> HIDE DEF S
<1> QED BY <1>1, <1>2 DEF SubOK, SameMaps

\* A Sub that goes keeps its map and its slots.
LEMMA GoneStep ==
    ASSUME SubOK, NEW s \in Subs, sub' = [sub EXCEPT ![s].gone = TRUE]
    PROVE  SubOK' /\ SameMaps /\ SameSlots
<1> DEFINE S == [sub[s] EXCEPT !.gone = TRUE]
<1>1. sub' = [sub EXCEPT ![s] = S]
  BY DEF SubOK
<1>2. S \in SubRec /\ S.slots = sub[s].slots /\ S.lanes = sub[s].lanes
  BY DEF SubOK, SubRec
<1> HIDE DEF S
<1> QED BY <1>1, <1>2 DEF SubOK, SameMaps, SameSlots

\* The Sub s has the lane l for p.
Mapped(s, p, l) ==
    /\ SubOK' /\ SameSlots /\ sub'[s].lanes[p] = l
    /\ \A t \in Subs, o \in Panes :
          <<t, o>> # <<s, p>> => sub'[t].lanes[o] = sub[t].lanes[o]

\* Writing one entry of a map changes that entry alone.
LEMMA MapStep ==
    ASSUME SubOK, NEW s \in Subs, NEW p \in Panes, NEW l \in Lanes \cup {NoLane},
           sub' = [sub EXCEPT ![s].lanes = [@ EXCEPT ![p] = l]]
    PROVE  Mapped(s, p, l)
<1> DEFINE M == [sub[s].lanes EXCEPT ![p] = l]
           S == [sub[s] EXCEPT !.lanes = M]
<1>1. sub' = [sub EXCEPT ![s] = S]
  BY DEF SubOK
<1>2. /\ M \in [Panes -> Lanes \cup {NoLane}] /\ M[p] = l
      /\ \A o \in Panes : o # p => M[o] = sub[s].lanes[o]
  BY DEF SubOK, SubRec
<1> HIDE DEF M
<1>3. S \in SubRec /\ S.slots = sub[s].slots /\ S.lanes = M
  BY <1>2 DEF SubOK, SubRec
<1> HIDE DEF S
<1> QED BY <1>1, <1>2, <1>3 DEF SubOK, SameSlots, Mapped

\* Sub.dropLane: out of the map, if it is the one in it.
LEMMA ForgetStep ==
    ASSUME SubOK, NEW s \in Subs, NEW p \in Panes, NEW l, sub' = Forgotten(s, p, l)
    PROVE  Mapped(s, p, IF sub[s].lanes[p] = l THEN NoLane ELSE sub[s].lanes[p])
<1>1. CASE sub[s].lanes[p] = l
  <2>1. sub' = [sub EXCEPT ![s].lanes = [@ EXCEPT ![p] = NoLane]]
    BY <1>1 DEF Forgotten
  <2>2. NoLane \in Lanes \cup {NoLane}
    OBVIOUS
  <2>3. Mapped(s, p, NoLane)
    BY <2>1, <2>2, MapStep
  <2> QED BY <1>1, <2>3
<1>2. CASE sub[s].lanes[p] # l
  <2>1. sub' = sub
    BY <1>2 DEF Forgotten
  <2> QED BY <1>2, <2>1 DEF Mapped, SameSlots, SubOK
<1> QED BY <1>1, <1>2

\* A sequence of at most one element that is not empty has one.
LEMMA JustOne == ASSUME NEW S, NEW q \in Seq(S), q # << >>, Len(q) <= 1 PROVE Len(q) = 1
<1>1. Len(q) \in Nat
  OBVIOUS
<1>2. Len(q) # 0
  BY <1>1
<1> QED BY <1>1, <1>2

\* An answer is of the type of answers; the first one is the only one.
LEMMA ToldStep ==
    ASSUME AnswersOK, AnsweredOnce, NEW r \in Reqs, NEW a \in Answer, answers' = Told(r, a)
    PROVE  /\ AnswersOK' /\ Len(answers'[r]) = 1 /\ \A q \in Reqs : Len(answers'[q]) <= 1
           /\ \A q \in Reqs : q # r => answers'[q] = answers[q]
<1>1. \A q \in Reqs : answers[q] \in Seq(Answer) /\ Len(answers[q]) <= 1
  BY DEF AnswersOK, AnsweredOnce
<1>2. <<a>> \in Seq(Answer) /\ Len(<<a>>) = 1
  OBVIOUS
<1>3. CASE answers[r] = << >>
  <2>1. answers' = [answers EXCEPT ![r] = <<a>>]
    BY <1>3 DEF Told
  <2> QED BY <1>1, <1>2, <2>1 DEF AnswersOK
<1>4. CASE answers[r] # << >>
  <2>2. Len(answers[r]) = 1
    BY <1>1, <1>4, JustOne
  <2>3. answers' = answers
    BY <1>4 DEF Told
  <2> QED BY <1>1, <2>2, <2>3 DEF AnswersOK
<1> QED BY <1>3, <1>4

-----------------------------------------------------------------------------
(* What keeps each part of the invariant.                                  *)

\* The maps hold while a lane that is in one stays what it is, or only retires.
LEMMA MapsKeep ==
    ASSUME SubOK, Maps, SameMaps,
           \A l \in Lanes :
              /\ lane[l].pc \in {"look", "wait", "run", "retire"} =>
                    lane'[l].key = lane[l].key /\ lane'[l].pc \in {"look", "wait", "run", "retire"}
              /\ lane'[l].pc \in Live => lane[l].pc \in Live
    PROVE  Maps'
<1>1. \A s \in Subs, p \in Panes : sub[s].lanes[p] \in Lanes \cup {NoLane}
  BY DEF SubOK, SubRec
<1>2. MapIsLive'
  BY <1>1 DEF Maps, MapIsLive, SameMaps
<1>3. LiveIsMapped'
  BY DEF Maps, LiveIsMapped, SameMaps, Live
<1> QED BY <1>2, <1>3 DEF Maps

\* What a caller may have in its hand.
Holds(r, pc, l) ==
    /\ OnLane(r)
    /\ \/ pc \in {"look", "open", "queued"}
       \/ /\ pc = "push" /\ l \in Lanes
          /\ lane[l].retired \/ (lane[l].pc \in Live /\ lane[l].key = Key(r))
       \/ pc = "forget" /\ l \in Lanes /\ lane[l].retired

\* The lanes in hand stay what they were found to be, or retire.
HandsStay ==
    \A l \in Lanes :
        /\ lane[l].pc = "fresh" => lane'[l].pc = "fresh" /\ lane'[l].key = lane[l].key
        /\ lane[l].retired => lane'[l].retired
        /\ lane[l].pc \in Live =>
              lane'[l].retired \/ (lane'[l].pc \in Live /\ lane'[l].key = lane[l].key)

\* What every caller holds keeps its meaning while no lane a caller may hold is reused.
LEMMA HandsKeep ==
    ASSUME InHand, HandsStay,
           \A r \in Reqs :
              \/ req'[r].pc = req[r].pc /\ req'[r].lane = req[r].lane
              \/ req'[r].pc \in {"taken", "running", "returned", "done"}
              \/ Holds(r, req'[r].pc, req'[r].lane)
    PROVE  InHand'
<1> SUFFICES ASSUME NEW r \in Reqs PROVE HandOf(r)'
  BY DEF InHand
<1> USE DEF HandOf, OnLane, Key
<1>1. \A q \in Reqs : req'[q].pc = "insert" =>
         req[q].pc = "insert" /\ req'[q].lane = req[q].lane
  BY DEF Holds
<1>2. CASE req'[r].pc = req[r].pc /\ req'[r].lane = req[r].lane
  <2>1. HandOf(r)
    BY DEF InHand
  <2>2. req'[r].pc = "insert" =>
           /\ req'[r].lane \in Lanes /\ lane'[req'[r].lane].pc = "fresh"
           /\ lane'[req'[r].lane].key = Key(r)
    BY <2>1, <1>2 DEF HandsStay
  <2>3. req'[r].pc = "insert" =>
           \A q \in Reqs : req'[q].pc = "insert" /\ req'[q].lane = req'[r].lane => q = r
    BY <2>1, <1>1, <1>2
  <2>4. /\ req'[r].pc \in {"push", "forget"} =>
              /\ req'[r].lane \in Lanes
              /\ \/ lane'[req'[r].lane].retired
                 \/ lane'[req'[r].lane].pc \in Live /\ lane'[req'[r].lane].key = Key(r)
        /\ req'[r].pc = "forget" => lane'[req'[r].lane].retired
    BY <2>1, <1>2 DEF HandsStay
  <2> QED BY <2>1, <2>2, <2>3, <2>4, <1>2
<1>3. CASE req'[r].pc \in {"taken", "running", "returned", "done"}
  BY <1>3 DEF Accepting
<1>4. CASE Holds(r, req'[r].pc, req'[r].lane)
  BY <1>4 DEF Holds, HandsStay, Live
<1> QED BY <1>2, <1>3, <1>4

\* One that neither moves nor has its lane touched.
LEMMA HandStays ==
    ASSUME InHand, NEW q \in Reqs, req'[q] = req[q],
           req[q].pc \in {"insert", "push", "forget"} =>
              req[q].lane \in Lanes /\ lane'[req[q].lane] = lane[req[q].lane],
           req[q].pc = "insert" =>
              \A x \in Reqs : req'[x].pc = "insert" /\ req'[x].lane = req[q].lane => x = q
    PROVE  HandOf(q)'
<1>1. HandOf(q)
  BY DEF InHand
<1>2. req'[q].pc = "insert" =>
         /\ req'[q].lane \in Lanes /\ lane'[req'[q].lane].pc = "fresh"
         /\ lane'[req'[q].lane].key = Key(q)
  BY <1>1 DEF HandOf
<1>3. /\ req'[q].pc \in {"push", "forget"} =>
            /\ req'[q].lane \in Lanes
            /\ \/ lane'[req'[q].lane].retired
               \/ lane'[req'[q].lane].pc \in Live /\ lane'[req'[q].lane].key = Key(q)
      /\ req'[q].pc = "forget" => lane'[req'[q].lane].retired
  BY <1>1 DEF HandOf
<1> QED BY <1>1, <1>2, <1>3 DEF HandOf, OnLane, Key

\* Nothing moves in or out of a lane.
ItemsStay ==
    \A l \in Lanes :
        /\ lane'[l].q = lane[l].q /\ lane'[l].run = lane[l].run
        /\ lane'[l].key = lane[l].key \/ (lane[l].q = << >> /\ lane[l].run = NoReq)

\* A caller on its way to a lane.
Calls(r) ==
    /\ req[r].pc \in {"new", "look", "open", "insert", "push", "forget"}
    /\ req'[r].pc \in {"look", "open", "insert", "push", "forget", "done"}
    /\ \A q \in req'[r].before :
          Key(q) = Key(r) /\ req[q].pc \in {"queued", "taken", "running", "returned", "done"}

\* A request that is not bound to a lane, or an item that is delivered.
Runs(r) ==
    /\ req'[r].before \subseteq req[r].before
    /\ \/ ~OnLane(r) /\ req[r].pc \in {"new", "taken", "running", "returned"}
          /\ req'[r].pc \in {"taken", "running", "returned", "done"}
       \/ OnLane(r) /\ req[r].pc = "taken" /\ req'[r].pc = "returned"
       \/ OnLane(r) /\ req[r].pc = "taken" /\ req'[r].pc = "running" /\ ~closing
       \/ OnLane(r) /\ req[r].pc = "running" /\ req'[r].pc = "returned"

\* The items hold while none of them leaves its place.
LEMMA ItemsKeep ==
    ASSUME TypeOK, TypeOK', Items, ItemsStay, closing' = closing,
           quiescer'.drop = quiescer.drop,
           calls' = {r \in Reqs : req'[r].pc = "running"},
           \A r \in Reqs : req'[r] = req[r] \/ Calls(r) \/ Runs(r)
    PROVE  Items'
<1>1. \A r \in Reqs : req[r].before \subseteq Reqs /\ req'[r].before \subseteq Reqs
  BY DEF TypeOK, ReqOK, ReqRec
<1>2. \A r \in Reqs : req[r].pc = "queued" \/ req'[r].pc = "queued" => req'[r] = req[r]
  BY DEF Calls, Runs
<1>3. \A r \in Reqs : req[r].pc = "done" => req'[r].pc = "done"
  BY DEF Calls, Runs
<1>4. \A r \in Reqs : OnLane(r) => (req'[r].pc \in Delivered <=> req[r].pc \in Delivered)
  BY DEF Calls, Runs, Delivered
<1>5. \A r \in Reqs : req[r].pc \in {"queued", "done"} \cup Delivered =>
         req'[r].pc \in {"queued", "done"} \cup Delivered
  BY DEF Calls, Runs, Delivered
<1>6. \A l \in Lanes : \A i \in 1..Len(lane[l].q) : lane[l].q[i] \in Reqs
  BY DEF TypeOK, LaneOK, LaneRec
<1>7. QueuedOnce'
  <2>1. \A l \in Lanes : \A i \in 1..Len(lane'[l].q) :
           req'[lane'[l].q[i]].pc = "queued" /\ Key(lane'[l].q[i]) = lane'[l].key
    BY <1>2, <1>6 DEF Items, QueuedOnce, ItemsStay
  <2>2. \A l, m \in Lanes : \A i \in 1..Len(lane'[l].q), j \in 1..Len(lane'[m].q) :
           lane'[l].q[i] = lane'[m].q[j] => l = m /\ i = j
    BY DEF Items, QueuedOnce, ItemsStay
  <2>3. \A r \in Reqs : req'[r].pc = "queued" =>
           closing' \/ \E l \in Lanes : \E i \in 1..Len(lane'[l].q) : lane'[l].q[i] = r
    BY <1>2 DEF Items, QueuedOnce, ItemsStay
  <2> QED BY <2>1, <2>2, <2>3 DEF QueuedOnce, Key
<1>8. DroppedOnce'
  <2>1. \A i \in 1..Len(quiescer.drop) : quiescer.drop[i] \in Reqs
    BY DEF TypeOK, QuietOK, QuietRec
  <2> QED BY <1>2, <2>1 DEF Items, DroppedOnce, ItemsStay
<1>9. RunsOnLane'
  <2>1. \A l \in Lanes : lane[l].run \in Reqs \cup {NoReq}
    BY DEF TypeOK, LaneOK, LaneRec
  <2> QED BY <1>4, <2>1 DEF Items, RunsOnLane, ItemsStay, Key, OnLane
<1>10. AcceptedFirst'
  BY <1>1, <1>5 DEF Items, AcceptedFirst, Calls, Runs, Key, Delivered
<1>11. AheadInQueue'
  <2>1. \A l \in Lanes : \A i \in 1..Len(lane[l].q) : req'[lane[l].q[i]] = req[lane[l].q[i]]
    BY <1>2, <1>6 DEF Items, QueuedOnce
  <2> QED BY <1>1, <1>3, <1>6, <2>1 DEF Items, AheadInQueue, ItemsStay
<1>12. OverBefore'
  <2> SUFFICES ASSUME NEW r \in Reqs, OnLane(r), NEW q \in req'[r].before,
                      req'[r].pc = "running" \/ (req'[r].pc = "taken" /\ ~closing)
               PROVE  req'[q].pc = "done"
    BY DEF OverBefore, OnLane
  <2>1. CASE req'[r] = req[r]
    BY <2>1, <1>1, <1>3 DEF Items, OverBefore
  <2>2. CASE Runs(r)
    BY <2>2, <1>1, <1>3 DEF Items, OverBefore, Runs
  <2> QED BY <2>1, <2>2 DEF Calls
<1> QED BY <1>7, <1>8, <1>9, <1>10, <1>11, <1>12 DEF Items

\* The slots hold while no request takes or gives back one.
LEMMA SlotsKeep ==
    ASSUME Slots, SameSlots,
           \A r \in Reqs : OnLane(r) \/ (req'[r].pc \in Delivered <=> req[r].pc \in Delivered)
    PROVE  Slots'
<1>1. \A s : Holders(s)' = Holders(s)
  BY DEF Holders, OnLane, Delivered
<1> QED BY <1>1 DEF Slots, SlotsCounted, SlotsExact, SameSlots, Holders, OnLane

\* Shutdown is where it was while nothing begins to run and no lane is set free.
LEMMA QuietKeeps ==
    ASSUME Quieting, closing' = closing, quiescer' = quiescer, hubLanes' \subseteq hubLanes,
           calls' \subseteq calls, \A r \in calls' : r \in cancelled => r \in cancelled',
           \A m \in Lanes : m \in hubLanes' /\ lane[m].quiesced => lane'[m].quiesced,
           \A m \in Lanes : lane[m].run = NoReq => lane'[m].run = NoReq,
           SetsOK
    PROVE  Quieting'
<1>1. calls \subseteq cancelled => calls' \subseteq cancelled'
  OBVIOUS
<1>2. (\A l \in hubLanes : lane[l].quiesced \/ l \in quiescer.todo) =>
         \A l \in hubLanes' : lane'[l].quiesced \/ l \in quiescer.todo
  BY DEF SetsOK
<1> QED BY <1>1, <1>2 DEF Quieting

\* A request that ends is told, and only then has it been.
LEMMA EndTold ==
    ASSUME ReqOK, AnswersOK, AnsweredOnce, NEW r \in Reqs, NEW a \in Answer,
           End(r), answers' = Told(r, a)
    PROVE  AnswersOK' /\ AnsweredOnce'
<1>1. ReqStep(r, "done", NoLane, {})
  BY EndStep
<1>2. /\ AnswersOK' /\ Len(answers'[r]) = 1 /\ \A q \in Reqs : Len(answers'[q]) <= 1
      /\ \A q \in Reqs : q # r => answers'[q] = answers[q]
  BY ToldStep
<1> QED BY <1>1, <1>2 DEF AnsweredOnce, At, ReqStep

\* A step that answers nobody and ends nobody keeps the answers exact.
LEMMA AnswersKeep ==
    ASSUME AnsweredOnce, answers' = answers,
           \A r \in Reqs : req'[r].pc = "done" => req[r].pc = "done"
    PROVE  AnsweredOnce'
BY DEF AnsweredOnce, At

\* A step that leaves the lanes and the hub's set of them keeps what they stand for.
LEMMA LaneStandsKeep ==
    ASSUME LaneStands, lane' = lane, hubLanes' = hubLanes
    PROVE  LaneStands'
BY DEF LaneStands

\* All but the requests and their answers stays.
RestStays == UNCHANGED <<expired, cancelled, calls, closing, hubLanes, lane, sub, leave, quiescer>>

\* A caller that is refused leaves nothing behind.
LEMMA RefusedIInv ==
    ASSUME IInv, NEW r \in Reqs, NEW a \in Answer,
           req[r].pc \in {"new", "look", "open", "insert", "push", "forget"},
           End(r), answers' = Told(r, a), RestStays
    PROVE  IInv'
<1> USE DEF RestStays
<1>1. ReqStep(r, "done", NoLane, {})
  BY EndStep DEF IInv, TypeOK
<1>2. AnswersOK' /\ AnsweredOnce'
  BY EndTold DEF IInv, TypeOK
<1>3. TypeOK'
  BY <1>1, <1>2 DEF IInv, TypeOK, ReqStep, LaneOK, SubOK, LeaveOK, QuietOK, SetsOK
<1>4. Maps'
  BY MapsKeep DEF IInv, TypeOK, Live, SameMaps
<1>5. InHand'
  BY <1>1, HandsKeep DEF IInv, ReqStep, HandsStay
<1>6. Items'
  <2>1. \A q \in Reqs : req'[q] = req[q] \/ Calls(q)
    BY <1>1 DEF ReqStep, Calls
  <2>2. calls' = {q \in Reqs : req'[q].pc = "running"}
    BY <1>1 DEF ReqStep, IInv, Items, RunsOnLane
  <2> QED BY <1>3, <2>1, <2>2, ItemsKeep DEF IInv, ItemsStay
<1>7. Slots'
  BY <1>1, SlotsKeep DEF IInv, ReqStep, Delivered, SameSlots
<1>8. LaneStands' /\ Quieting'
  BY LaneStandsKeep DEF IInv, Quieting
<1> QED BY <1>2, <1>3, <1>4, <1>5, <1>6, <1>7, <1>8 DEF IInv

\* Nor does one that goes on with a lane it may hold.
LEMMA MovesIInv ==
    ASSUME IInv, NEW r \in Reqs, NEW pc \in {"look", "open", "push", "forget"},
           NEW l, NEW b,
           req[r].pc \in {"new", "look", "open", "insert", "push", "forget"},
           ReqStep(r, pc, l, b), Holds(r, pc, l),
           \A q \in b : Key(q) = Key(r)
                       /\ req[q].pc \in {"queued", "taken", "running", "returned", "done"},
           answers' = answers, RestStays
    PROVE  IInv'
<1> USE DEF RestStays
<1>1. TypeOK'
  BY DEF IInv, TypeOK, ReqStep, LaneOK, SubOK, LeaveOK, QuietOK, AnswersOK, SetsOK
<1>2. Maps'
  BY MapsKeep DEF IInv, TypeOK, Live, SameMaps
<1>3. InHand'
  BY HandsKeep DEF IInv, ReqStep, HandsStay
<1>4. Items'
  <2>1. \A q \in Reqs : req'[q] = req[q] \/ Calls(q)
    BY DEF ReqStep, Calls
  <2>2. calls' = {q \in Reqs : req'[q].pc = "running"}
    BY DEF ReqStep, IInv, Items, RunsOnLane
  <2> QED BY <1>1, <2>1, <2>2, ItemsKeep DEF IInv, ItemsStay
<1>5. AnsweredOnce'
  BY AnswersKeep DEF IInv, ReqStep
<1>6. Slots'
  BY SlotsKeep DEF IInv, ReqStep, Delivered, SameSlots, Holds
<1>7. LaneStands' /\ Quieting'
  BY LaneStandsKeep DEF IInv, Quieting
<1> QED BY <1>1, <1>2, <1>3, <1>4, <1>5, <1>6, <1>7 DEF IInv

-----------------------------------------------------------------------------
(* Sub.Call.                                                               *)

\* A request that needs no lane is refused or takes a slot.
LEMMA CallPlainIInv == ASSUME IInv, NEW r \in Reqs, CallPlain(r) PROVE IInv'
<1>1. /\ TypeOK /\ SubOf[r] \in Subs /\ ~OnLane(r) /\ req[r].pc = "new"
      /\ lane' = lane /\ hubLanes' = hubLanes /\ closing' = closing /\ calls' = calls
      /\ cancelled' = cancelled /\ expired' = expired /\ leave' = leave /\ quiescer' = quiescer
  BY CallBounds DEF IInv, CallPlain, callVars, OnLane, At
<1>2. CASE HasSlot(SubOf[r])
  <2>1. ReqStep(r, "taken", req[r].lane, req[r].before)
    BY <1>1, <1>2, GoToStep DEF CallPlain, TypeOK, ReqPcs
  <2>2. /\ SubOK' /\ SameMaps /\ sub'[SubOf[r]].slots = sub[SubOf[r]].slots + 1
        /\ \A t \in Subs : t # SubOf[r] => sub'[t].slots = sub[t].slots
    <3>1. sub[SubOf[r]].slots + 1 \in Int
      BY <1>1 DEF TypeOK, SubOK, SubRec
    <3>2. sub' = [sub EXCEPT ![SubOf[r]].slots = sub[SubOf[r]].slots + 1]
      BY <1>1, <1>2 DEF CallPlain
    <3> QED BY <1>1, <3>1, <3>2, SlotStep DEF TypeOK
  <2>3. answers' = answers
    BY <1>2 DEF CallPlain
  <2>4. TypeOK'
    BY <1>1, <2>1, <2>2, <2>3 DEF TypeOK, ReqStep, LaneOK, LeaveOK, QuietOK, AnswersOK, SetsOK
  <2>5. Maps'
    BY <1>1, <2>2, MapsKeep DEF IInv, TypeOK, Live
  <2>6. InHand'
    BY <1>1, <2>1, HandsKeep DEF IInv, ReqStep, HandsStay
  <2>7. Items'
    <3>1. \A q \in Reqs : req'[q] = req[q] \/ Runs(q)
      BY <1>1, <2>1 DEF ReqStep, Runs
    <3>2. calls' = {q \in Reqs : req'[q].pc = "running"}
      BY <1>1, <2>1 DEF ReqStep, IInv, Items, RunsOnLane
    <3> QED BY <1>1, <2>4, <3>1, <3>2, ItemsKeep DEF IInv, ItemsStay
  <2>8. AnsweredOnce'
    BY <2>1, <2>3, AnswersKeep DEF IInv, ReqStep
  <2>9. Slots'
    <3>1. Holders(SubOf[r])' = Holders(SubOf[r]) \cup {r} /\ r \notin Holders(SubOf[r])
      BY <1>1, <2>1 DEF Holders, OnLane, ReqStep
    <3>2. \A s \in Subs : s # SubOf[r] => Holders(s)' = Holders(s)
      BY <1>1, <2>1 DEF Holders, OnLane, ReqStep
    <3>3. \A s \in Subs : /\ IsFiniteSet(Holders(s)) /\ sub[s].slots <= InFlightMax
                          /\ sub[s].slots = Cardinality(Holders(s))
      BY DEF IInv, Slots, SlotsCounted, SlotsExact, Holders
    <3>4. /\ IsFiniteSet(Holders(SubOf[r])')
          /\ Cardinality(Holders(SubOf[r])') = Cardinality(Holders(SubOf[r])) + 1
      BY <1>1, <3>1, <3>3, FS_AddElement
    <3>5. sub[SubOf[r]].slots < InFlightMax
      BY <1>2 DEF HasSlot
    <3>6. \A s \in Subs : /\ IsFiniteSet(Holders(s)') /\ sub'[s].slots <= InFlightMax
                          /\ sub'[s].slots = Cardinality(Holders(s)')
      <4>1. sub[SubOf[r]].slots \in Int
        BY <1>1 DEF TypeOK, SubOK, SubRec
      <4> QED BY <1>1, <2>2, <3>2, <3>3, <3>4, <3>5, <4>1, CallBounds
    <3> QED BY <3>6 DEF Slots, SlotsCounted, SlotsExact, Holders
  <2>10. LaneStands' /\ Quieting'
    BY <1>1, LaneStandsKeep DEF IInv, Quieting
  <2> QED BY <2>4, <2>5, <2>6, <2>7, <2>8, <2>9, <2>10 DEF IInv
<1>3. CASE ~HasSlot(SubOf[r])
  <2>1. End(r) /\ answers' = Told(r, "busy") /\ sub' = sub
    BY <1>3 DEF CallPlain
  <2> QED BY <1>1, <2>1, RefusedIInv DEF RestStays, Answer
<1> QED BY <1>2, <1>3

\* A request that needs a lane notes what was accepted before it.
LEMMA CallOnLaneIInv == ASSUME IInv, NEW r \in Reqs, CallOnLane(r) PROVE IInv'
<1>1. TypeOK /\ req[r].pc = "new" /\ OnLane(r) /\ answers' = answers /\ RestStays
  BY DEF IInv, CallOnLane, callVars, RestStays, At, OnLane
<1>2. ReqStep(r, "look", req[r].lane, Accepted(r))
  <2>1. Accepted(r) \in SUBSET Reqs
    BY DEF Accepted, Siblings
  <2>2. req' = [req EXCEPT ![r] = [@ EXCEPT !.pc = "look", !.before = Accepted(r)]]
    BY DEF CallOnLane
  <2> QED BY <1>1, <2>1, <2>2, BeginStep DEF TypeOK
<1>3. \A q \in Accepted(r) :
         Key(q) = Key(r) /\ req[q].pc \in {"queued", "taken", "running", "returned", "done"}
  BY DEF Accepted, Siblings
<1> QED BY <1>1, <1>2, <1>3, MovesIInv DEF Holds

\* A caller takes the lane it finds in the map, or goes to open one.
LEMMA LookUpIInv == ASSUME IInv, NEW r \in Reqs, LookUp(r) PROVE IInv'
<1>1. /\ TypeOK /\ req[r].pc = "look" /\ OnLane(r) /\ RestStays
      /\ SubOf[r] \in Subs /\ PaneOf[r] \in Panes
  BY CallBounds DEF IInv, LookUp, callVars, RestStays, At, OnLane, InHand, HandOf, Accepting
<1>2. CASE sub[SubOf[r]].gone
  <2>1. End(r) /\ answers' = Told(r, "not_ready")
    BY <1>2 DEF LookUp
  <2> QED BY <1>1, <2>1, RefusedIInv DEF Answer
<1>3. CASE ~sub[SubOf[r]].gone
  <2> DEFINE l == sub[SubOf[r]].lanes[PaneOf[r]]
  <2>1. /\ answers' = answers
        /\ With(r, IF l = NoLane THEN "open" ELSE "push", l)
    BY <1>3 DEF LookUp
  <2>2. l \in Lanes \cup {NoLane}
    BY <1>1 DEF TypeOK, SubOK, SubRec
  <2>3. CASE l = NoLane
    <3>1. ReqStep(r, "open", l, req[r].before)
      BY <1>1, <2>1, <2>2, <2>3, WithStep DEF TypeOK, ReqPcs
    <3> QED BY <1>1, <2>1, <3>1, MovesIInv DEF Holds, IInv, Items, AcceptedFirst, Delivered
  <2>4. CASE l # NoLane
    <3>1. ReqStep(r, "push", l, req[r].before)
      BY <1>1, <2>1, <2>2, <2>4, WithStep DEF TypeOK, ReqPcs
    <3>2. Holds(r, "push", l)
      BY <1>1, <2>2, <2>4 DEF Holds, IInv, Maps, MapIsLive, LaneStands, Key, Live, Gone
    <3> HIDE DEF l
    <3> QED BY <1>1, <2>1, <3>1, <3>2, MovesIInv DEF IInv, Items, AcceptedFirst, Delivered
  <2> QED BY <2>3, <2>4
<1> QED BY <1>2, <1>3

\* Where a lane is that drains: in the map, and nowhere else is one of its key.
LEMMA OneLane ==
    ASSUME Maps, SubOK, NEW l \in Lanes, NEW m \in Lanes, lane[l].pc \in Live,
           lane[m].pc \in Live, lane[l].key = lane[m].key
    PROVE  l = m
BY DEF Maps, LiveIsMapped

\* openLane: a closing hub refuses, else the caller holds a lane of its own.
LEMMA OpenLaneIInv == ASSUME IInv, NEW r \in Reqs, OpenLane(r) PROVE IInv'
<1>1. /\ TypeOK /\ req[r].pc = "open" /\ OnLane(r) /\ Key(r) \in Subs \X Panes
      /\ expired' = expired /\ cancelled' = cancelled /\ calls' = calls /\ closing' = closing
      /\ sub' = sub /\ leave' = leave /\ quiescer' = quiescer
  BY CallBounds DEF IInv, OpenLane, At, OnLane, InHand, HandOf, Accepting, Key
<1>2. CASE closing /\ End(r) /\ answers' = Told(r, "not_ready") /\ UNCHANGED <<hubLanes, lane>>
  BY <1>1, <1>2, RefusedIInv DEF RestStays, Answer
<1>3. ASSUME ~closing, answers' = answers, NEW l \in Lanes, Unused(l),
             hubLanes' = hubLanes \cup {l}, With(r, "insert", l),
             lane' = [lane EXCEPT ![l] = [NoneLane EXCEPT !.pc = "fresh", !.key = Key(r)]]
      PROVE  IInv'
  <2>1. ReqStep(r, "insert", l, req[r].before)
    BY <1>1, <1>3, WithStep DEF TypeOK, ReqPcs
  <2>2. /\ LaneOK' /\ lane'[l].pc = "fresh" /\ lane'[l].key = Key(r) /\ lane'[l].q = << >>
        /\ lane'[l].run = NoReq /\ lane'[l].retired = FALSE
        /\ \A m \in Lanes : m # l => lane'[m] = lane[m]
    <3> DEFINE L == [NoneLane EXCEPT !.pc = "fresh", !.key = Key(r)]
    <3>1. Key(r) \in Keys
      BY <1>1 DEF Keys
    <3>2. /\ L \in LaneRec /\ L.pc = "fresh" /\ L.key = Key(r) /\ L.q = << >>
          /\ L.run = NoReq /\ L.retired = FALSE
      BY <3>1, NoneLaneOK DEF LaneRec, LanePcs
    <3>3. lane' = [lane EXCEPT ![l] = L]
      BY <1>3
    <3> HIDE DEF L
    <3> QED BY <1>1, <3>2, <3>3, LanePut DEF TypeOK
  <2>3. /\ lane[l].pc \in {"none", "dead"} /\ lane[l].q = << >> /\ lane[l].run = NoReq
        /\ \A q \in Reqs : req[q].lane # l
    BY <1>3 DEF Unused, IInv, LaneStands, Live
  <2>4. TypeOK'
    BY <1>1, <1>3, <2>1, <2>2 DEF TypeOK, ReqStep, SubOK, LeaveOK, QuietOK, AnswersOK, SetsOK
  <2>5. Maps'
    <3>1. \A m \in Lanes :
              /\ lane[m].pc \in {"look", "wait", "run", "retire"} =>
                    lane'[m].key = lane[m].key /\ lane'[m].pc \in {"look", "wait", "run", "retire"}
              /\ lane'[m].pc \in Live => lane[m].pc \in Live
      BY <2>2, <2>3 DEF Live
    <3> QED BY <1>1, <3>1, MapsKeep DEF IInv, TypeOK, SameMaps
  <2>6. LaneStands'
    BY <1>1, <1>3, <2>2, <2>3 DEF IInv, LaneStands, Gone, Live
  <2>7. InHand'
    <3>1. \A q \in Reqs : q # r => req'[q] = req[q] /\ req'[q].lane # l
      BY <2>1, <2>3 DEF ReqStep
    <3>2. \A q \in Reqs : q # r /\ req'[q].lane \in Lanes =>
              lane'[req'[q].lane] = lane[req[q].lane]
      BY <2>2, <3>1
    <3>3. \A q \in Reqs : q # r => HandOf(q)'
      <4>1. \A q \in Reqs : req[q].pc \in {"insert", "push", "forget"} => req[q].lane \in Lanes
        BY DEF IInv, InHand, HandOf
      <4>2. \A q \in Reqs : q # r /\ req[q].pc = "insert" =>
               \A x \in Reqs : req'[x].pc = "insert" /\ req'[x].lane = req[q].lane => x = q
        BY <2>1, <2>3, <3>1 DEF IInv, InHand, HandOf, ReqStep
      <4> QED BY <3>1, <3>2, <4>1, <4>2, HandStays DEF IInv
    <3>4. HandOf(r)'
      BY <1>1, <2>1, <2>2, <3>1 DEF HandOf, ReqStep, Accepting, OnLane, Key
    <3> QED BY <3>3, <3>4 DEF InHand
  <2>8. Items'
    <3>1. \A q \in Reqs : req'[q] = req[q] \/ Calls(q)
      BY <1>1, <2>1 DEF ReqStep, Calls, IInv, Items, AcceptedFirst, Delivered
    <3>2. calls' = {q \in Reqs : req'[q].pc = "running"}
      BY <1>1, <2>1 DEF ReqStep, IInv, Items, RunsOnLane
    <3>3. ItemsStay
      BY <2>2, <2>3 DEF ItemsStay
    <3> QED BY <1>1, <2>4, <3>1, <3>2, <3>3, ItemsKeep DEF IInv
  <2>9. AnsweredOnce'
    BY <1>3, <2>1, AnswersKeep DEF IInv, ReqStep
  <2>10. Slots'
    BY <1>1, <2>1, SlotsKeep DEF IInv, ReqStep, Delivered, SameSlots
  <2>11. Quieting'
    BY <1>1, <1>3 DEF IInv, Quieting
  <2> QED BY <2>4, <2>5, <2>6, <2>7, <2>8, <2>9, <2>10, <2>11 DEF IInv
<1> QED BY <1>2, <1>3 DEF OpenLane

\* The new lane goes into the map, unless another came first or the Sub is gone.
LEMMA InsertLaneIInv == ASSUME IInv, NEW r \in Reqs, InsertLane(r) PROVE IInv'
<1> DEFINE l == req[r].lane
           w == sub[SubOf[r]].lanes[PaneOf[r]]
<1>1. /\ TypeOK /\ req[r].pc = "insert" /\ OnLane(r) /\ SubOf[r] \in Subs /\ PaneOf[r] \in Panes
      /\ Key(r) = <<SubOf[r], PaneOf[r]>> /\ l \in Lanes
      /\ lane[l].pc = "fresh" /\ lane[l].key = Key(r) /\ ~lane[l].retired
      /\ lane[l].q = << >> /\ lane[l].run = NoReq
      /\ \A q \in Reqs : req[q].pc \in {"insert", "push", "forget"} /\ req[q].lane = l => q = r
      /\ w \in Lanes \cup {NoLane}
      /\ expired' = expired /\ cancelled' = cancelled /\ calls' = calls /\ closing' = closing
      /\ leave' = leave /\ quiescer' = quiescer
  <2>1. TypeOK /\ InHand /\ LaneStands
    BY DEF IInv
  <2>2. /\ req[r].pc = "insert" /\ OnLane(r)
        /\ expired' = expired /\ cancelled' = cancelled /\ calls' = calls /\ closing' = closing
        /\ leave' = leave /\ quiescer' = quiescer
    BY <2>1 DEF InsertLane, At, InHand, HandOf, Accepting
  <2>3. SubOf[r] \in Subs /\ PaneOf[r] \in Panes
    BY <2>2, CallBounds DEF OnLane
  <2>4. l \in Lanes /\ lane[l].pc = "fresh" /\ lane[l].key = Key(r)
    BY <2>1, <2>2 DEF InHand, HandOf
  <2>5. ~lane[l].retired /\ lane[l].q = << >> /\ lane[l].run = NoReq
    BY <2>1, <2>4 DEF LaneStands, Gone, Live
  <2>6. \A q \in Reqs : req[q].pc \in {"insert", "push", "forget"} /\ req[q].lane = l => q = r
    BY <2>1, <2>2, <2>4, <2>5 DEF InHand, HandOf, Live
  <2>7. w \in Lanes \cup {NoLane}
    BY <2>1, <2>3 DEF TypeOK, SubOK, SubRec
  <2> QED BY <2>1, <2>2, <2>3, <2>4, <2>5, <2>6, <2>7 DEF Key
<1>2. CASE ~sub[SubOf[r]].gone /\ ~Lost(r)
  <2>1. /\ sub' = [sub EXCEPT ![SubOf[r]].lanes = [@ EXCEPT ![PaneOf[r]] = l]]
        /\ lane' = [lane EXCEPT ![l].pc = "look"] /\ GoTo(r, "push")
        /\ answers' = answers /\ hubLanes' = hubLanes /\ w = NoLane
    BY <1>2 DEF InsertLane, Lost
  <2> HIDE DEF l
  <2>2. ReqStep(r, "push", l, req[r].before)
    BY <1>1, <2>1, GoToStep DEF TypeOK, ReqPcs, l
  <2>3. LaneStep(l, "look", << >>, NoReq, lane[l].quiesced, lane[l].retired)
    BY <1>1, <2>1, DrainerStep DEF TypeOK, LanePcs
  <2>4. Mapped(SubOf[r], PaneOf[r], l)
    <3>1. SubOK /\ l \in Lanes \cup {NoLane}
      BY <1>1 DEF TypeOK
    <3> QED BY <1>1, <2>1, <3>1, MapStep
  <2>5. TypeOK'
    BY <1>1, <2>1, <2>2, <2>3, <2>4
       DEF TypeOK, ReqStep, LaneStep, Mapped, LeaveOK, QuietOK, AnswersOK, SetsOK
  <2>6. Maps'
    <3>1. \A s \in Subs, p \in Panes : sub[s].lanes[p] \in Lanes \cup {NoLane}
      BY <1>1 DEF TypeOK, SubOK, SubRec
    <3>2. \A s \in Subs, p \in Panes : sub[s].lanes[p] # l
      BY <1>1, <3>1, CallBounds DEF IInv, Maps, MapIsLive
    <3>3. MapIsLive'
      <4> SUFFICES ASSUME NEW s \in Subs, NEW p \in Panes, sub'[s].lanes[p] # NoLane
                   PROVE  /\ lane'[sub'[s].lanes[p]].key = <<s, p>>
                          /\ lane'[sub'[s].lanes[p]].pc \in {"look", "wait", "run", "retire"}
        BY DEF MapIsLive
      <4>1. CASE <<s, p>> = Key(r)
        BY <4>1, <1>1, <2>3, <2>4 DEF LaneStep, Mapped
      <4>2. CASE <<s, p>> # Key(r)
        <5>1. sub'[s].lanes[p] = sub[s].lanes[p] /\ sub[s].lanes[p] \in Lanes
          BY <4>2, <1>1, <2>4, <3>1 DEF Mapped
        <5>2. lane'[sub[s].lanes[p]] = lane[sub[s].lanes[p]]
          BY <5>1, <2>3, <3>2 DEF LaneStep
        <5> QED BY <5>1, <5>2 DEF IInv, Maps, MapIsLive
      <4> QED BY <4>1, <4>2
    <3>4. LiveIsMapped'
      <4> SUFFICES ASSUME NEW m \in Lanes, lane'[m].pc \in Live
                   PROVE  \E s \in Subs, p \in Panes :
                              lane'[m].key = <<s, p>> /\ sub'[s].lanes[p] = m
        BY DEF LiveIsMapped, Live
      <4>1. CASE m = l
        BY <4>1, <1>1, <2>3, <2>4 DEF LaneStep, Mapped
      <4>2. CASE m # l
        <5>1. lane'[m] = lane[m]
          BY <4>2, <2>3 DEF LaneStep
        <5>2. PICK s \in Subs, p \in Panes : lane[m].key = <<s, p>> /\ sub[s].lanes[p] = m
          BY <5>1 DEF IInv, Maps, LiveIsMapped
        <5>3. <<s, p>> # Key(r)
          BY <1>1, <2>1, <5>2, CallBounds
        <5> QED BY <1>1, <2>4, <5>1, <5>2, <5>3 DEF Mapped
      <4> QED BY <4>1, <4>2
    <3> QED BY <3>3, <3>4 DEF Maps
  <2>7. LaneStands'
    BY <1>1, <2>1, <2>3 DEF IInv, LaneStands, LaneStep, Gone, Live
  <2>8. InHand'
    <3>1. \A q \in Reqs : q # r => req'[q] = req[q]
      BY <2>2 DEF ReqStep
    <3>2. \A q \in Reqs : q # r /\ req'[q].pc \in {"insert", "push", "forget"} =>
             req[q].lane \in Lanes /\ lane'[req'[q].lane] = lane[req[q].lane]
      BY <1>1, <2>3, <3>1 DEF LaneStep, IInv, InHand, HandOf
    <3>3. \A q \in Reqs : q # r => HandOf(q)'
      <4>1. \A q \in Reqs : q # r /\ req[q].pc = "insert" =>
               \A x \in Reqs : req'[x].pc = "insert" /\ req'[x].lane = req[q].lane => x = q
        BY <2>2, <3>1 DEF IInv, InHand, HandOf, ReqStep
      <4> QED BY <3>1, <3>2, <4>1, HandStays DEF IInv
    <3>4. HandOf(r)'
      BY <1>1, <2>2, <2>3 DEF HandOf, ReqStep, LaneStep, Accepting, OnLane, Key, Live
    <3> QED BY <3>3, <3>4 DEF InHand
  <2>9. Items'
    <3>1. \A q \in Reqs : req'[q] = req[q] \/ Calls(q)
      BY <1>1, <2>2 DEF ReqStep, Calls, IInv, Items, AcceptedFirst, Delivered
    <3>2. calls' = {q \in Reqs : req'[q].pc = "running"}
      BY <1>1, <2>2 DEF ReqStep, IInv, Items, RunsOnLane
    <3>3. ItemsStay
      BY <1>1, <2>3 DEF ItemsStay, LaneStep
    <3> QED BY <1>1, <2>5, <3>1, <3>2, <3>3, ItemsKeep DEF IInv
  <2>10. AnsweredOnce'
    BY <2>1, <2>2, AnswersKeep DEF IInv, ReqStep
  <2>11. Slots'
    BY <1>1, <2>2, <2>4, SlotsKeep DEF IInv, ReqStep, Delivered, Mapped
  <2>12. Quieting'
    BY <1>1, <2>1, <2>3 DEF IInv, Quieting, LaneStep
  <2> QED BY <2>5, <2>6, <2>7, <2>8, <2>9, <2>10, <2>11, <2>12 DEF IInv
<1>3. CASE sub[SubOf[r]].gone \/ Lost(r)
  <2>1. /\ hubLanes' = hubLanes \ {l} /\ lane' = [lane EXCEPT ![l] = Dead] /\ sub' = sub
        /\ \/ End(r) /\ answers' = Told(r, "not_ready")
           \/ With(r, "push", w) /\ answers' = answers /\ w # NoLane
    BY <1>3 DEF InsertLane, OutOfHub, Lost
  <2> HIDE DEF l, w
  <2>2. /\ LaneOK' /\ lane'[l].pc = "dead" /\ lane'[l].q = << >> /\ lane'[l].run = NoReq
        /\ lane'[l].retired = TRUE /\ \A m \in Lanes : m # l => lane'[m] = lane[m]
    BY <1>1, <2>1, DeadStep DEF TypeOK
  <2>3. Maps'
    <3>1. \A m \in Lanes :
              /\ lane[m].pc \in {"look", "wait", "run", "retire"} =>
                    lane'[m].key = lane[m].key /\ lane'[m].pc \in {"look", "wait", "run", "retire"}
              /\ lane'[m].pc \in Live => lane[m].pc \in Live
      BY <1>1, <2>2 DEF Live
    <3> QED BY <1>1, <2>1, <3>1, MapsKeep DEF IInv, TypeOK, SameMaps
  <2>4. LaneStands'
    BY <1>1, <2>1, <2>2 DEF IInv, LaneStands, Gone, Live
  <2>5. Quieting'
    BY <1>1, <2>1, <2>2 DEF IInv, Quieting
  <2>6. ItemsStay
    BY <1>1, <2>2 DEF ItemsStay
  <2>7. /\ TypeOK' /\ AnsweredOnce'
        /\ \/ ReqStep(r, "done", NoLane, {})
           \/ ReqStep(r, "push", w, req[r].before) /\ w \in Lanes /\ w # l
              /\ (lane[w].retired \/ (lane[w].pc \in Live /\ lane[w].key = Key(r)))
    <3>1. CASE End(r) /\ answers' = Told(r, "not_ready")
      <4>1. ReqStep(r, "done", NoLane, {})
        BY <3>1, <1>1, EndStep DEF TypeOK
      <4>2. AnswersOK' /\ AnsweredOnce'
        BY <3>1, <1>1, EndTold DEF IInv, TypeOK, Answer
      <4> QED BY <1>1, <2>1, <2>2, <4>1, <4>2
              DEF TypeOK, ReqStep, SubOK, LeaveOK, QuietOK, SetsOK
    <3>2. CASE With(r, "push", w) /\ answers' = answers /\ w # NoLane
      <4>1. ReqStep(r, "push", w, req[r].before)
        BY <3>2, <1>1, WithStep DEF TypeOK, ReqPcs
      <4>2. /\ w \in Lanes /\ lane[w].key = Key(r)
            /\ lane[w].pc \in {"look", "wait", "run", "retire"}
        BY <3>2, <1>1 DEF IInv, Maps, MapIsLive, w
      <4>3. w # l /\ (lane[w].retired \/ lane[w].pc \in Live)
        BY <1>1, <4>2 DEF IInv, LaneStands, Live, Gone
      <4>4. AnsweredOnce'
        BY <3>2, <4>1, AnswersKeep DEF IInv, ReqStep
      <4> QED BY <3>2, <1>1, <2>1, <2>2, <4>1, <4>2, <4>3, <4>4
              DEF TypeOK, ReqStep, SubOK, LeaveOK, QuietOK, AnswersOK, SetsOK
    <3> QED BY <2>1, <3>1, <3>2
  <2>8. InHand'
    <3>1. \A q \in Reqs : q # r => req'[q] = req[q]
      BY <2>7 DEF ReqStep
    <3>2. \A q \in Reqs : q # r /\ req'[q].pc \in {"insert", "push", "forget"} =>
             req[q].lane \in Lanes /\ lane'[req'[q].lane] = lane[req[q].lane]
      BY <1>1, <2>2, <3>1 DEF IInv, InHand, HandOf
    <3>3. \A q \in Reqs : q # r => HandOf(q)'
      <4>1. \A q \in Reqs : q # r /\ req[q].pc = "insert" =>
               \A x \in Reqs : req'[x].pc = "insert" /\ req'[x].lane = req[q].lane => x = q
        BY <2>7, <3>1 DEF IInv, InHand, HandOf, ReqStep
      <4> QED BY <3>1, <3>2, <4>1, HandStays DEF IInv
    <3>4. HandOf(r)'
      BY <1>1, <2>2, <2>7 DEF HandOf, ReqStep, Accepting, OnLane, Key
    <3> QED BY <3>3, <3>4 DEF InHand
  <2>9. Items'
    <3>1. \A q \in Reqs : req'[q] = req[q] \/ Calls(q)
      BY <1>1, <2>7 DEF ReqStep, Calls, IInv, Items, AcceptedFirst, Delivered
    <3>2. calls' = {q \in Reqs : req'[q].pc = "running"}
      BY <1>1, <2>7 DEF ReqStep, IInv, Items, RunsOnLane
    <3> QED BY <1>1, <2>6, <2>7, <3>1, <3>2, ItemsKeep DEF IInv
  <2>10. Slots'
    BY <1>1, <2>1, <2>7, SlotsKeep DEF IInv, ReqStep, Delivered, SameSlots
  <2> QED BY <2>3, <2>4, <2>5, <2>7, <2>8, <2>9, <2>10 DEF IInv
<1> QED BY <1>2, <1>3 DEF InsertLane

\* What appending to a queue gives.
LEMMA AppendIs ==
    ASSUME NEW q \in Seq(Reqs), NEW r \in Reqs
    PROVE  /\ Append(q, r) \in Seq(Reqs) /\ Len(Append(q, r)) = Len(q) + 1 /\ Len(q) \in Nat
           /\ \A i \in 1..Len(q) : Append(q, r)[i] = q[i]
           /\ Append(q, r)[Len(q) + 1] = r
OBVIOUS

\* What a push has done: r is the last of l's queue.
Pushed(r, l) ==
    /\ ReqStep(r, "queued", NoLane, req[r].before)
    /\ LaneStep(l, lane[l].pc, Append(lane[l].q, r), lane[l].run, lane[l].quiesced,
                lane[l].retired)

\* It comes after all that was accepted before: whatever of that waits or runs is on
\* the same lane.
LEMMA PushItems ==
    ASSUME TypeOK, TypeOK', Maps, LaneStands, Items, NEW r \in Reqs, NEW l \in Lanes,
           req[r].pc = "push", OnLane(r), lane[l].pc \in Live, lane[l].key = Key(r),
           Pushed(r, l), closing' = closing, calls' = calls, quiescer' = quiescer
    PROVE  Items'
<1> USE DEF Items
<1>1. /\ req'[r].pc = "queued" /\ req'[r].before = req[r].before
      /\ \A q \in Reqs : q # r => req'[q] = req[q]
  BY DEF Pushed, ReqStep
<1>2. /\ lane'[l].key = lane[l].key /\ lane'[l].q = Append(lane[l].q, r)
      /\ lane'[l].run = lane[l].run /\ \A m \in Lanes : m # l => lane'[m] = lane[m]
  BY DEF Pushed, LaneStep
<1>3. \A m \in Lanes : \A i \in 1..Len(lane[m].q) : lane[m].q[i] \in Reqs /\ lane[m].q[i] # r
  <2>1. \A m \in Lanes : \A i \in 1..Len(lane[m].q) : lane[m].q[i] \in Reqs
    BY DEF TypeOK, LaneOK, LaneRec
  <2> QED BY <2>1 DEF QueuedOnce
<1>4. /\ Len(lane'[l].q) = Len(lane[l].q) + 1 /\ Len(lane[l].q) \in Nat
      /\ \A i \in 1..Len(lane[l].q) : lane'[l].q[i] = lane[l].q[i]
      /\ lane'[l].q[Len(lane[l].q) + 1] = r
  <2>1. lane[l].q \in Seq(Reqs)
    BY DEF TypeOK, LaneOK, LaneRec
  <2> QED BY <1>2, <2>1, AppendIs
<1>5. \A i \in 1..Len(lane'[l].q) : i \in 1..Len(lane[l].q) \/ i = Len(lane[l].q) + 1
  BY <1>4
<1>6. \A q \in Reqs : req[q].before \subseteq Reqs /\ req'[q].before = req[q].before
  BY <1>1 DEF TypeOK, ReqOK, ReqRec
<1>7. QueuedOnce'
  <2>1. \A m \in Lanes : \A i \in 1..Len(lane'[m].q) :
           req'[lane'[m].q[i]].pc = "queued" /\ Key(lane'[m].q[i]) = lane'[m].key
    <3> SUFFICES ASSUME NEW m \in Lanes, NEW i \in 1..Len(lane'[m].q)
                 PROVE  req'[lane'[m].q[i]].pc = "queued" /\ Key(lane'[m].q[i]) = lane'[m].key
      OBVIOUS
    <3>1. CASE m # l
      BY <3>1, <1>1, <1>2, <1>3 DEF QueuedOnce
    <3>2. CASE m = l /\ i \in 1..Len(lane[l].q)
      BY <3>2, <1>1, <1>2, <1>3, <1>4 DEF QueuedOnce
    <3>3. CASE m = l /\ i = Len(lane[l].q) + 1
      BY <3>3, <1>1, <1>2, <1>4
    <3> QED BY <3>1, <3>2, <3>3, <1>5
  <2>2. \A m, n \in Lanes : \A i \in 1..Len(lane'[m].q), j \in 1..Len(lane'[n].q) :
           lane'[m].q[i] = lane'[n].q[j] => m = n /\ i = j
    <3> SUFFICES ASSUME NEW m \in Lanes, NEW n \in Lanes, NEW i \in 1..Len(lane'[m].q),
                        NEW j \in 1..Len(lane'[n].q), lane'[m].q[i] = lane'[n].q[j]
                 PROVE  m = n /\ i = j
      OBVIOUS
    <3>1. \/ i \in 1..Len(lane[m].q) /\ lane'[m].q[i] = lane[m].q[i]
          \/ m = l /\ i = Len(lane[l].q) + 1 /\ lane'[m].q[i] = r
      BY <1>2, <1>4, <1>5
    <3>2. \/ j \in 1..Len(lane[n].q) /\ lane'[n].q[j] = lane[n].q[j]
          \/ n = l /\ j = Len(lane[l].q) + 1 /\ lane'[n].q[j] = r
      BY <1>2, <1>4, <1>5
    <3> QED BY <3>1, <3>2, <1>3 DEF QueuedOnce
  <2>3. \A q \in Reqs : req'[q].pc = "queued" =>
           closing' \/ \E m \in Lanes : \E i \in 1..Len(lane'[m].q) : lane'[m].q[i] = q
    <3> SUFFICES ASSUME NEW q \in Reqs, req'[q].pc = "queued", ~closing
                 PROVE  \E m \in Lanes : \E i \in 1..Len(lane'[m].q) : lane'[m].q[i] = q
      OBVIOUS
    <3>1. CASE q = r
      BY <3>1, <1>4
    <3>2. CASE q # r
      <4>1. PICK m \in Lanes : \E i \in 1..Len(lane[m].q) : lane[m].q[i] = q
        BY <3>2, <1>1 DEF QueuedOnce
      <4>2. PICK i \in 1..Len(lane[m].q) : lane[m].q[i] = q
        BY <4>1
      <4>3. i \in 1..Len(lane'[m].q) /\ lane'[m].q[i] = q
        BY <4>2, <1>2, <1>4
      <4> QED BY <4>3
    <3> QED BY <3>1, <3>2
  <2> QED BY <2>1, <2>2, <2>3 DEF QueuedOnce, Key
<1>8. DroppedOnce'
  <2> SUFFICES ASSUME NEW i \in 1..Len(quiescer.drop)
               PROVE  /\ req'[quiescer.drop[i]].pc = "queued"
                      /\ \A m \in Lanes : \A j \in 1..Len(lane'[m].q) :
                            lane'[m].q[j] # quiescer.drop[i]
    BY DEF DroppedOnce
  <2>1. quiescer.drop[i] \in Reqs /\ quiescer.drop[i] # r /\ req[quiescer.drop[i]].pc = "queued"
    BY DEF DroppedOnce, TypeOK, QuietOK, QuietRec
  <2>2. ASSUME NEW m \in Lanes, NEW j \in 1..Len(lane'[m].q)
        PROVE  lane'[m].q[j] # quiescer.drop[i]
    <3>1. \/ j \in 1..Len(lane[m].q) /\ lane'[m].q[j] = lane[m].q[j]
          \/ m = l /\ lane'[m].q[j] = r
      BY <1>2, <1>4, <1>5
    <3> QED BY <3>1, <2>1 DEF DroppedOnce
  <2> QED BY <2>1, <2>2, <1>1
<1>9. RunsOnLane'
  <2>1. \A m \in Lanes : /\ lane'[m].run = lane[m].run /\ lane'[m].key = lane[m].key
                         /\ lane[m].run \in Reqs \cup {NoReq}
    BY <1>2 DEF TypeOK, LaneOK, LaneRec
  <2>2. \A q \in Reqs : req[q].pc \in Delivered \/ req'[q].pc \in Delivered => req'[q] = req[q]
    BY <1>1 DEF Delivered
  <2>3. calls' = {q \in Reqs : req'[q].pc = "running"}
    BY <1>1 DEF RunsOnLane
  <2> QED BY <2>1, <2>2, <2>3 DEF RunsOnLane, Key, OnLane
<1>10. AcceptedFirst'
  BY <1>1, <1>6 DEF AcceptedFirst, Key, Delivered
<1>11. AheadInQueue'
  <2> SUFFICES ASSUME ~closing, NEW m \in Lanes, NEW j \in 1..Len(lane'[m].q),
                      NEW q \in req'[lane'[m].q[j]].before
               PROVE  \/ req'[q].pc = "done" \/ lane'[m].run = q
                      \/ \E i \in 1..(j - 1) : lane'[m].q[i] = q
    BY DEF AheadInQueue
  <2>1. CASE j \in 1..Len(lane[m].q) /\ lane'[m].q[j] = lane[m].q[j]
    <3>1. q \in Reqs /\ q \in req[lane[m].q[j]].before
      BY <2>1, <1>3, <1>6
    <3>2. \/ req[q].pc = "done" \/ lane[m].run = q
          \/ \E i \in 1..(j - 1) : lane[m].q[i] = q
      BY <3>1, <2>1 DEF AheadInQueue
    <3>3. \A i \in 1..(j - 1) : i \in 1..Len(lane[m].q) /\ lane'[m].q[i] = lane[m].q[i]
      <4>1. Len(lane[m].q) \in Nat
        BY DEF TypeOK, LaneOK, LaneRec
      <4>2. \A i \in 1..(j - 1) : i \in 1..Len(lane[m].q)
        BY <2>1, <4>1
      <4> QED BY <4>2, <1>2, <1>4
    <3> QED BY <3>1, <3>2, <3>3, <1>1, <1>2
  <2>2. CASE m = l /\ j = Len(lane[l].q) + 1 /\ lane'[m].q[j] = r
    <3>1. q \in Reqs /\ q \in req[r].before
      BY <2>2, <1>6
    <3>2. Key(q) = Key(r) /\ req[q].pc \in {"queued", "done"} \cup Delivered /\ q # r
      BY <3>1 DEF AcceptedFirst, Delivered
    <3>3. OnLane(q)
      BY <3>2 DEF OnLane, Key
    <3>4. CASE req[q].pc = "queued"
      <4>1. PICK n \in Lanes : \E i \in 1..Len(lane[n].q) : lane[n].q[i] = q
        BY <3>1, <3>4 DEF QueuedOnce
      <4>2. lane[n].q # << >>
        BY <4>1
      <4>3. lane[n].pc \in Live /\ lane[n].key = Key(r)
        BY <4>1, <4>2, <3>2 DEF LaneStands, QueuedOnce
      <4>4. n = l
        BY <4>3, OneLane DEF TypeOK
      <4> QED BY <4>1, <4>4, <2>2, <1>4
    <3>5. CASE req[q].pc \in Delivered
      <4>1. PICK n \in Lanes : lane[n].run = q
        BY <3>1, <3>3, <3>5 DEF RunsOnLane
      <4>2. q # NoReq
        BY <3>1, CallBounds
      <4>3. lane[n].pc \in Live /\ lane[n].key = Key(r)
        BY <4>1, <4>2, <3>2 DEF LaneStands, RunsOnLane, Live
      <4>4. n = l
        BY <4>3, OneLane DEF TypeOK
      <4> QED BY <4>1, <4>4, <2>2, <1>2
    <3>6. CASE req[q].pc = "done"
      BY <3>6, <3>1, <3>2, <1>1
    <3> QED BY <3>2, <3>4, <3>5, <3>6
  <2> QED BY <2>1, <2>2, <1>2, <1>4, <1>5
<1>12. OverBefore'
  BY <1>1, <1>6 DEF OverBefore, OnLane
<1> QED BY <1>7, <1>8, <1>9, <1>10, <1>11, <1>12

\* push: the queue grows at its end, is full, or belongs to a lane that has retired.
LEMMA PushIInv == ASSUME IInv, NEW r \in Reqs, Push(r) PROVE IInv'
<1> DEFINE l == req[r].lane
<1>1. /\ TypeOK /\ req[r].pc = "push" /\ OnLane(r) /\ l \in Lanes
      /\ lane[l].retired \/ (lane[l].pc \in Live /\ lane[l].key = Key(r))
      /\ expired' = expired /\ cancelled' = cancelled /\ calls' = calls /\ closing' = closing
      /\ hubLanes' = hubLanes /\ sub' = sub /\ leave' = leave /\ quiescer' = quiescer
  BY DEF IInv, InHand, HandOf, Accepting, Push, At
<1>2. CASE lane[l].retired /\ GoTo(r, "forget") /\ UNCHANGED <<answers, lane>>
  <2>1. ReqStep(r, "forget", l, req[r].before)
    BY <1>1, <1>2, GoToStep DEF TypeOK, ReqPcs
  <2> HIDE DEF l
  <2> QED BY <1>1, <1>2, <2>1, MovesIInv DEF Holds, RestStays, IInv, Items, AcceptedFirst, Delivered
<1>3. CASE /\ End(r) /\ UNCHANGED lane
           /\ answers' = Told(r, "not_ready") \/ answers' = Told(r, "busy")
  BY <1>1, <1>3, RefusedIInv DEF RestStays, Answer
<1>4. CASE /\ ~(lane[l].retired \/ lane[l].quiesced \/ lane[l].closed)
           /\ lane' = [lane EXCEPT ![l] = [@ EXCEPT !.q = Append(lane[l].q, r), !.wake = TRUE]]
           /\ req' = [req EXCEPT ![r] = [Over EXCEPT !.pc = "queued", !.before = req[r].before]]
           /\ UNCHANGED answers
  <2> HIDE DEF l
  <2>1. ReqStep(r, "queued", NoLane, req[r].before)
    <3> DEFINE b == req[r].before
               Q == [Over EXCEPT !.pc = "queued"]
               R == [Q EXCEPT !.before = b]
    <3>1. req' = [req EXCEPT ![r] = R]
      BY <1>4
    <3>2. Q \in ReqRec /\ Q.pc = "queued" /\ Q.lane = NoLane /\ b \in SUBSET Reqs
      BY <1>1, CallBounds DEF Over, TypeOK, ReqOK, ReqRec, ReqPcs
    <3> HIDE DEF Q, b
    <3>3. R \in ReqRec /\ R.pc = Q.pc /\ R.lane = Q.lane /\ R.before = b
      BY <3>2 DEF ReqRec
    <3> HIDE DEF R
    <3> QED BY <1>1, <3>1, <3>2, <3>3 DEF TypeOK, ReqOK, ReqStep, b
  <2>2. LaneStep(l, lane[l].pc, Append(lane[l].q, r), lane[l].run, lane[l].quiesced,
                 lane[l].retired)
    <3> DEFINE A == Append(lane[l].q, r)
               L == [lane[l] EXCEPT !.q = Append(lane[l].q, r), !.wake = TRUE]
    <3>1. lane' = [lane EXCEPT ![l] = L]
      BY <1>1, <1>4 DEF TypeOK, LaneOK
    <3>2. A \in Seq(Reqs)
      BY <1>1 DEF TypeOK, LaneOK, LaneRec
    <3>4. L = [lane[l] EXCEPT !.q = A, !.wake = TRUE]
      BY <1>1 DEF TypeOK, LaneOK, LaneRec
    <3> HIDE DEF A, L
    <3>3. /\ L \in LaneRec /\ L.pc = lane[l].pc /\ L.key = lane[l].key /\ L.q = A
          /\ L.run = lane[l].run /\ L.quiesced = lane[l].quiesced
          /\ L.retired = lane[l].retired
      BY <1>1, <3>2, <3>4 DEF TypeOK, LaneOK, LaneRec
    <3> QED BY <1>1, <3>1, <3>3, LanePut DEF TypeOK, LaneStep, A
  <2>3. TypeOK'
    BY <1>1, <1>4, <2>1, <2>2
       DEF TypeOK, ReqStep, LaneStep, SubOK, LeaveOK, QuietOK, AnswersOK, SetsOK
  <2>4. Maps'
    <3>1. \A m \in Lanes : lane'[m].key = lane[m].key /\ lane'[m].pc = lane[m].pc
      BY <2>2 DEF LaneStep
    <3> QED BY <1>1, <3>1, MapsKeep DEF IInv, TypeOK, SameMaps
  <2>5. LaneStands'
    BY <1>1, <1>4, <2>2 DEF IInv, LaneStands, LaneStep, Live
  <2>6. InHand'
    <3>1. HandsStay
      BY <2>2 DEF HandsStay, LaneStep
    <3>2. \A q \in Reqs : req'[q] = req[q] \/ Holds(q, req'[q].pc, req'[q].lane)
      BY <1>1, <2>1 DEF ReqStep, Holds
    <3> QED BY <3>1, <3>2, HandsKeep DEF IInv
  <2>7. Items'
    BY <1>1, <1>4, <2>1, <2>2, <2>3, PushItems DEF IInv, Pushed
  <2>8. AnsweredOnce'
    BY <1>4, <2>1, AnswersKeep DEF IInv, ReqStep
  <2>9. Slots'
    BY <1>1, <2>1, SlotsKeep DEF IInv, ReqStep, Delivered, SameSlots
  <2>10. Quieting'
    BY <1>1, <2>2, QuietKeeps DEF IInv, TypeOK, SetsOK, LaneStep
  <2> QED BY <2>3, <2>4, <2>5, <2>6, <2>7, <2>8, <2>9, <2>10 DEF IInv
<1> QED BY <1>2, <1>3, <1>4 DEF Push

\* A caller that met a retired lane takes it out of the map and looks again, or gives up.
LEMMA ForgetIInv == ASSUME IInv, NEW r \in Reqs, Forget(r) PROVE IInv'
<1> DEFINE l == req[r].lane
<1>1. /\ TypeOK /\ req[r].pc = "forget" /\ OnLane(r) /\ l \in Lanes /\ lane[l].retired
      /\ SubOf[r] \in Subs /\ PaneOf[r] \in Panes
      /\ expired' = expired /\ cancelled' = cancelled /\ calls' = calls /\ closing' = closing
      /\ hubLanes' = hubLanes /\ lane' = lane /\ leave' = leave /\ quiescer' = quiescer
  BY CallBounds DEF IInv, InHand, HandOf, Accepting, Forget, At, callVars, OnLane
<1>2. Mapped(SubOf[r], PaneOf[r],
             IF sub[SubOf[r]].lanes[PaneOf[r]] = l THEN NoLane ELSE sub[SubOf[r]].lanes[PaneOf[r]])
  BY <1>1, ForgetStep DEF TypeOK, Forget
<1>3. lane[l].pc \notin Live
  BY <1>1 DEF IInv, LaneStands, Live, Gone
<1>4. /\ AnswersOK' /\ AnsweredOnce'
      /\ \/ ReqStep(r, "look", NoLane, req[r].before)
         \/ ReqStep(r, "done", NoLane, {})
  <2>1. CASE req[r].tries > 1
    <3>1. /\ req' = [req EXCEPT ![r] = [@ EXCEPT !.tries = req[r].tries - 1,
                                             !.pc = "look", !.lane = NoLane]]
          /\ answers' = answers
      BY <2>1 DEF Forget
    <3>2. ReqStep(r, "look", NoLane, req[r].before)
      <4> DEFINE Q == [req[r] EXCEPT !.tries = req[r].tries - 1]
                 R == [req[r] EXCEPT !.tries = req[r].tries - 1, !.pc = "look", !.lane = NoLane]
      <4>1. req' = [req EXCEPT ![r] = R]
        BY <3>1, <1>1 DEF TypeOK, ReqOK
      <4>5. R = [Q EXCEPT !.pc = "look", !.lane = NoLane]
        BY <1>1 DEF TypeOK, ReqOK, ReqRec
      <4>2. Q \in ReqRec /\ Q.before = req[r].before
        BY <1>1 DEF TypeOK, ReqOK, ReqRec
      <4> HIDE DEF Q, R
      <4>3. R \in ReqRec /\ R.pc = "look" /\ R.lane = NoLane /\ R.before = Q.before
        BY <1>1, <4>2, <4>5 DEF ReqRec, ReqPcs
      <4> QED BY <1>1, <4>1, <4>2, <4>3 DEF TypeOK, ReqOK, ReqStep
    <3>3. AnsweredOnce'
      BY <3>1, <3>2, AnswersKeep DEF IInv, ReqStep
    <3> QED BY <1>1, <3>1, <3>2, <3>3 DEF TypeOK, AnswersOK
  <2>2. CASE ~(req[r].tries > 1)
    <3>1. End(r) /\ answers' = Told(r, "busy")
      BY <2>2 DEF Forget
    <3> QED BY <1>1, <3>1, EndStep, EndTold DEF IInv, TypeOK, Answer
  <2> QED BY <2>1, <2>2
<1> HIDE DEF l
<1>5. TypeOK'
  BY <1>1, <1>2, <1>4 DEF TypeOK, ReqStep, Mapped, LaneOK, LeaveOK, QuietOK, SetsOK
<1>6. Maps'
  <2>1. \A s \in Subs, p \in Panes : sub[s].lanes[p] \in Lanes \cup {NoLane}
    BY <1>1 DEF TypeOK, SubOK, SubRec
  <2>2. \A s \in Subs, p \in Panes :
           sub'[s].lanes[p] = sub[s].lanes[p] \/ (sub[s].lanes[p] = l /\ sub'[s].lanes[p] = NoLane)
    BY <1>1, <1>2 DEF Mapped
  <2>3. MapIsLive'
    <3> SUFFICES ASSUME NEW s \in Subs, NEW p \in Panes, sub'[s].lanes[p] # NoLane
                 PROVE  /\ lane'[sub'[s].lanes[p]].key = <<s, p>>
                        /\ lane'[sub'[s].lanes[p]].pc \in {"look", "wait", "run", "retire"}
      BY DEF MapIsLive
    <3>1. sub'[s].lanes[p] = sub[s].lanes[p]
      BY <2>2
    <3> QED BY <1>1, <3>1 DEF IInv, Maps, MapIsLive
  <2>4. LiveIsMapped'
    BY <1>1, <1>3, <2>2 DEF IInv, Maps, LiveIsMapped, Live
  <2> QED BY <2>3, <2>4 DEF Maps
<1>7. InHand'
  <2>1. HandsStay
    BY <1>1 DEF HandsStay
  <2>2. \A q \in Reqs : \/ req'[q] = req[q] \/ req'[q].pc = "done"
                        \/ Holds(q, req'[q].pc, req'[q].lane)
    BY <1>1, <1>4 DEF ReqStep, Holds
  <2> QED BY <2>1, <2>2, HandsKeep DEF IInv
<1>8. Items'
  <2>1. \A q \in Reqs : req'[q] = req[q] \/ Calls(q)
    BY <1>1, <1>4 DEF ReqStep, Calls, IInv, Items, AcceptedFirst, Delivered
  <2>2. calls' = {q \in Reqs : req'[q].pc = "running"}
    BY <1>1, <1>4 DEF ReqStep, IInv, Items, RunsOnLane
  <2> QED BY <1>1, <1>5, <2>1, <2>2, ItemsKeep DEF IInv, ItemsStay
<1>9. Slots'
  BY <1>1, <1>2, <1>4, SlotsKeep DEF IInv, ReqStep, Delivered, Mapped
<1>10. LaneStands' /\ Quieting'
  BY <1>1, LaneStandsKeep DEF IInv, Quieting
<1> QED BY <1>4, <1>5, <1>6, <1>7, <1>8, <1>9, <1>10 DEF IInv

-----------------------------------------------------------------------------
(* The drainer.                                                            *)

\* What taking from a queue gives.
LEMMA TailIs ==
    ASSUME NEW q \in Seq(Reqs), q # << >>
    PROVE  /\ Tail(q) \in Seq(Reqs) /\ Len(Tail(q)) = Len(q) - 1 /\ Len(q) \in Nat \ {0}
           /\ \A i \in 1..(Len(q) - 1) : Tail(q)[i] = q[i + 1]
           /\ Head(q) = q[1] /\ Head(q) \in Reqs
OBVIOUS

\* What next has done: h, the first of l's queue, is what l runs.
Taken(l, h) ==
    /\ ReqStep(h, "taken", req[h].lane, req[h].before)
    /\ LaneStep(l, "run", Tail(lane[l].q), h, lane[l].quiesced, lane[l].retired)

\* Taking the head leaves every other request where it stands in the queue.
LEMMA TakeItems ==
    ASSUME TypeOK, Items, NEW l \in Lanes, NEW h \in Reqs, lane[l].q # << >>, h = Head(lane[l].q),
           lane[l].run = NoReq, OnLane(h), Taken(l, h),
           closing' = closing, calls' = calls, quiescer' = quiescer
    PROVE  Items'
<1> USE DEF Items
<1>1. /\ req'[h].pc = "taken" /\ req'[h].before = req[h].before
      /\ \A q \in Reqs : q # h => req'[q] = req[q]
  BY DEF Taken, ReqStep
<1>2. /\ lane'[l].key = lane[l].key /\ lane'[l].q = Tail(lane[l].q) /\ lane'[l].run = h
      /\ \A m \in Lanes : m # l => lane'[m] = lane[m]
  BY DEF Taken, LaneStep
<1>3. /\ Len(lane'[l].q) = Len(lane[l].q) - 1 /\ Len(lane[l].q) \in Nat \ {0}
      /\ \A i \in 1..(Len(lane[l].q) - 1) : lane'[l].q[i] = lane[l].q[i + 1]
      /\ lane[l].q[1] = h
  <2>1. lane[l].q \in Seq(Reqs)
    BY DEF TypeOK, LaneOK, LaneRec
  <2> QED BY <1>2, <2>1, TailIs
<1>4. \A m \in Lanes : /\ Len(lane[m].q) \in Nat
                       /\ \A i \in 1..Len(lane[m].q) : lane[m].q[i] \in Reqs
  BY DEF TypeOK, LaneOK, LaneRec
<1>5. req[h].pc = "queued" /\ Key(h) = lane[l].key
  BY <1>3 DEF QueuedOnce
<1>6. \A q \in Reqs : req[q].before \subseteq Reqs /\ req'[q].before = req[q].before
  BY <1>1 DEF TypeOK, ReqOK, ReqRec
<1>7. \A m \in Lanes : \A i \in 1..Len(lane'[m].q) :
         \E k \in 1..Len(lane[m].q) : /\ lane'[m].q[i] = lane[m].q[k]
                                      /\ k = IF m = l THEN i + 1 ELSE i
  <2> SUFFICES ASSUME NEW m \in Lanes, NEW i \in 1..Len(lane'[m].q)
               PROVE  \E k \in 1..Len(lane[m].q) : /\ lane'[m].q[i] = lane[m].q[k]
                                                   /\ k = IF m = l THEN i + 1 ELSE i
    OBVIOUS
  <2>1. CASE m = l
    <3>1. i + 1 \in 1..Len(lane[m].q) /\ i \in 1..(Len(lane[l].q) - 1)
      BY <2>1, <1>3
    <3> QED BY <2>1, <3>1, <1>3
  <2>2. CASE m # l
    BY <2>2, <1>2
  <2> QED BY <2>1, <2>2
<1>8. \A m \in Lanes : \A k \in 1..Len(lane[m].q) :
         IF m = l THEN k = 1 \/ (k - 1 \in 1..Len(lane'[m].q) /\ lane'[m].q[k - 1] = lane[m].q[k])
                  ELSE k \in 1..Len(lane'[m].q) /\ lane'[m].q[k] = lane[m].q[k]
  <2> SUFFICES ASSUME NEW m \in Lanes, NEW k \in 1..Len(lane[m].q)
               PROVE  IF m = l
                      THEN \/ k = 1
                           \/ k - 1 \in 1..Len(lane'[m].q) /\ lane'[m].q[k - 1] = lane[m].q[k]
                      ELSE k \in 1..Len(lane'[m].q) /\ lane'[m].q[k] = lane[m].q[k]
    OBVIOUS
  <2>1. CASE m = l /\ k # 1
    <3>1. k - 1 \in 1..(Len(lane[l].q) - 1) /\ (k - 1) + 1 = k
      BY <2>1, <1>3
    <3> QED BY <2>1, <3>1, <1>3
  <2>2. CASE m # l
    BY <2>2, <1>2
  <2> QED BY <2>1, <2>2
<1>9. \A m \in Lanes : \A i \in 1..Len(lane'[m].q) : lane'[m].q[i] # h /\ lane'[m].q[i] \in Reqs
  <2> SUFFICES ASSUME NEW m \in Lanes, NEW i \in 1..Len(lane'[m].q)
               PROVE  lane'[m].q[i] # h /\ lane'[m].q[i] \in Reqs
    OBVIOUS
  <2>1. PICK k \in 1..Len(lane[m].q) : /\ lane'[m].q[i] = lane[m].q[k]
                                       /\ k = IF m = l THEN i + 1 ELSE i
    BY <1>7
  <2>2. 1 \in 1..Len(lane[l].q) /\ i \in Int /\ i >= 1
    BY <1>3
  <2>3. m # l \/ k # 1
    BY <2>1, <2>2
  <2> QED BY <2>1, <2>2, <2>3, <1>3, <1>4 DEF QueuedOnce
<1>10. QueuedOnce'
  <2>1. \A m \in Lanes : \A i \in 1..Len(lane'[m].q) :
           req'[lane'[m].q[i]].pc = "queued" /\ Key(lane'[m].q[i]) = lane'[m].key
    <3> SUFFICES ASSUME NEW m \in Lanes, NEW i \in 1..Len(lane'[m].q)
                 PROVE  req'[lane'[m].q[i]].pc = "queued" /\ Key(lane'[m].q[i]) = lane'[m].key
      OBVIOUS
    <3>1. PICK k \in 1..Len(lane[m].q) : lane'[m].q[i] = lane[m].q[k]
      BY <1>7
    <3>2. lane'[m].key = lane[m].key
      BY <1>2
    <3>3. req[lane'[m].q[i]].pc = "queued" /\ Key(lane'[m].q[i]) = lane[m].key
      BY <3>1 DEF QueuedOnce
    <3> QED BY <3>2, <3>3, <1>1, <1>9
  <2>2. \A m, n \in Lanes : \A i \in 1..Len(lane'[m].q), j \in 1..Len(lane'[n].q) :
           lane'[m].q[i] = lane'[n].q[j] => m = n /\ i = j
    <3> SUFFICES ASSUME NEW m \in Lanes, NEW n \in Lanes, NEW i \in 1..Len(lane'[m].q),
                        NEW j \in 1..Len(lane'[n].q), lane'[m].q[i] = lane'[n].q[j]
                 PROVE  m = n /\ i = j
      OBVIOUS
    <3>1. PICK k \in 1..Len(lane[m].q) : /\ lane'[m].q[i] = lane[m].q[k]
                                         /\ k = IF m = l THEN i + 1 ELSE i
      BY <1>7
    <3>2. PICK o \in 1..Len(lane[n].q) : /\ lane'[n].q[j] = lane[n].q[o]
                                         /\ o = IF n = l THEN j + 1 ELSE j
      BY <1>7
    <3>3. m = n /\ k = o
      <4>1. lane[m].q[k] = lane[n].q[o]
        BY <3>1, <3>2
      <4> QED BY <4>1 DEF QueuedOnce
    <3>4. i \in Int /\ j \in Int
      OBVIOUS
    <3> QED BY <3>1, <3>2, <3>3, <3>4
  <2>3. \A q \in Reqs : req'[q].pc = "queued" =>
           closing' \/ \E m \in Lanes : \E i \in 1..Len(lane'[m].q) : lane'[m].q[i] = q
    <3> SUFFICES ASSUME NEW q \in Reqs, req'[q].pc = "queued", ~closing
                 PROVE  \E m \in Lanes : \E i \in 1..Len(lane'[m].q) : lane'[m].q[i] = q
      OBVIOUS
    <3>1. q # h
      BY <1>1
    <3>2. PICK m \in Lanes : \E i \in 1..Len(lane[m].q) : lane[m].q[i] = q
      BY <3>1, <1>1 DEF QueuedOnce
    <3>3. PICK k \in 1..Len(lane[m].q) : lane[m].q[k] = q
      BY <3>2
    <3>4. m # l \/ k # 1
      BY <3>1, <3>3, <1>3
    <3> QED BY <3>3, <3>4, <1>8
  <2> QED BY <2>1, <2>2, <2>3 DEF QueuedOnce, Key
<1>11. DroppedOnce'
  <2> SUFFICES ASSUME NEW i \in 1..Len(quiescer.drop)
               PROVE  /\ req'[quiescer.drop[i]].pc = "queued"
                      /\ \A m \in Lanes : \A j \in 1..Len(lane'[m].q) :
                            lane'[m].q[j] # quiescer.drop[i]
    BY DEF DroppedOnce
  <2>1. 1 \in 1..Len(lane[l].q)
    BY <1>3
  <2>2. quiescer.drop[i] \in Reqs /\ quiescer.drop[i] # h /\ req[quiescer.drop[i]].pc = "queued"
    BY <1>3, <2>1 DEF DroppedOnce, TypeOK, QuietOK, QuietRec
  <2>3. \A m \in Lanes : \A j \in 1..Len(lane'[m].q) : lane'[m].q[j] # quiescer.drop[i]
    BY <1>7 DEF DroppedOnce
  <2> QED BY <2>2, <2>3, <1>1
<1>12. RunsOnLane'
  <2>1. \A m \in Lanes : lane[m].run \in Reqs \cup {NoReq}
    BY DEF TypeOK, LaneOK, LaneRec
  <2>2. \A m \in Lanes : lane'[m].run # NoReq =>
           /\ OnLane(lane'[m].run) /\ Key(lane'[m].run) = lane'[m].key
           /\ req'[lane'[m].run].pc \in Delivered
    BY <1>1, <1>2, <1>5, <2>1 DEF RunsOnLane, Delivered
  <2>3. \A q \in Reqs : OnLane(q) /\ req'[q].pc \in Delivered => \E m \in Lanes : lane'[m].run = q
    <3> SUFFICES ASSUME NEW q \in Reqs, OnLane(q), req'[q].pc \in Delivered
                 PROVE  \E m \in Lanes : lane'[m].run = q
      OBVIOUS
    <3>1. CASE q = h
      BY <3>1, <1>2
    <3>2. CASE q # h
      <4>1. PICK m \in Lanes : lane[m].run = q
        BY <3>2, <1>1 DEF RunsOnLane
      <4>2. m # l
        BY <4>1, CallBounds
      <4> QED BY <4>1, <4>2, <1>2
    <3> QED BY <3>1, <3>2
  <2>4. calls' = {q \in Reqs : req'[q].pc = "running"}
    BY <1>1, <1>5 DEF RunsOnLane
  <2> QED BY <2>2, <2>3, <2>4 DEF RunsOnLane, Key, OnLane
<1>13. AcceptedFirst'
  BY <1>1, <1>6 DEF AcceptedFirst, Key, Delivered
<1>14. AheadInQueue'
  <2> SUFFICES ASSUME ~closing, NEW m \in Lanes, NEW j \in 1..Len(lane'[m].q),
                      NEW q \in req'[lane'[m].q[j]].before
               PROVE  \/ req'[q].pc = "done" \/ lane'[m].run = q
                      \/ \E i \in 1..(j - 1) : lane'[m].q[i] = q
    BY DEF AheadInQueue
  <2>1. PICK k \in 1..Len(lane[m].q) : /\ lane'[m].q[j] = lane[m].q[k]
                                       /\ k = IF m = l THEN j + 1 ELSE j
    BY <1>7
  <2>2. q \in Reqs /\ q \in req[lane[m].q[k]].before
    BY <2>1, <1>4, <1>6
  <2>3. \/ req[q].pc = "done" \/ lane[m].run = q \/ \E i \in 1..(k - 1) : lane[m].q[i] = q
    BY <2>2 DEF AheadInQueue
  <2>4. CASE req[q].pc = "done"
    BY <2>4, <2>2, <1>1, <1>5
  <2>5. CASE lane[m].run = q
    <3>1. q # NoReq
      BY <2>2, CallBounds
    <3> QED BY <2>5, <3>1, <1>2
  <2>6. ASSUME NEW i \in 1..(k - 1), lane[m].q[i] = q
        PROVE  lane'[m].run = q \/ \E o \in 1..(j - 1) : lane'[m].q[o] = q
    <3>1. i \in 1..Len(lane[m].q) /\ i \in Int /\ j \in Int /\ k \in Int /\ i < k
      BY <1>4
    <3>2. CASE m = l /\ i = 1
      BY <3>2, <2>6, <1>2, <1>3
    <3>3. CASE m = l /\ i # 1
      <4>1. i - 1 \in 1..Len(lane'[m].q) /\ lane'[m].q[i - 1] = q
        BY <3>1, <3>3, <2>6, <1>8
      <4>2. i - 1 \in 1..(j - 1)
        BY <3>1, <3>3, <2>1
      <4> QED BY <4>1, <4>2
    <3>4. CASE m # l
      <4>1. lane'[m].q[i] = q
        BY <3>1, <3>4, <2>6, <1>8
      <4>2. i \in 1..(j - 1)
        BY <3>1, <3>4, <2>1
      <4> QED BY <4>1, <4>2
    <3> QED BY <3>2, <3>3, <3>4
  <2> QED BY <2>3, <2>4, <2>5, <2>6
<1>15. OverBefore'
  <2>1. ~closing => \A q \in req[h].before : req[q].pc = "done"
    <3> SUFFICES ASSUME ~closing, NEW q \in req[h].before PROVE req[q].pc = "done"
      OBVIOUS
    <3>1. 1 \in 1..Len(lane[l].q) /\ lane[l].q[1] = h
      BY <1>3
    <3>2. q # NoReq
      BY <1>6, CallBounds
    <3>3. ~\E i \in 1..(1 - 1) : lane[l].q[i] = q
      OBVIOUS
    <3> QED BY <3>1, <3>2, <3>3 DEF AheadInQueue
  <2>2. \A q \in Reqs : req[q].pc = "done" => req'[q].pc = "done"
    BY <1>1, <1>5
  <2> QED BY <1>1, <1>6, <2>1, <2>2 DEF OverBefore, OnLane
<1> QED BY <1>10, <1>11, <1>12, <1>13, <1>14, <1>15

\* next: the head of the queue becomes what the lane runs.
LEMMA TakeIInv == ASSUME IInv, NEW l \in Lanes, Take(l) PROVE IInv'
<1> DEFINE h == Head(lane[l].q)
<1>1. /\ TypeOK /\ lane[l].pc = "look" /\ ~lane[l].quiesced /\ lane[l].q # << >>
      /\ lane[l].run = NoReq /\ l \in hubLanes
      /\ answers' = answers /\ expired' = expired /\ cancelled' = cancelled /\ calls' = calls
      /\ closing' = closing /\ leave' = leave /\ quiescer' = quiescer /\ hubLanes' = hubLanes
      /\ sub' = sub
  BY DEF IInv, LaneStands, Take, Looking, drainVars
<1>2. h \in Reqs /\ Tail(lane[l].q) \in Seq(Reqs) /\ req[h].pc = "queued" /\ OnLane(h)
  <2>1. lane[l].q \in Seq(Reqs)
    BY <1>1 DEF TypeOK, LaneOK, LaneRec
  <2>2. h \in Reqs /\ Tail(lane[l].q) \in Seq(Reqs) /\ h = lane[l].q[1] /\ 1 \in 1..Len(lane[l].q)
    BY <1>1, <2>1, TailIs
  <2>3. req[h].pc = "queued"
    BY <2>2 DEF IInv, Items, QueuedOnce
  <2> QED BY <2>2, <2>3 DEF IInv, InHand, HandOf, Accepting
<1>3. ReqStep(h, "taken", req[h].lane, req[h].before)
  BY <1>1, <1>2, GoToStep DEF Take, TypeOK, ReqPcs
<1>4. LaneStep(l, "run", Tail(lane[l].q), h, lane[l].quiesced, lane[l].retired)
  <2> DEFINE A == Tail(lane[l].q)
             L == [lane[l] EXCEPT !.q = A, !.run = h, !.pc = "run"]
  <2>1. lane' = [lane EXCEPT ![l] = L]
    BY <1>1 DEF Take, TypeOK, LaneOK
  <2>2. A \in Seq(Reqs) /\ h \in Reqs
    BY <1>2
  <2> HIDE DEF A, h
  <2>3. /\ L \in LaneRec /\ L.pc = "run" /\ L.key = lane[l].key /\ L.q = A /\ L.run = h
        /\ L.quiesced = lane[l].quiesced /\ L.retired = lane[l].retired
    BY <1>1, <2>2 DEF TypeOK, LaneOK, LaneRec, LanePcs
  <2> HIDE DEF L
  <2> QED BY <1>1, <2>1, <2>3, LanePut DEF TypeOK, LaneStep, A
<1>5. Items'
  BY <1>1, <1>2, <1>3, <1>4, TakeItems DEF IInv, Taken
<1> HIDE DEF h
<1>6. TypeOK'
  BY <1>1, <1>3, <1>4 DEF TypeOK, ReqStep, LaneStep, SubOK, LeaveOK, QuietOK, AnswersOK, SetsOK
<1>7. Maps'
  <2>1. \A m \in Lanes :
           /\ lane[m].pc \in {"look", "wait", "run", "retire"} =>
                 lane'[m].key = lane[m].key /\ lane'[m].pc \in {"look", "wait", "run", "retire"}
           /\ lane'[m].pc \in Live => lane[m].pc \in Live
    BY <1>1, <1>4 DEF LaneStep, Live
  <2> QED BY <1>1, <2>1, MapsKeep DEF IInv, TypeOK, SameMaps
<1>8. LaneStands'
  BY <1>1, <1>2, <1>4, CallBounds DEF IInv, LaneStands, LaneStep, Live, Gone
<1>9. InHand'
  <2>1. HandsStay
    BY <1>1, <1>4 DEF HandsStay, LaneStep, Live
  <2>2. \A q \in Reqs : req'[q] = req[q] \/ req'[q].pc = "taken"
    BY <1>3 DEF ReqStep
  <2> QED BY <2>1, <2>2, HandsKeep DEF IInv
<1>10. AnsweredOnce'
  BY <1>1, <1>3, AnswersKeep DEF IInv, ReqStep
<1>11. Slots'
  BY <1>1, <1>2, <1>3, SlotsKeep DEF IInv, ReqStep, Delivered, SameSlots
<1>12. Quieting'
  <2>1. quiescer.pc # "stopped"
    BY <1>1 DEF IInv, Quieting
  <2>2. \A m \in Lanes : lane'[m].quiesced = lane[m].quiesced
    BY <1>4 DEF LaneStep
  <2> QED BY <1>1, <2>1, <2>2 DEF IInv, Quieting, TypeOK, SetsOK
<1> QED BY <1>5, <1>6, <1>7, <1>8, <1>9, <1>10, <1>11, <1>12 DEF IInv

\* A lane without an item whose drainer goes round, waits, or leaves the loop.
LEMMA RoundIInv ==
    ASSUME IInv, NEW l \in Lanes, lane[l].pc \in {"look", "wait"},
           \/ /\ \/ LaneStep(l, "look", lane[l].q, lane[l].run, lane[l].quiesced, lane[l].retired)
                 \/ LaneStep(l, "wait", lane[l].q, lane[l].run, lane[l].quiesced, lane[l].retired)
           \/ /\ lane[l].q = << >>
              /\ LaneStep(l, "retire", lane[l].q, lane[l].run, lane[l].quiesced, TRUE),
           UNCHANGED <<drainVars, req, hubLanes, sub>>
    PROVE  IInv'
<1> USE DEF drainVars
<1>1. TypeOK'
  BY DEF IInv, TypeOK, LaneStep, ReqOK, SubOK, LeaveOK, QuietOK, AnswersOK, SetsOK
<1>2. \A m \in Lanes :
         /\ lane[m].pc \in {"look", "wait", "run", "retire"} =>
               lane'[m].key = lane[m].key /\ lane'[m].pc \in {"look", "wait", "run", "retire"}
         /\ lane'[m].pc \in Live => lane[m].pc \in Live
  BY DEF LaneStep, Live
<1>3. Maps'
  BY <1>2, MapsKeep DEF IInv, TypeOK, SameMaps
<1>4. LaneStands'
  BY DEF IInv, LaneStands, LaneStep, Live, Gone
<1>5. InHand'
  <2>1. HandsStay
    BY DEF HandsStay, LaneStep, Live
  <2> QED BY <2>1, HandsKeep DEF IInv
<1>6. Items'
  <2>1. ItemsStay
    BY DEF ItemsStay, LaneStep
  <2>2. calls' = {q \in Reqs : req'[q].pc = "running"}
    BY DEF IInv, Items, RunsOnLane
  <2> QED BY <1>1, <2>1, <2>2, ItemsKeep DEF IInv
<1>7. AnsweredOnce'
  BY AnswersKeep DEF IInv
<1>8. Slots'
  BY SlotsKeep DEF IInv, SameSlots
<1>9. Quieting'
  BY QuietKeeps DEF IInv, TypeOK, LaneStep
<1> QED BY <1>1, <1>3, <1>4, <1>5, <1>6, <1>7, <1>8, <1>9 DEF IInv

\* The drainer's waits and its decisions to retire touch no request.
LEMMA LoopIInv ==
    ASSUME IInv, NEW l \in Lanes, Idle(l) \/ WakeUp(l) \/ IdleOut(l) \/ StopLane(l)
    PROVE  IInv'
<1>1. TypeOK /\ LaneOK /\ UNCHANGED <<drainVars, req, hubLanes, sub>>
  BY DEF IInv, TypeOK, Idle, WakeUp, IdleOut, StopLane
<1>2. CASE Idle(l)
  <2>1. LaneStep(l, "wait", lane[l].q, lane[l].run, lane[l].quiesced, lane[l].retired)
    BY <1>1, <1>2, DrainerStep DEF Idle, LanePcs
  <2> QED BY <1>1, <1>2, <2>1, RoundIInv DEF Idle, Looking
<1>3. CASE WakeUp(l)
  <2>1. LaneStep(l, "look", lane[l].q, lane[l].run, lane[l].quiesced, lane[l].retired)
    <3> DEFINE L == [lane[l] EXCEPT !.pc = "look", !.wake = FALSE]
    <3>1. lane' = [lane EXCEPT ![l] = L]
      BY <1>3 DEF WakeUp
    <3>2. /\ L \in LaneRec /\ L.pc = "look" /\ L.key = lane[l].key /\ L.q = lane[l].q
          /\ L.run = lane[l].run /\ L.quiesced = lane[l].quiesced /\ L.retired = lane[l].retired
      BY <1>1 DEF LaneOK, LaneRec, LanePcs
    <3> HIDE DEF L
    <3> QED BY <1>1, <3>1, <3>2, LanePut DEF LaneStep
  <2> QED BY <1>1, <1>3, <2>1, RoundIInv DEF WakeUp
<1>4. CASE IdleOut(l)
  <2>1. CASE lane[l].q = << >>
    <3>1. LaneStep(l, "retire", lane[l].q, lane[l].run, lane[l].quiesced, TRUE)
      BY <1>1, <1>4, <2>1, RetireStep DEF IdleOut, IdledOut
    <3> QED BY <1>1, <1>4, <2>1, <3>1, RoundIInv DEF IdleOut
  <2>2. CASE lane[l].q # << >>
    <3>1. LaneStep(l, "look", lane[l].q, lane[l].run, lane[l].quiesced, lane[l].retired)
      BY <1>1, <1>4, <2>2, DrainerStep DEF IdleOut, IdledOut, LanePcs
    <3> QED BY <1>1, <1>4, <3>1, RoundIInv DEF IdleOut
  <2> QED BY <2>1, <2>2
<1>5. CASE StopLane(l)
  <2>1. LaneStep(l, "retire", lane[l].q, lane[l].run, lane[l].quiesced, TRUE)
    BY <1>1, <1>5, RetireStep DEF StopLane
  <2>2. lane[l].q = << >> /\ lane[l].pc = "look"
    BY <1>5 DEF StopLane, Looking, Drained, IInv, LaneStands
  <2> QED BY <1>1, <2>1, <2>2, RoundIInv
<1> QED BY <1>2, <1>3, <1>4, <1>5

\* retire, first half: the lane leaves the map of its Sub.
LEMMA RetireFromSubIInv == ASSUME IInv, NEW l \in Lanes, RetireFromSub(l) PROVE IInv'
<1> USE DEF drainVars
<1>1. /\ TypeOK /\ lane[l].pc = "retire" /\ lane[l].retired
      /\ UNCHANGED <<drainVars, req, hubLanes>>
  BY DEF IInv, RetireFromSub, LaneStands, Gone
<1>2. LaneStep(l, "retire2", lane[l].q, lane[l].run, lane[l].quiesced, lane[l].retired)
  <2> DEFINE L == [lane[l] EXCEPT !.pc = "retire2", !.cancelled = TRUE]
  <2>1. lane' = [lane EXCEPT ![l] = L]
    BY DEF RetireFromSub
  <2>2. /\ L \in LaneRec /\ L.pc = "retire2" /\ L.key = lane[l].key /\ L.q = lane[l].q
        /\ L.run = lane[l].run /\ L.quiesced = lane[l].quiesced /\ L.retired = lane[l].retired
    BY <1>1 DEF TypeOK, LaneOK, LaneRec, LanePcs
  <2> HIDE DEF L
  <2> QED BY <1>1, <2>1, <2>2, LanePut DEF TypeOK, LaneStep
<1>3. PICK s \in Subs, p \in Panes : lane[l].key = <<s, p>>
  BY <1>1 DEF IInv, LaneStands
<1>4. Mapped(s, p, IF sub[s].lanes[p] = l THEN NoLane ELSE sub[s].lanes[p])
  <2>1. sub' = Forgotten(s, p, l)
    BY <1>3 DEF RetireFromSub
  <2> QED BY <1>1, <2>1, ForgetStep DEF TypeOK
<1>5. TypeOK'
  BY <1>1, <1>2, <1>4 DEF TypeOK, LaneStep, Mapped, ReqOK, LeaveOK, QuietOK, AnswersOK, SetsOK
<1>6. Maps'
  <2>1. \A t \in Subs, o \in Panes : sub[t].lanes[o] \in Lanes \cup {NoLane}
    BY <1>1 DEF TypeOK, SubOK, SubRec
  <2>2. \A t \in Subs, o \in Panes :
           sub'[t].lanes[o] = sub[t].lanes[o] \/ (sub[t].lanes[o] = l /\ sub'[t].lanes[o] = NoLane)
    BY <1>4 DEF Mapped
  <2>3. \A t \in Subs, o \in Panes : sub[t].lanes[o] = l => <<t, o>> = <<s, p>>
    BY <1>3, CallBounds DEF IInv, Maps, MapIsLive
  <2>4. \A t \in Subs, o \in Panes : sub'[t].lanes[o] # l
    BY <1>4, <2>2, <2>3, CallBounds DEF Mapped
  <2>5. MapIsLive'
    <3> SUFFICES ASSUME NEW t \in Subs, NEW o \in Panes, sub'[t].lanes[o] # NoLane
                 PROVE  /\ lane'[sub'[t].lanes[o]].key = <<t, o>>
                        /\ lane'[sub'[t].lanes[o]].pc \in {"look", "wait", "run", "retire"}
      BY DEF MapIsLive
    <3>1. /\ sub'[t].lanes[o] = sub[t].lanes[o] /\ sub[t].lanes[o] \in Lanes
          /\ sub[t].lanes[o] # l
      BY <2>1, <2>2, <2>4
    <3>2. lane'[sub[t].lanes[o]] = lane[sub[t].lanes[o]]
      BY <1>2, <3>1 DEF LaneStep
    <3> QED BY <3>1, <3>2 DEF IInv, Maps, MapIsLive
  <2>6. LiveIsMapped'
    <3> SUFFICES ASSUME NEW m \in Lanes, lane'[m].pc \in Live
                 PROVE  \E t \in Subs, o \in Panes :
                            lane'[m].key = <<t, o>> /\ sub'[t].lanes[o] = m
      BY DEF LiveIsMapped, Live
    <3>1. m # l /\ lane'[m] = lane[m]
      BY <1>2 DEF LaneStep, Live
    <3>2. PICK t \in Subs, o \in Panes : lane[m].key = <<t, o>> /\ sub[t].lanes[o] = m
      BY <3>1 DEF IInv, Maps, LiveIsMapped
    <3> QED BY <2>2, <3>1, <3>2
  <2> QED BY <2>5, <2>6 DEF Maps
<1>7. LaneStands'
  BY <1>1, <1>2 DEF IInv, LaneStands, LaneStep, Live, Gone
<1>8. InHand'
  <2>1. HandsStay
    BY <1>1, <1>2 DEF HandsStay, LaneStep, Live
  <2> QED BY <1>1, <2>1, HandsKeep DEF IInv
<1>9. Items'
  <2>1. ItemsStay
    BY <1>2 DEF ItemsStay, LaneStep
  <2>2. calls' = {q \in Reqs : req'[q].pc = "running"}
    BY <1>1 DEF IInv, Items, RunsOnLane
  <2> QED BY <1>1, <1>5, <2>1, <2>2, ItemsKeep DEF IInv
<1>10. AnsweredOnce'
  BY <1>1, AnswersKeep DEF IInv
<1>11. Slots'
  BY <1>1, <1>4, SlotsKeep DEF IInv, Mapped
<1>12. Quieting'
  BY <1>1, <1>2, QuietKeeps DEF IInv, TypeOK, LaneStep
<1> QED BY <1>5, <1>6, <1>7, <1>8, <1>9, <1>10, <1>11, <1>12 DEF IInv

\* retire, second half: the lane leaves the hub's set, and is dead.
LEMMA RetireFromHubIInv == ASSUME IInv, NEW l \in Lanes, RetireFromHub(l) PROVE IInv'
<1> USE DEF drainVars
<1>1. /\ TypeOK /\ lane[l].pc = "retire2" /\ lane[l].retired /\ lane[l].q = << >>
      /\ lane[l].run = NoReq /\ hubLanes' = hubLanes \ {l}
      /\ UNCHANGED <<drainVars, req, sub>>
  BY DEF IInv, RetireFromHub, LaneStands, Gone, Live, OutOfHub
<1>2. /\ LaneOK' /\ lane'[l].pc = "dead" /\ lane'[l].q = << >> /\ lane'[l].run = NoReq
      /\ lane'[l].retired = TRUE /\ \A m \in Lanes : m # l => lane'[m] = lane[m]
  BY <1>1, DeadStep DEF TypeOK, RetireFromHub
<1>3. TypeOK'
  BY <1>1, <1>2 DEF TypeOK, ReqOK, SubOK, LeaveOK, QuietOK, AnswersOK, SetsOK
<1>4. Maps'
  <2>1. \A m \in Lanes :
           /\ lane[m].pc \in {"look", "wait", "run", "retire"} =>
                 lane'[m].key = lane[m].key /\ lane'[m].pc \in {"look", "wait", "run", "retire"}
           /\ lane'[m].pc \in Live => lane[m].pc \in Live
    BY <1>1, <1>2 DEF Live
  <2> QED BY <1>1, <2>1, MapsKeep DEF IInv, TypeOK, SameMaps
<1>5. LaneStands'
  BY <1>1, <1>2 DEF IInv, LaneStands, Live, Gone
<1>6. InHand'
  <2>1. HandsStay
    BY <1>1, <1>2 DEF HandsStay, Live
  <2> QED BY <1>1, <2>1, HandsKeep DEF IInv
<1>7. Items'
  <2>1. ItemsStay
    BY <1>1, <1>2 DEF ItemsStay
  <2>2. calls' = {q \in Reqs : req'[q].pc = "running"}
    BY <1>1 DEF IInv, Items, RunsOnLane
  <2> QED BY <1>1, <1>3, <2>1, <2>2, ItemsKeep DEF IInv
<1>8. AnsweredOnce'
  BY <1>1, AnswersKeep DEF IInv
<1>9. Slots'
  BY <1>1, SlotsKeep DEF IInv, SameSlots
<1>10. Quieting'
  BY <1>1, <1>2, QuietKeeps DEF IInv, TypeOK, SetsOK
<1> QED BY <1>3, <1>4, <1>5, <1>6, <1>7, <1>8, <1>9, <1>10 DEF IInv

-----------------------------------------------------------------------------
(* Hub.Call and the ends of items.                                         *)

\* An item that goes into Hub.Call, or comes out of it.
LEMMA InCallIInv ==
    ASSUME IInv, NEW r \in Reqs, NEW pc \in {"running", "returned"},
           ReqStep(r, pc, req[r].lane, req[r].before),
           \/ req[r].pc = "taken" /\ (pc = "running" => ~closing)
           \/ req[r].pc = "running" /\ pc = "returned",
           calls' = IF pc = "running" THEN calls \cup {r} ELSE calls \ {r},
           cancelled' \subseteq Reqs, \A q \in cancelled : q # r => q \in cancelled',
           UNCHANGED <<expired, closing, hubLanes, leave, quiescer, answers, lane, sub>>
    PROVE  IInv'
<1>1. req'[r].pc = pc /\ req'[r].before = req[r].before /\ \A q \in Reqs : q # r => req'[q] = req[q]
  BY DEF ReqStep
<1>2. calls' = {q \in Reqs : req'[q].pc = "running"}
  BY <1>1 DEF IInv, Items, RunsOnLane
<1>3. TypeOK'
  BY <1>2 DEF IInv, TypeOK, ReqStep, LaneOK, SubOK, LeaveOK, QuietOK, AnswersOK, SetsOK
<1>4. Maps'
  BY MapsKeep DEF IInv, TypeOK, SameMaps
<1>5. InHand'
  <2>1. \A q \in Reqs : req'[q] = req[q] \/ req'[q].pc \in {"running", "returned"}
    BY <1>1
  <2> QED BY <2>1, HandsKeep DEF IInv, HandsStay
<1>6. Items'
  <2>1. \A q \in Reqs : req'[q] = req[q] \/ Runs(q)
    BY <1>1 DEF Runs
  <2> QED BY <1>2, <1>3, <2>1, ItemsKeep DEF IInv, ItemsStay
<1>7. AnsweredOnce'
  BY <1>1, AnswersKeep DEF IInv
<1>8. Slots'
  BY <1>1, SlotsKeep DEF IInv, SameSlots, Delivered
<1>9. Quieting'
  <2>1. CASE pc = "running"
    BY <2>1 DEF IInv, Quieting
  <2>2. CASE pc = "returned"
    BY <2>2, QuietKeeps DEF IInv, TypeOK
  <2> QED BY <2>1, <2>2
<1>10. LaneStands'
  BY LaneStandsKeep DEF IInv
<1> QED BY <1>3, <1>4, <1>5, <1>6, <1>7, <1>8, <1>9, <1>10 DEF IInv

\* enter: the drainer's call runs, or a closing or cancelled call is refused.
LEMMA EnterIInv == ASSUME IInv, NEW r \in Reqs, Enter(r) PROVE IInv'
<1>1. /\ TypeOK /\ req[r].pc = "taken"
      /\ UNCHANGED <<expired, closing, hubLanes, leave, quiescer, answers, lane, sub>>
  BY DEF IInv, Enter, At, runVars
<1>2. CASE closing
  <2>1. GoTo(r, "returned") /\ calls' = calls /\ cancelled' = cancelled
    BY <1>2 DEF Enter, Refused
  <2>2. ReqStep(r, "returned", req[r].lane, req[r].before)
    BY <1>1, <2>1, GoToStep DEF TypeOK, ReqPcs
  <2>3. calls' = calls \ {r}
    BY <1>1, <2>1 DEF IInv, Items, RunsOnLane
  <2> QED BY <1>1, <2>1, <2>2, <2>3, InCallIInv DEF TypeOK, SetsOK
<1>3. CASE ~closing
  <2>1. /\ GoTo(r, "running") /\ calls' = calls \cup {r}
        /\ cancelled' = cancelled \/ cancelled' = cancelled \cup {r}
    BY <1>3 DEF Enter, Refused
  <2>2. ReqStep(r, "running", req[r].lane, req[r].before)
    BY <1>1, <2>1, GoToStep DEF TypeOK, ReqPcs
  <2> QED BY <1>1, <1>3, <2>1, <2>2, InCallIInv DEF TypeOK, SetsOK
<1> QED BY <1>2, <1>3

\* The operation returns; the request is not answered yet.
LEMMA ReturnIInv == ASSUME IInv, NEW r \in Reqs, Return(r) PROVE IInv'
<1>1. /\ TypeOK /\ req[r].pc = "running" /\ GoTo(r, "returned")
      /\ calls' = calls \ {r} /\ cancelled' = cancelled \ {r}
      /\ UNCHANGED <<expired, closing, hubLanes, leave, quiescer, answers, lane, sub>>
  BY DEF IInv, Return, At, runVars
<1>2. ReqStep(r, "returned", req[r].lane, req[r].before)
  BY <1>1, GoToStep DEF TypeOK, ReqPcs
<1> QED BY <1>1, <1>2, InCallIInv DEF TypeOK, SetsOK

\* The items hold when the one that ran is over.
LEMMA FinishItems ==
    ASSUME TypeOK, TypeOK', Items, NEW r \in Reqs, req[r].pc = "returned",
           ReqStep(r, "done", NoLane, {}), closing' = closing, calls' = calls,
           quiescer' = quiescer,
           \A l \in Lanes : /\ lane'[l].q = lane[l].q /\ lane'[l].key = lane[l].key
                            /\ lane'[l].run = IF lane[l].run = r THEN NoReq ELSE lane[l].run
    PROVE  Items'
<1> USE DEF Items
<1>1. req'[r].pc = "done" /\ req'[r].before = {} /\ \A q \in Reqs : q # r => req'[q] = req[q]
  BY DEF ReqStep
<1>2. \A l \in Lanes : \A i \in 1..Len(lane[l].q) : lane[l].q[i] \in Reqs /\ lane[l].q[i] # r
  <2>1. \A l \in Lanes : \A i \in 1..Len(lane[l].q) : lane[l].q[i] \in Reqs
    BY DEF TypeOK, LaneOK, LaneRec
  <2> QED BY <2>1 DEF QueuedOnce
<1>3. \A l \in Lanes : lane[l].run \in Reqs \cup {NoReq}
  BY DEF TypeOK, LaneOK, LaneRec
<1>4. \A q \in Reqs : req[q].before \subseteq Reqs
  BY DEF TypeOK, ReqOK, ReqRec
<1>5. QueuedOnce'
  <2>1. \A l \in Lanes : \A i \in 1..Len(lane'[l].q) :
           req'[lane'[l].q[i]].pc = "queued" /\ Key(lane'[l].q[i]) = lane'[l].key
    BY <1>1, <1>2 DEF QueuedOnce
  <2>2. \A l, m \in Lanes : \A i \in 1..Len(lane'[l].q), j \in 1..Len(lane'[m].q) :
           lane'[l].q[i] = lane'[m].q[j] => l = m /\ i = j
    BY DEF QueuedOnce
  <2>3. \A q \in Reqs : req'[q].pc = "queued" =>
           closing' \/ \E l \in Lanes : \E i \in 1..Len(lane'[l].q) : lane'[l].q[i] = q
    BY <1>1 DEF QueuedOnce
  <2> QED BY <2>1, <2>2, <2>3 DEF QueuedOnce, Key
<1>6. DroppedOnce'
  <2>1. \A i \in 1..Len(quiescer.drop) : quiescer.drop[i] \in Reqs
    BY DEF TypeOK, QuietOK, QuietRec
  <2> QED BY <1>1, <2>1 DEF DroppedOnce
<1>7. RunsOnLane'
  <2>1. \A l \in Lanes : lane'[l].run # NoReq =>
           /\ OnLane(lane'[l].run) /\ Key(lane'[l].run) = lane'[l].key
           /\ req'[lane'[l].run].pc \in Delivered
    BY <1>1, <1>3 DEF RunsOnLane
  <2>2. \A q \in Reqs : OnLane(q) /\ req'[q].pc \in Delivered => \E l \in Lanes : lane'[l].run = q
    BY <1>1 DEF RunsOnLane, Delivered
  <2>3. calls' = {q \in Reqs : req'[q].pc = "running"}
    BY <1>1 DEF RunsOnLane
  <2> QED BY <2>1, <2>2, <2>3 DEF RunsOnLane, Key, OnLane
<1>8. AcceptedFirst'
  BY <1>1, <1>4 DEF AcceptedFirst, Key, Delivered
<1>9. AheadInQueue'
  BY <1>1, <1>2, <1>4 DEF AheadInQueue
<1>10. OverBefore'
  BY <1>1, <1>4 DEF OverBefore, OnLane
<1> QED BY <1>5, <1>6, <1>7, <1>8, <1>9, <1>10

\* The answer goes out and, with it, the slot and the lane's turn.
LEMMA FinishIInv == ASSUME IInv, NEW r \in Reqs, Finish(r) PROVE IInv'
<1>1. /\ TypeOK /\ req[r].pc = "returned" /\ End(r) /\ answers' = Told(r, "done")
      /\ SubOf[r] \in Subs /\ calls' = calls /\ cancelled' = cancelled
      /\ UNCHANGED <<expired, closing, hubLanes, leave, quiescer>>
  BY CallBounds DEF IInv, Finish, At, runVars
<1>2. ReqStep(r, "done", NoLane, {})
  BY <1>1, EndStep DEF TypeOK
<1>3. AnswersOK' /\ AnsweredOnce'
  BY <1>1, EndTold DEF IInv, TypeOK, Answer
<1>4. CASE PaneOf[r] = NoPane
  <2>1. lane' = lane /\ ~OnLane(r)
    BY <1>4 DEF Finish, OnLane
  <2>2. /\ SubOK' /\ SameMaps /\ sub'[SubOf[r]].slots = sub[SubOf[r]].slots - 1
        /\ \A t \in Subs : t # SubOf[r] => sub'[t].slots = sub[t].slots
    <3>1. sub[SubOf[r]].slots - 1 \in Int
      BY <1>1 DEF TypeOK, SubOK, SubRec
    <3>2. sub' = [sub EXCEPT ![SubOf[r]].slots = sub[SubOf[r]].slots - 1]
      BY <1>4 DEF Finish, SlotFreed
    <3> QED BY <1>1, <3>1, <3>2, SlotStep DEF TypeOK
  <2>3. TypeOK'
    BY <1>1, <1>2, <1>3, <2>1, <2>2 DEF TypeOK, ReqStep, LaneOK, LeaveOK, QuietOK, SetsOK
  <2>4. Maps'
    BY <1>1, <2>1, <2>2, MapsKeep DEF IInv, TypeOK
  <2>5. InHand'
    BY <1>2, <2>1, HandsKeep DEF IInv, ReqStep, HandsStay
  <2>6. Items'
    <3>1. \A q \in Reqs : req'[q] = req[q] \/ Runs(q)
      BY <1>1, <1>2, <2>1 DEF ReqStep, Runs
    <3>2. calls' = {q \in Reqs : req'[q].pc = "running"}
      BY <1>1, <1>2 DEF ReqStep, IInv, Items, RunsOnLane
    <3> QED BY <1>1, <2>1, <2>3, <3>1, <3>2, ItemsKeep DEF IInv, ItemsStay
  <2>7. Slots'
    <3>1. Holders(SubOf[r])' = Holders(SubOf[r]) \ {r} /\ r \in Holders(SubOf[r])
      BY <1>1, <1>2, <2>1 DEF Holders, OnLane, ReqStep
    <3>2. \A s \in Subs : s # SubOf[r] => Holders(s)' = Holders(s)
      BY <1>1, <1>2, <2>1 DEF Holders, OnLane, ReqStep
    <3>3. \A s \in Subs : /\ IsFiniteSet(Holders(s)) /\ sub[s].slots <= InFlightMax
                          /\ sub[s].slots = Cardinality(Holders(s))
      BY DEF IInv, Slots, SlotsCounted, SlotsExact, Holders
    <3>4. /\ IsFiniteSet(Holders(SubOf[r])')
          /\ Cardinality(Holders(SubOf[r])') = Cardinality(Holders(SubOf[r])) - 1
      BY <1>1, <3>1, <3>3, FS_RemoveElement
    <3>5. \A s \in Subs : /\ IsFiniteSet(Holders(s)') /\ sub'[s].slots <= InFlightMax
                          /\ sub'[s].slots = Cardinality(Holders(s)')
      <4>1. sub[SubOf[r]].slots \in Int
        BY <1>1 DEF TypeOK, SubOK, SubRec
      <4> QED BY <1>1, <2>2, <3>2, <3>3, <3>4, <4>1, CallBounds
    <3> QED BY <3>5 DEF Slots, SlotsCounted, SlotsExact, Holders
  <2>8. LaneStands' /\ Quieting'
    BY <1>1, <2>1, LaneStandsKeep DEF IInv, Quieting
  <2> QED BY <1>3, <2>3, <2>4, <2>5, <2>6, <2>7, <2>8 DEF IInv
<1>5. CASE PaneOf[r] # NoPane
  <2>1. /\ lane' = [l \in Lanes |-> IF lane[l].run = r
                       THEN [lane[l] EXCEPT !.run = NoReq, !.pc = "look"] ELSE lane[l]]
        /\ sub' = sub /\ OnLane(r)
    BY <1>5 DEF Finish, OnLane
  <2>2. \A l \in Lanes :
           /\ lane'[l] \in LaneRec
           /\ lane'[l].q = lane[l].q /\ lane'[l].key = lane[l].key
           /\ lane'[l].quiesced = lane[l].quiesced /\ lane'[l].retired = lane[l].retired
           /\ lane'[l].run = (IF lane[l].run = r THEN NoReq ELSE lane[l].run)
           /\ lane'[l].pc = (IF lane[l].run = r THEN "look" ELSE lane[l].pc)
    <3> SUFFICES ASSUME NEW l \in Lanes
                 PROVE  /\ lane'[l] \in LaneRec
                        /\ lane'[l].q = lane[l].q /\ lane'[l].key = lane[l].key
                        /\ lane'[l].quiesced = lane[l].quiesced
                        /\ lane'[l].retired = lane[l].retired
                        /\ lane'[l].run = (IF lane[l].run = r THEN NoReq ELSE lane[l].run)
                        /\ lane'[l].pc = (IF lane[l].run = r THEN "look" ELSE lane[l].pc)
      OBVIOUS
    <3>1. lane[l] \in LaneRec
      BY <1>1 DEF TypeOK, LaneOK
    <3>2. CASE lane[l].run = r
      <4>1. lane'[l] = [lane[l] EXCEPT !.run = NoReq, !.pc = "look"]
        BY <2>1, <3>2
      <4> QED BY <3>1, <3>2, <4>1 DEF LaneRec, LanePcs
    <3>3. CASE lane[l].run # r
      <4>1. lane'[l] = lane[l]
        BY <2>1, <3>3
      <4> QED BY <3>1, <3>3, <4>1
    <3> QED BY <3>2, <3>3
  <2>3. \A l \in Lanes : lane[l].run = r => lane[l].pc = "run"
    BY CallBounds DEF IInv, LaneStands
  <2>4. TypeOK'
    BY <1>1, <1>2, <1>3, <2>1, <2>2 DEF TypeOK, ReqStep, LaneOK, SubOK, LeaveOK, QuietOK, SetsOK
  <2>5. Maps'
    <3>1. \A m \in Lanes :
             /\ lane[m].pc \in {"look", "wait", "run", "retire"} =>
                   lane'[m].key = lane[m].key /\ lane'[m].pc \in {"look", "wait", "run", "retire"}
             /\ lane'[m].pc \in Live => lane[m].pc \in Live
      BY <2>2, <2>3 DEF Live
    <3> QED BY <1>1, <2>1, <3>1, MapsKeep DEF IInv, TypeOK, SameMaps
  <2>6. LaneStands'
    BY <1>1, <2>2, <2>3 DEF IInv, LaneStands, Live, Gone
  <2>7. InHand'
    <3>1. HandsStay
      BY <2>2, <2>3 DEF HandsStay, Live
    <3> QED BY <1>2, <3>1, HandsKeep DEF IInv, ReqStep
  <2>8. Items'
    BY <1>1, <1>2, <2>2, <2>4, FinishItems DEF IInv
  <2>9. Slots'
    BY <1>2, <2>1, SlotsKeep DEF IInv, ReqStep, SameSlots
  <2>10. Quieting'
    BY <1>1, <2>2, QuietKeeps DEF IInv, TypeOK
  <2> QED BY <1>3, <2>4, <2>5, <2>6, <2>7, <2>8, <2>9, <2>10 DEF IInv
<1> QED BY <1>4, <1>5

\* What touches neither a request's place nor a lane, a map or a slot.
LEMMA AsideIInv ==
    ASSUME IInv, SubOK', SameMaps, SameSlots, LeaveOK', AnswersOK', AnsweredOnce',
           expired' \subseteq Reqs, cancelled' \subseteq Reqs, cancelled \subseteq cancelled',
           UNCHANGED <<req, calls, closing, hubLanes, lane, quiescer>>
    PROVE  IInv'
<1>1. TypeOK'
  BY DEF IInv, TypeOK, ReqOK, LaneOK, QuietOK, SetsOK
<1>2. Maps'
  BY MapsKeep DEF IInv, TypeOK
<1>3. InHand'
  BY HandsKeep DEF IInv, HandsStay
<1>4. Items'
  <2>1. calls' = {q \in Reqs : req'[q].pc = "running"}
    BY DEF IInv, Items, RunsOnLane
  <2> QED BY <1>1, <2>1, ItemsKeep DEF IInv, ItemsStay
<1>5. Slots'
  BY SlotsKeep DEF IInv
<1>6. Quieting'
  BY QuietKeeps DEF IInv, TypeOK
<1>7. LaneStands'
  BY LaneStandsKeep DEF IInv
<1> QED BY <1>1, <1>2, <1>3, <1>4, <1>5, <1>6, <1>7 DEF IInv

\* A deadline passes: only the note of it, and the call it cancels, change.
LEMMA ExpireIInv == ASSUME IInv, NEW r \in Reqs, Expire(r) PROVE IInv'
<1>1. /\ TypeOK /\ expired' = expired \cup {r}
      /\ cancelled' = cancelled \/ cancelled' = cancelled \cup (calls \cap {r})
      /\ UNCHANGED <<req, answers, calls, closing, hubLanes, lane, sub, leave, quiescer>>
  BY DEF IInv, Expire
<1>2. AnsweredOnce'
  BY <1>1, AnswersKeep DEF IInv
<1>3. SubOK' /\ LeaveOK' /\ AnswersOK' /\ SameMaps /\ SameSlots
  BY <1>1 DEF TypeOK, SubOK, LeaveOK, AnswersOK, SameMaps, SameSlots
<1>4. expired' \subseteq Reqs /\ cancelled' \subseteq Reqs /\ cancelled \subseteq cancelled'
  BY <1>1 DEF TypeOK, SetsOK
<1> QED BY <1>1, <1>2, <1>3, <1>4, AsideIInv

\* A request whose deadline passes hears so, once, and its lane waits on.
LEMMA TimeOutIInv == ASSUME IInv, NEW r \in Reqs, TimeOut(r) PROVE IInv'
<1>1. /\ TypeOK /\ answers' = Told(r, "timeout") /\ req[r].pc \in {"taken", "running", "returned"}
      /\ UNCHANGED <<expired, cancelled, req, calls, closing, hubLanes, lane, sub, leave, quiescer>>
  BY DEF IInv, TimeOut, runVars, RunWaits
<1>2. /\ AnswersOK' /\ \A q \in Reqs : Len(answers'[q]) <= 1
      /\ \A q \in Reqs : q # r => answers'[q] = answers[q]
  BY <1>1, ToldStep DEF IInv, TypeOK, Answer
<1>3. AnsweredOnce'
  BY <1>1, <1>2 DEF IInv, AnsweredOnce, At
<1>4. SubOK' /\ LeaveOK' /\ SameMaps /\ SameSlots
  BY <1>1 DEF TypeOK, SubOK, LeaveOK, SameMaps, SameSlots
<1> QED BY <1>1, <1>2, <1>3, <1>4, AsideIInv DEF TypeOK, SetsOK

-----------------------------------------------------------------------------
(* A Sub goes.                                                             *)

\* A Sub that goes marks itself and picks the lanes to close.
LEMMA LeaveIInv ==
    ASSUME IInv, NEW s \in Subs, Finalize(s) \/ Close(s) \/ CloseLanes(s)
    PROVE  IInv'
<1>1. TypeOK /\ UNCHANGED <<req, answers, expired, cancelled, calls, closing, hubLanes, quiescer,
                            lane>>
  BY DEF IInv, Finalize, Close, CloseLanes, leaveVars
<1>2. AnswersOK' /\ AnsweredOnce'
  BY <1>1, AnswersKeep DEF IInv, TypeOK, AnswersOK
<1>3. SubOK' /\ SameMaps /\ SameSlots
  <2>1. CASE sub' = [sub EXCEPT ![s].gone = TRUE]
    BY <1>1, <2>1, GoneStep DEF TypeOK
  <2>2. CASE sub' = sub
    BY <1>1, <2>2 DEF TypeOK, SubOK, SameMaps, SameSlots
  <2> QED BY <2>1, <2>2 DEF Finalize, Close, CloseLanes
<1>4. LeaveOK'
  <2>1. CASE Finalize(s)
    BY <1>1, <2>1 DEF Finalize, TypeOK, LeaveOK
  <2>2. CASE Close(s)
    BY <1>1, <2>2 DEF Close, TypeOK, LeaveOK, LeaveRec
  <2>3. CASE CloseLanes(s)
    <3> DEFINE T == {sub[s].lanes[p] : p \in Panes} \ {NoLane}
    <3>1. T \subseteq Lanes
      BY <1>1 DEF TypeOK, SubOK, SubRec
    <3>2. leave' = [leave EXCEPT ![s] = [pc |-> "gone", todo |-> T]]
      BY <2>3 DEF CloseLanes
    <3> HIDE DEF T
    <3>3. [pc |-> "gone", todo |-> T] \in LeaveRec
      BY <3>1 DEF LeaveRec
    <3> QED BY <1>1, <3>2, <3>3 DEF TypeOK, LeaveOK
  <2> QED BY <2>1, <2>2, <2>3
<1> QED BY <1>1, <1>2, <1>3, <1>4, AsideIInv DEF TypeOK, SetsOK

\* A lane that is told something, and no more.
LEMMA SignalledIInv ==
    ASSUME IInv, NEW l \in Lanes, LeaveOK',
           LaneStep(l, lane[l].pc, lane[l].q, lane[l].run, lane[l].quiesced, lane[l].retired),
           UNCHANGED <<req, answers, expired, cancelled, calls, closing, hubLanes, quiescer, sub>>
    PROVE  IInv'
<1>1. TypeOK'
  BY DEF IInv, TypeOK, LaneStep, ReqOK, SubOK, QuietOK, AnswersOK, SetsOK
<1>2. \A m \in Lanes : /\ lane'[m].pc = lane[m].pc /\ lane'[m].key = lane[m].key
                       /\ lane'[m].q = lane[m].q /\ lane'[m].run = lane[m].run
                       /\ lane'[m].quiesced = lane[m].quiesced
                       /\ lane'[m].retired = lane[m].retired
  BY DEF LaneStep
<1>3. Maps'
  BY <1>2, MapsKeep DEF IInv, TypeOK, SameMaps
<1>4. LaneStands'
  BY <1>2 DEF IInv, LaneStands, Gone, Live
<1>5. InHand'
  BY <1>2, HandsKeep DEF IInv, HandsStay
<1>6. Items'
  <2>1. calls' = {q \in Reqs : req'[q].pc = "running"}
    BY DEF IInv, Items, RunsOnLane
  <2> QED BY <1>1, <1>2, <2>1, ItemsKeep DEF IInv, ItemsStay
<1>7. AnsweredOnce'
  BY AnswersKeep DEF IInv
<1>8. Slots'
  BY SlotsKeep DEF IInv, SameSlots
<1>9. Quieting'
  BY <1>2, QuietKeeps DEF IInv, TypeOK
<1> QED BY <1>1, <1>3, <1>4, <1>5, <1>6, <1>7, <1>8, <1>9 DEF IInv

\* Closing a lane is a signal to its drainer.
LEMMA CloseLaneIInv ==
    ASSUME IInv, NEW s \in Subs, NEW l \in Lanes, CloseLane(s, l)
    PROVE  IInv'
<1>1. /\ TypeOK /\ LaneOK
      /\ UNCHANGED <<req, answers, expired, cancelled, calls, closing, hubLanes, quiescer, sub>>
  BY DEF IInv, TypeOK, CloseLane, leaveVars
<1>2. LaneStep(l, lane[l].pc, lane[l].q, lane[l].run, lane[l].quiesced, lane[l].retired)
  BY <1>1, SignalStep DEF CloseLane
<1>3. LeaveOK'
  BY <1>1 DEF CloseLane, TypeOK, LeaveOK, LeaveRec
<1> QED BY <1>1, <1>2, <1>3, SignalledIInv

-----------------------------------------------------------------------------
(* Quiesce.                                                                *)

\* A step of Quiesce that leaves the lanes and what it has dropped alone.
LEMMA QuiescerIInv ==
    ASSUME IInv, QuietOK', quiescer'.drop = quiescer.drop, Quieting',
           closing' \in BOOLEAN, closing => closing', cancelled' \subseteq Reqs,
           UNCHANGED <<req, answers, expired, calls, hubLanes, lane, sub, leave>>
    PROVE  IInv'
<1>1. TypeOK'
  BY DEF IInv, TypeOK, ReqOK, LaneOK, SubOK, LeaveOK, AnswersOK, SetsOK
<1>2. Maps'
  BY MapsKeep DEF IInv, TypeOK, SameMaps
<1>3. InHand'
  BY HandsKeep DEF IInv, HandsStay
<1>4. Items'
  <2>1. QueuedOnce'
    BY DEF IInv, Items, QueuedOnce, Key
  <2>2. DroppedOnce'
    BY DEF IInv, Items, DroppedOnce
  <2>3. RunsOnLane' /\ AcceptedFirst' /\ OverBefore'
    BY DEF IInv, Items, RunsOnLane, AcceptedFirst, OverBefore, Key, OnLane, Delivered
  <2>4. AheadInQueue'
    BY DEF IInv, Items, AheadInQueue
  <2> QED BY <2>1, <2>2, <2>3, <2>4 DEF Items
<1>5. AnsweredOnce'
  BY AnswersKeep DEF IInv
<1>6. Slots'
  BY SlotsKeep DEF IInv, SameSlots
<1>7. LaneStands'
  BY LaneStandsKeep DEF IInv
<1> QED BY <1>1, <1>2, <1>3, <1>4, <1>5, <1>6, <1>7 DEF IInv

\* Quiesce, step one: the hub refuses from here on.
LEMMA QuiesceBeginIInv == ASSUME IInv, QuiesceBegin PROVE IInv'
<1>1. /\ TypeOK /\ ~closing /\ closing' = TRUE /\ quiescer.pc = "idle"
      /\ quiescer' = [quiescer EXCEPT !.pc = "cancel", !.calls = calls]
      /\ UNCHANGED <<req, answers, expired, calls, cancelled, hubLanes, lane, sub, leave>>
  BY DEF IInv, QuiesceBegin, quietVars, Quieting
<1>2. /\ QuietOK' /\ quiescer'.pc = "cancel" /\ quiescer'.calls = calls
      /\ quiescer'.drop = quiescer.drop
  BY <1>1 DEF TypeOK, QuietOK, QuietRec, SetsOK
<1>3. Quieting'
  BY <1>1, <1>2 DEF Quieting
<1> QED BY <1>1, <1>2, <1>3, QuiescerIInv DEF TypeOK, SetsOK

\* Quiesce cancels every call in flight.
LEMMA QuiesceCancelIInv == ASSUME IInv, QuiesceCancel PROVE IInv'
<1>1. /\ TypeOK /\ quiescer.pc = "cancel" /\ calls \subseteq quiescer.calls /\ closing
      /\ cancelled' = cancelled \cup (calls \cap quiescer.calls)
      /\ quiescer' = [quiescer EXCEPT !.pc = "lanes", !.calls = {}]
      /\ UNCHANGED <<req, answers, expired, calls, closing, hubLanes, lane, sub, leave>>
  BY DEF IInv, QuiesceCancel, quietVars, Quieting
<1>2. QuietOK' /\ quiescer'.pc = "lanes" /\ quiescer'.drop = quiescer.drop
  BY <1>1 DEF TypeOK, QuietOK, QuietRec
<1>3. Quieting'
  BY <1>1, <1>2 DEF Quieting
<1> QED BY <1>1, <1>2, <1>3, QuiescerIInv DEF TypeOK, SetsOK

\* Quiesce takes the set of lanes it will empty.
LEMMA LaneSetIInv == ASSUME IInv, LaneSet PROVE IInv'
<1>1. /\ TypeOK /\ quiescer.pc = "lanes" /\ calls \subseteq cancelled /\ closing
      /\ quiescer' = [quiescer EXCEPT !.pc = "empty", !.lanes = hubLanes, !.todo = hubLanes]
      /\ UNCHANGED <<req, answers, expired, calls, cancelled, closing, hubLanes, lane, sub, leave>>
  BY DEF IInv, LaneSet, quietVars, Quieting
<1>2. /\ QuietOK' /\ quiescer'.pc = "empty" /\ quiescer'.lanes = hubLanes
      /\ quiescer'.todo = hubLanes /\ quiescer'.drop = quiescer.drop
  <2> DEFINE Q == [quiescer EXCEPT !.pc = "empty", !.lanes = hubLanes]
             P == [Q EXCEPT !.todo = hubLanes]
  <2>1. quiescer' = P
    BY <1>1
  <2>2. Q \in QuietRec /\ Q.pc = "empty" /\ Q.lanes = hubLanes /\ Q.drop = quiescer.drop
    BY <1>1 DEF TypeOK, QuietOK, QuietRec, SetsOK
  <2> HIDE DEF Q
  <2>3. /\ P \in QuietRec /\ P.pc = Q.pc /\ P.lanes = Q.lanes /\ P.drop = Q.drop
        /\ P.todo = hubLanes
    BY <1>1, <2>2 DEF TypeOK, QuietRec, SetsOK
  <2> HIDE DEF P
  <2> QED BY <2>1, <2>2, <2>3 DEF QuietOK
<1>3. Quieting'
  BY <1>1, <1>2 DEF Quieting
<1> QED BY <1>1, <1>2, <1>3, QuiescerIInv DEF TypeOK, SetsOK

\* Quiesce waits for the calls that run.
LEMMA QuiesceWaitIInv == ASSUME IInv, QuiesceWait PROVE IInv'
<1>1. /\ TypeOK /\ quiescer.pc = "empty" /\ quiescer.todo = {} /\ closing
      /\ quiescer' = [quiescer EXCEPT !.pc = "waiting"]
      /\ UNCHANGED <<req, answers, expired, calls, cancelled, closing, hubLanes, lane, sub, leave>>
  BY DEF IInv, QuiesceWait, quietVars, Quieting
<1>2. /\ QuietOK' /\ quiescer'.pc = "waiting" /\ quiescer'.todo = quiescer.todo
      /\ quiescer'.lanes = quiescer.lanes /\ quiescer'.drop = quiescer.drop
  BY <1>1 DEF TypeOK, QuietOK, QuietRec
<1>3. Quieting'
  BY <1>1, <1>2 DEF IInv, Quieting
<1> QED BY <1>1, <1>2, <1>3, QuiescerIInv DEF TypeOK, SetsOK

\* Nothing runs anywhere when nothing runs on the lanes Quiesce knows.
LEMMA QuiesceReturnIInv == ASSUME IInv, QuiesceReturn PROVE IInv'
<1>1. /\ TypeOK /\ quiescer.pc = "waiting" /\ closing
      /\ UNCHANGED <<req, answers, expired, calls, cancelled, closing, hubLanes, lane, sub, leave>>
  BY DEF IInv, QuiesceReturn, quietVars, Quieting
<1>2. PICK how \in {"stopped", "grace"} :
         /\ how = "stopped" => Stopped
         /\ quiescer' = [quiescer EXCEPT !.pc = how, !.lanes = {}]
  BY DEF QuiesceReturn, Outcomes
<1>3. /\ QuietOK' /\ quiescer'.pc = how /\ quiescer'.todo = quiescer.todo
      /\ quiescer'.drop = quiescer.drop
  BY <1>1, <1>2 DEF TypeOK, QuietOK, QuietRec
<1>4. how = "stopped" => calls = {} /\ \A l \in Lanes : lane[l].run = NoReq
  <2>1. hubLanes \subseteq quiescer.lanes
    BY <1>1 DEF IInv, Quieting
  <2>2. \A l \in Lanes : lane[l].run # NoReq => l \in hubLanes
    BY DEF IInv, LaneStands
  <2> QED BY <1>2, <2>1, <2>2 DEF Stopped
<1>5. Quieting'
  BY <1>1, <1>3, <1>4 DEF IInv, Quieting
<1> QED BY <1>1, <1>3, <1>5, QuiescerIInv DEF TypeOK, SetsOK

\* lane.quiesce: what waited on the lane waits in drop.
LEMMA QuiesceLaneIInv == ASSUME IInv, NEW l \in Lanes, QuiesceLane(l) PROVE IInv'
<1>1. /\ TypeOK /\ quiescer.pc = "empty" /\ l \in quiescer.todo /\ closing
      /\ lane[l].q \in Seq(Reqs)
      /\ quiescer' = [quiescer EXCEPT !.todo = @ \ {l}, !.pc = "discard",
                              !.at = l, !.drop = lane[l].q]
      /\ lane' = [lane EXCEPT ![l] = [@ EXCEPT !.quiesced = TRUE, !.q = << >>]]
      /\ UNCHANGED <<req, answers, expired, calls, cancelled, closing, hubLanes, sub, leave>>
  BY DEF IInv, QuiesceLane, quietVars, Quieting, TypeOK, LaneOK, LaneRec
<1>2. LaneStep(l, lane[l].pc, << >>, lane[l].run, TRUE, lane[l].retired)
  <2> DEFINE none == << >>
             L == [lane[l] EXCEPT !.quiesced = TRUE, !.q = none]
  <2>1. lane' = [lane EXCEPT ![l] = L]
    BY <1>1
  <2>2. none \in Seq(Reqs)
    OBVIOUS
  <2> HIDE DEF none
  <2>3. /\ L \in LaneRec /\ L.pc = lane[l].pc /\ L.key = lane[l].key /\ L.q = none
        /\ L.run = lane[l].run /\ L.quiesced = TRUE /\ L.retired = lane[l].retired
    BY <1>1, <2>2 DEF TypeOK, LaneOK, LaneRec
  <2> HIDE DEF L
  <2> QED BY <1>1, <2>1, <2>3, LanePut DEF TypeOK, LaneStep, none
<1>3. /\ QuietOK' /\ quiescer'.pc = "discard" /\ quiescer'.todo = quiescer.todo \ {l}
      /\ quiescer'.lanes = quiescer.lanes /\ quiescer'.at = l /\ quiescer'.drop = lane[l].q
  <2> DEFINE Q == [quiescer EXCEPT !.todo = quiescer.todo \ {l}, !.pc = "discard"]
             d == lane[l].q
             P == [Q EXCEPT !.at = l, !.drop = d]
  <2>1. quiescer' = P
    BY <1>1
  <2>2. /\ Q \in QuietRec /\ Q.pc = "discard" /\ Q.todo = quiescer.todo \ {l}
        /\ Q.lanes = quiescer.lanes
    BY <1>1 DEF TypeOK, QuietOK, QuietRec
  <2>3. d \in Seq(Reqs)
    BY <1>1
  <2> HIDE DEF Q, d
  <2>4. /\ P \in QuietRec /\ P.pc = Q.pc /\ P.todo = Q.todo /\ P.lanes = Q.lanes
        /\ P.at = l /\ P.drop = d
    BY <2>2, <2>3 DEF QuietRec
  <2> HIDE DEF P
  <2> QED BY <2>1, <2>2, <2>4 DEF QuietOK, d
<1>4. TypeOK'
  BY <1>1, <1>2, <1>3 DEF TypeOK, LaneStep, ReqOK, SubOK, LeaveOK, AnswersOK, SetsOK
<1>5. Maps'
  <2>1. \A m \in Lanes : lane'[m].key = lane[m].key /\ lane'[m].pc = lane[m].pc
    BY <1>2 DEF LaneStep
  <2> QED BY <1>1, <2>1, MapsKeep DEF IInv, TypeOK, SameMaps
<1>6. LaneStands'
  BY <1>1, <1>2 DEF IInv, LaneStands, LaneStep, Gone, Live
<1>7. InHand'
  <2>1. HandsStay
    BY <1>2 DEF HandsStay, LaneStep
  <2> QED BY <1>1, <2>1, HandsKeep DEF IInv
<1>8. Items'
  <2> USE DEF IInv, Items
  <2>1. \A m \in Lanes : \A i \in 1..Len(lane'[m].q) :
           m # l /\ i \in 1..Len(lane[m].q) /\ lane'[m].q[i] = lane[m].q[i]
    BY <1>2 DEF LaneStep
  <2>2. \A m \in Lanes : lane'[m].key = lane[m].key /\ lane'[m].run = lane[m].run
    BY <1>2 DEF LaneStep
  <2>3. QueuedOnce'
    <3>1. \A m \in Lanes : \A i \in 1..Len(lane'[m].q) :
             req[lane'[m].q[i]].pc = "queued" /\ Key(lane'[m].q[i]) = lane'[m].key
      BY <2>1, <2>2 DEF QueuedOnce
    <3>2. \A m, n \in Lanes : \A i \in 1..Len(lane'[m].q), j \in 1..Len(lane'[n].q) :
             lane'[m].q[i] = lane'[n].q[j] => m = n /\ i = j
      BY <2>1 DEF QueuedOnce
    <3> QED BY <1>1, <3>1, <3>2 DEF QueuedOnce, Key
  <2>4. DroppedOnce'
    <3> SUFFICES ASSUME NEW i \in 1..Len(lane[l].q)
                 PROVE  /\ req[lane[l].q[i]].pc = "queued"
                        /\ \A m \in Lanes : \A j \in 1..Len(lane'[m].q) :
                              lane'[m].q[j] # lane[l].q[i]
      BY <1>1, <1>3 DEF DroppedOnce
    <3> QED BY <2>1 DEF QueuedOnce
  <2>5. RunsOnLane'
    BY <1>1, <2>2 DEF RunsOnLane, Key, OnLane, Delivered
  <2>6. AcceptedFirst' /\ OverBefore'
    BY <1>1 DEF AcceptedFirst, OverBefore, Key, OnLane, Delivered
  <2>7. AheadInQueue'
    BY <1>1 DEF AheadInQueue
  <2> QED BY <2>3, <2>4, <2>5, <2>6, <2>7
<1>9. AnsweredOnce'
  BY <1>1, AnswersKeep DEF IInv
<1>10. Slots'
  BY <1>1, SlotsKeep DEF IInv, SameSlots
<1>11. Quieting'
  <2>1. \A m \in Lanes : /\ lane'[m].run = lane[m].run
                         /\ lane[m].quiesced \/ m = l => lane'[m].quiesced
    BY <1>2 DEF LaneStep
  <2> QED BY <1>1, <1>3, <2>1 DEF IInv, Quieting, TypeOK, SetsOK
<1> QED BY <1>4, <1>5, <1>6, <1>7, <1>8, <1>9, <1>10, <1>11 DEF IInv

\* The dropped ones are told, and the lane's op is cancelled.
LEMMA DiscardIInv == ASSUME IInv, Discard PROVE IInv'
<1> DEFINE l == quiescer.at
           drop == quiescer.drop
<1>1. /\ TypeOK /\ quiescer.pc = "discard" /\ l \in Lanes /\ closing /\ calls \subseteq cancelled
      /\ req' = DoneWith(drop) /\ answers' = ToldAll(drop)
      /\ lane' = [lane EXCEPT ![l] = [@ EXCEPT !.cancelled = TRUE, !.wake = TRUE]]
      /\ cancelled' = cancelled \cup (calls \cap {lane[l].run})
      /\ quiescer' = [quiescer EXCEPT !.pc = "empty", !.at = NoLane, !.drop = << >>]
      /\ UNCHANGED <<expired, calls, closing, hubLanes, sub, leave>>
  BY DEF IInv, Discard, quietVars, Quieting
<1>2. LaneStep(l, lane[l].pc, lane[l].q, lane[l].run, lane[l].quiesced, lane[l].retired)
  BY <1>1, SignalStep DEF TypeOK
<1>3. /\ QuietOK' /\ quiescer'.pc = "empty" /\ quiescer'.todo = quiescer.todo
      /\ quiescer'.lanes = quiescer.lanes /\ quiescer'.drop = << >>
  <2> DEFINE none == << >>
             Q == [quiescer EXCEPT !.pc = "empty", !.at = NoLane, !.drop = none]
  <2>1. quiescer' = Q
    BY <1>1
  <2>2. none \in Seq(Reqs)
    OBVIOUS
  <2> HIDE DEF none
  <2>3. /\ Q \in QuietRec /\ Q.pc = "empty" /\ Q.todo = quiescer.todo
        /\ Q.lanes = quiescer.lanes /\ Q.drop = none
    BY <1>1, <2>2 DEF TypeOK, QuietOK, QuietRec
  <2> HIDE DEF Q
  <2> QED BY <2>1, <2>3 DEF QuietOK, none
<1>4. \A r \in Reqs : r \in Range(drop) => req[r].pc = "queued"
  BY <1>1 DEF IInv, Items, DroppedOnce, Range, TypeOK, QuietOK, QuietRec
<1>5. /\ ReqOK'
      /\ \A r \in Reqs : \/ r \notin Range(drop) /\ req'[r] = req[r]
                         \/ /\ r \in Range(drop) /\ req[r].pc = "queued" /\ req'[r].pc = "done"
                            /\ req'[r].before = {}
  <2>1. Over \in ReqRec /\ Over.pc = "done" /\ Over.before = {}
    BY CallBounds DEF Over, ReqRec, ReqPcs
  <2>2. \A r \in Reqs : req'[r] = IF r \in Range(drop) THEN Over ELSE req[r]
    BY <1>1 DEF DoneWith
  <2>3. req' \in [Reqs -> ReqRec]
    BY <1>1, <2>1 DEF DoneWith, TypeOK, ReqOK
  <2> QED BY <1>4, <2>1, <2>2, <2>3 DEF ReqOK
<1>6. AnswersOK' /\ AnsweredOnce'
  <2>1. \A r \in Reqs :
           /\ answers[r] \in Seq(Answer) /\ Len(answers[r]) <= 1
           /\ Told(r, "discarded")[r] \in Seq(Answer) /\ Len(Told(r, "discarded")[r]) = 1
    <3> SUFFICES ASSUME NEW r \in Reqs
                 PROVE  /\ answers[r] \in Seq(Answer) /\ Len(answers[r]) <= 1
                        /\ Told(r, "discarded")[r] \in Seq(Answer)
                        /\ Len(Told(r, "discarded")[r]) = 1
      OBVIOUS
    <3>1. answers[r] \in Seq(Answer) /\ Len(answers[r]) <= 1
      BY <1>1 DEF TypeOK, AnswersOK, IInv, AnsweredOnce
    <3>2. CASE answers[r] = << >>
      <4>1. Told(r, "discarded")[r] = <<"discarded">>
        BY <1>1, <3>2 DEF Told, TypeOK, AnswersOK
      <4>2. <<"discarded">> \in Seq(Answer) /\ Len(<<"discarded">>) = 1
        BY DEF Answer
      <4> QED BY <3>1, <4>1, <4>2
    <3>3. CASE answers[r] # << >>
      <4>1. Told(r, "discarded")[r] = answers[r]
        BY <3>3 DEF Told
      <4>2. Len(answers[r]) = 1
        BY <3>1, <3>3, JustOne
      <4> QED BY <3>1, <4>1, <4>2
    <3> QED BY <3>2, <3>3
  <2>2. \A r \in Reqs : answers'[r] = IF r \in Range(drop) THEN Told(r, "discarded")[r]
                                      ELSE answers[r]
    BY <1>1 DEF ToldAll
  <2>3. answers' = [r \in Reqs |-> answers'[r]]
    BY <1>1 DEF ToldAll
  <2>4. AnswersOK'
    BY <2>1, <2>2, <2>3 DEF AnswersOK
  <2>5. AnsweredOnce'
    <3> SUFFICES ASSUME NEW r \in Reqs
                 PROVE  Len(answers'[r]) <= 1 /\ (req'[r].pc = "done" => Len(answers'[r]) = 1)
      BY DEF AnsweredOnce, At
    <3>1. CASE r \in Range(drop)
      <4>1. answers'[r] = Told(r, "discarded")[r]
        BY <3>1, <2>2
      <4>2. Len(answers'[r]) = 1
        BY <4>1, <2>1
      <4> QED BY <4>2
    <3>2. CASE r \notin Range(drop)
      BY <3>2, <2>1, <2>2, <1>5 DEF IInv, AnsweredOnce, At
    <3> QED BY <3>1, <3>2
  <2> QED BY <2>4, <2>5
<1> HIDE DEF l, drop
<1>7. TypeOK'
  BY <1>1, <1>2, <1>3, <1>5, <1>6 DEF TypeOK, LaneStep, SubOK, LeaveOK, SetsOK
<1>8. \A m \in Lanes : /\ lane'[m].pc = lane[m].pc /\ lane'[m].key = lane[m].key
                       /\ lane'[m].q = lane[m].q /\ lane'[m].run = lane[m].run
                       /\ lane'[m].quiesced = lane[m].quiesced
                       /\ lane'[m].retired = lane[m].retired
  BY <1>2 DEF LaneStep
<1>9. Maps'
  BY <1>1, <1>8, MapsKeep DEF IInv, TypeOK, SameMaps
<1>10. LaneStands'
  BY <1>1, <1>8 DEF IInv, LaneStands, Gone, Live
<1>11. InHand'
  BY <1>5, <1>8, HandsKeep DEF IInv, HandsStay
<1>12. Items'
  <2> USE DEF IInv, Items
  <2>1. \A m \in Lanes : \A i \in 1..Len(lane[m].q) :
           lane[m].q[i] \in Reqs /\ lane[m].q[i] \notin Range(drop)
    <3>1. \A m \in Lanes : \A i \in 1..Len(lane[m].q) : lane[m].q[i] \in Reqs
      BY <1>1 DEF TypeOK, LaneOK, LaneRec
    <3>2. DOMAIN drop = 1..Len(drop)
      BY <1>1 DEF TypeOK, QuietOK, QuietRec, drop
    <3> QED BY <3>1, <3>2 DEF DroppedOnce, Range, drop
  <2>2. QueuedOnce'
    <3>1. \A m \in Lanes : \A i \in 1..Len(lane'[m].q) :
             req'[lane'[m].q[i]].pc = "queued" /\ Key(lane'[m].q[i]) = lane'[m].key
      BY <1>5, <1>8, <2>1 DEF QueuedOnce
    <3>2. \A m, n \in Lanes : \A i \in 1..Len(lane'[m].q), j \in 1..Len(lane'[n].q) :
             lane'[m].q[i] = lane'[n].q[j] => m = n /\ i = j
      <4> SUFFICES ASSUME NEW m \in Lanes, NEW n \in Lanes, NEW i \in 1..Len(lane'[m].q),
                          NEW j \in 1..Len(lane'[n].q), lane'[m].q[i] = lane'[n].q[j]
                   PROVE  m = n /\ i = j
        OBVIOUS
      <4>1. lane'[m].q = lane[m].q /\ lane'[n].q = lane[n].q
        BY <1>8
      <4> QED BY <4>1 DEF QueuedOnce
    <3> QED BY <1>1, <3>1, <3>2 DEF QueuedOnce, Key
  <2>3. DroppedOnce'
    BY <1>3 DEF DroppedOnce
  <2>4. RunsOnLane'
    <3>1. \A m \in Lanes : lane[m].run \in Reqs \cup {NoReq}
      BY <1>1 DEF TypeOK, LaneOK, LaneRec
    <3>2. \A m \in Lanes : lane'[m].run # NoReq =>
             /\ OnLane(lane'[m].run) /\ Key(lane'[m].run) = lane'[m].key
             /\ req'[lane'[m].run].pc \in Delivered
      BY <1>5, <1>8, <3>1 DEF RunsOnLane, Delivered
    <3>3. \A q \in Reqs : OnLane(q) /\ req'[q].pc \in Delivered => \E m \in Lanes : lane'[m].run = q
      BY <1>5, <1>8 DEF RunsOnLane, Delivered
    <3>4. calls' = {q \in Reqs : req'[q].pc = "running"}
      BY <1>1, <1>5 DEF RunsOnLane
    <3> QED BY <3>2, <3>3, <3>4 DEF RunsOnLane, Key, OnLane
  <2>5. \A q \in Reqs : req[q].before \subseteq Reqs
    BY <1>1 DEF TypeOK, ReqOK, ReqRec
  <2>6. AcceptedFirst'
    BY <1>5, <2>5 DEF AcceptedFirst, Key, Delivered
  <2>7. OverBefore'
    BY <1>1, <1>5, <2>5 DEF OverBefore, OnLane
  <2>8. AheadInQueue'
    BY <1>1 DEF AheadInQueue
  <2> QED BY <2>2, <2>3, <2>4, <2>6, <2>7, <2>8
<1>13. Slots'
  <2>1. \A r \in Reqs : req[r].pc = "queued" => OnLane(r)
    BY DEF IInv, InHand, HandOf, Accepting
  <2> QED BY <1>1, <1>5, <2>1, SlotsKeep DEF IInv, SameSlots, Delivered
<1>14. Quieting'
  BY <1>1, <1>3, <1>8 DEF IInv, Quieting, TypeOK, SetsOK
<1> QED BY <1>6, <1>7, <1>9, <1>10, <1>11, <1>12, <1>13, <1>14 DEF IInv

-----------------------------------------------------------------------------
(* The invariant, and what follows from it.                                *)

\* The hub starts with nothing in hand.
LEMMA InitIInv == Init => IInv
<1> SUFFICES ASSUME Init PROVE IInv
  OBVIOUS
<1>1. \A r \in Reqs : req[r].pc = "new" /\ req[r].before = {} /\ req[r].lane = NoLane
  BY DEF Init
<1>2. \A l \in Lanes : lane[l] = NoneLane
  BY DEF Init
<1>3. /\ NoneLane.pc = "none" /\ NoneLane.q = << >> /\ NoneLane.run = NoReq
      /\ ~NoneLane.retired /\ NoneLane \in LaneRec
  BY NoneLaneOK DEF NoneLane
<1>4. TypeOK
  <2>1. ReqOK
    BY CallBounds DEF Init, ReqOK, ReqRec, ReqPcs
  <2>2. LaneOK
    BY <1>3 DEF Init, LaneOK
  <2>3. SubOK
    <3>1. [p \in Panes |-> NoLane] \in [Panes -> Lanes \cup {NoLane}]
      OBVIOUS
    <3> QED BY <3>1 DEF Init, SubOK, SubRec
  <2>4. LeaveOK
    BY DEF Init, LeaveOK, LeaveRec
  <2>5. QuietOK
    BY DEF Init, QuietOK, QuietRec
  <2>6. AnswersOK
    BY DEF Init, AnswersOK
  <2>7. SetsOK
    BY DEF Init, SetsOK
  <2> QED BY <2>1, <2>2, <2>3, <2>4, <2>5, <2>6, <2>7 DEF TypeOK
<1>5. Maps
  BY <1>2, <1>3 DEF Init, Maps, MapIsLive, LiveIsMapped, Live
<1>6. LaneStands
  BY <1>2, <1>3 DEF Init, LaneStands, Gone, Live
<1>7. InHand
  BY <1>1 DEF InHand, HandOf, Accepting
<1>8. Items
  <2>1. \A l \in Lanes : lane[l].q = << >> /\ lane[l].run = NoReq
    BY <1>2, <1>3
  <2>2. QueuedOnce
    BY <1>1, <2>1 DEF QueuedOnce
  <2>3. DroppedOnce
    BY DEF Init, DroppedOnce
  <2>4. RunsOnLane
    BY <1>1, <2>1 DEF Init, RunsOnLane, Delivered
  <2>5. AcceptedFirst /\ OverBefore
    BY <1>1 DEF AcceptedFirst, OverBefore
  <2>6. AheadInQueue
    BY <2>1 DEF AheadInQueue
  <2> QED BY <2>2, <2>3, <2>4, <2>5, <2>6 DEF Items
<1>9. AnsweredOnce
  BY <1>1 DEF Init, AnsweredOnce, At
<1>10. Slots
  <2>1. \A s \in Subs : Holders(s) = {} /\ sub[s].slots = 0
    BY <1>1 DEF Init, Holders
  <2>2. \A s \in Subs : IsFiniteSet(Holders(s)) /\ Cardinality(Holders(s)) = 0
    BY <2>1, FS_EmptySet
  <2>3. InFlightMax \in Nat BY CallBounds
  <2> QED BY <2>1, <2>2, <2>3 DEF Slots, SlotsCounted, SlotsExact, Holders
<1>11. Quieting
  BY DEF Init, Quieting
<1> QED BY <1>4, <1>5, <1>6, <1>7, <1>8, <1>9, <1>10, <1>11 DEF IInv

\* Every step of the hub, its drainers and its Subs keeps the invariant.
LEMMA NextIInv == IInv /\ [Next]_vars => IInv'
<1> SUFFICES ASSUME IInv, [Next]_vars PROVE IInv'
  OBVIOUS
<1>1. ASSUME NEW r \in Reqs, CallPlain(r) \/ CallOnLane(r) PROVE IInv'
  BY <1>1, CallPlainIInv, CallOnLaneIInv
<1>2. ASSUME NEW r \in Reqs, Deliver(r) PROVE IInv'
  BY <1>2, LookUpIInv, OpenLaneIInv, InsertLaneIInv, PushIInv, ForgetIInv DEF Deliver
<1>3. ASSUME NEW r \in Reqs, Ending(r) \/ Return(r) \/ Expire(r) \/ TimeOut(r) PROVE IInv'
  BY <1>3, EnterIInv, FinishIInv, ReturnIInv, ExpireIInv, TimeOutIInv DEF Ending
<1>4. ASSUME NEW l \in Lanes, Drain(l) \/ IdleOut(l) PROVE IInv'
  BY <1>4, TakeIInv, LoopIInv, RetireFromSubIInv, RetireFromHubIInv DEF Drain
<1>5. ASSUME NEW s \in Subs,
             Finalize(s) \/ Close(s) \/ CloseLanes(s) \/ \E l \in Lanes : CloseLane(s, l)
      PROVE IInv'
  BY <1>5, LeaveIInv, CloseLaneIInv
<1>6. ASSUME QuiesceBegin \/ Quiescing PROVE IInv'
  <2>1. ASSUME NEW l \in Lanes, QuiesceLane(l) PROVE IInv'
    BY <2>1, QuiesceLaneIInv
  <2> QED BY <1>6, <2>1, QuiesceBeginIInv, QuiesceCancelIInv, LaneSetIInv, DiscardIInv,
             QuiesceWaitIInv, QuiesceReturnIInv DEF Quiescing
<1>7. CASE UNCHANGED vars
  <2> USE <1>7 DEF vars
  <2>1. SubOK' /\ LeaveOK' /\ AnswersOK' /\ SameMaps /\ SameSlots
    BY DEF IInv, TypeOK, SubOK, LeaveOK, AnswersOK, SameMaps, SameSlots
  <2>2. AnsweredOnce'
    BY AnswersKeep DEF IInv
  <2> QED BY <2>1, <2>2, AsideIInv DEF IInv, TypeOK, SetsOK
<1> QED BY <1>1, <1>2, <1>3, <1>4, <1>5, <1>6, <1>7 DEF Next

\* The inductive invariant holds of every state the hub can reach.
LEMMA Invariance == Spec => []IInv
BY InitIInv, NextIInv, PTL DEF Spec

(* A lane delivers one request at a time, in the order of submission: two  *)
(* that run for one connection and pane would be run by two lanes of one   *)
(* key, and only one of those can be in the map of the Sub.  (laneFor,     *)
(* next, run, retire.)                                                     *)
THEOREM LanesAreSerial == Spec => []LanesSerial
<1>1. IInv => LanesSerial
  <2> SUFFICES ASSUME IInv PROVE LanesSerial
    OBVIOUS
  <2> USE DEF IInv, Items
  <2>1. \A r \in calls : r \in Reqs /\ req[r].pc = "running"
    BY DEF RunsOnLane
  <2>2. ASSUME NEW r \in calls, NEW q \in calls, Key(r) = Key(q), OnLane(r)
        PROVE  r = q
    <3>1. OnLane(q)
      BY <2>2 DEF Key, OnLane
    <3>2. PICK l \in Lanes : lane[l].run = r
      BY <2>1, <2>2 DEF RunsOnLane, Delivered
    <3>3. PICK m \in Lanes : lane[m].run = q
      BY <2>1, <3>1 DEF RunsOnLane, Delivered
    <3>4. r # NoReq /\ q # NoReq
      BY <2>1, CallBounds
    <3>5. lane[l].pc \in Live /\ lane[m].pc \in Live
      BY <3>2, <3>3, <3>4 DEF LaneStands, Live
    <3>6. lane[l].key = lane[m].key
      BY <2>2, <3>2, <3>3, <3>4 DEF RunsOnLane
    <3>7. l = m
      BY <3>5, <3>6, OneLane DEF TypeOK
    <3> QED BY <3>2, <3>3, <3>7
  <2>3. OneAtATime
    BY <2>2 DEF OneAtATime
  <2>4. LaneOrder
    BY <2>1 DEF LaneOrder, OverBefore, At
  <2> QED BY <2>3, <2>4 DEF LanesSerial
<1> QED BY <1>1, Invariance, PTL

(* However a request ends, its caller hears once and its slot is given     *)
(* back.  (answerer, takeCallSlot, freeCallSlot, Discard.)                 *)
THEOREM RequestsEndExactly == Spec => []EndsExactly
<1>1. IInv => EndsExactly
  BY DEF IInv, Slots, EndsExactly
<1> QED BY <1>1, Invariance, PTL

(* A Quiesce that waits has cancelled whatever runs, and one that says it  *)
(* stopped everything has: nothing runs on any lane, known to it or not.   *)
(* (Quiesce, Call's check of closing, lane.quiesce, next.)                 *)
THEOREM QuietIsQuiet == Spec => []QuiescedIsQuiet
<1>1. IInv => QuiescedIsQuiet
  BY DEF IInv, Quieting, QuiescedIsQuiet
<1> QED BY <1>1, Invariance, PTL

-----------------------------------------------------------------------------
(* What waits is looked after.                                             *)

InQueue(r) == \E l \in Lanes : \E i \in 1..Len(lane[l].q) : lane[l].q[i] = r
Dropped(r) == \E i \in 1..Len(quiescer.drop) : quiescer.drop[i] = r

\* A caller holds a lane only between two critical sections of laneFor and push; a lane
\* that is not yet in a map has its caller; what is queued is in a queue or in the hands
\* of shutdown; and shutdown's hands are empty before and after.
HeldInHand == \A r \in Reqs : req[r].lane # NoLane => req[r].pc \in {"insert", "push", "forget"}
FreshHeld  == \A l \in Lanes : lane[l].pc = "fresh" =>
                 \E r \in Reqs : req[r].pc = "insert" /\ req[r].lane = l
QueuedHeld == \A r \in Reqs : req[r].pc = "queued" => InQueue(r) \/ Dropped(r)
QuietHeld  == /\ quiescer.pc # "discard" => quiescer.drop = << >>
              /\ quiescer.pc \in {"idle", "stopped", "grace"} =>
                    quiescer.lanes = {} /\ quiescer.todo = {}
LookedAfter == HeldInHand /\ FreshHeld /\ QueuedHeld /\ QuietHeld

\* The queues keep what is in them, but for r.
QueuesKeep(r) == \A q \in Reqs : q # r /\ InQueue(q) => InQueue(q)'

\* It is kept when one request moves and nothing is lost behind it.
LEMMA MoveKeeps ==
    ASSUME LookedAfter, NEW r \in Reqs, NEW pc, NEW l, NEW b, ReqStep(r, pc, l, b),
           quiescer' = quiescer, QueuesKeep(r),
           l # NoLane => pc \in {"insert", "push", "forget"},
           pc = "queued" => InQueue(r)' \/ Dropped(r),
           \A m \in Lanes : lane'[m].pc = "fresh" =>
               \/ lane[m].pc = "fresh" /\ ~(req[r].pc = "insert" /\ req[r].lane = m)
               \/ pc = "insert" /\ l = m
    PROVE  LookedAfter'
<1>1. HeldInHand' BY DEF LookedAfter, HeldInHand, ReqStep
<1>2. FreshHeld'
  <2> SUFFICES ASSUME NEW m \in Lanes, lane'[m].pc = "fresh"
      PROVE \E q \in Reqs : req'[q].pc = "insert" /\ req'[q].lane = m BY DEF FreshHeld
  <2>1. CASE pc = "insert" /\ l = m BY <2>1 DEF ReqStep
  <2>2. CASE lane[m].pc = "fresh" /\ ~(req[r].pc = "insert" /\ req[r].lane = m)
    <3>1. PICK q \in Reqs : req[q].pc = "insert" /\ req[q].lane = m BY <2>2 DEF LookedAfter, FreshHeld
    <3>2. q # r BY <2>2, <3>1
    <3> QED BY <3>1, <3>2 DEF ReqStep
  <2> QED BY <2>1, <2>2
<1>3. QueuedHeld'
  <2> SUFFICES ASSUME NEW q \in Reqs, req'[q].pc = "queued" PROVE (InQueue(q) \/ Dropped(q))'
    BY DEF QueuedHeld
  <2>1. Dropped(q)' <=> Dropped(q) BY DEF Dropped
  <2>2. CASE q = r BY <2>1, <2>2 DEF ReqStep
  <2>3. CASE q # r
    <3>1. InQueue(q) \/ Dropped(q) BY <2>3 DEF LookedAfter, QueuedHeld, ReqStep
    <3> QED BY <2>1, <2>3, <3>1 DEF QueuesKeep
  <2> QED BY <2>2, <2>3
<1>4. QuietHeld' BY DEF LookedAfter, QuietHeld
<1> QED BY <1>1, <1>2, <1>3, <1>4 DEF LookedAfter

\* It is kept when no request moves: the lanes keep their queues, and so does shutdown.
LEMMA AsideKeeps ==
    ASSUME LookedAfter, req' = req, quiescer'.drop = quiescer.drop, QuietHeld',
           \A m \in Lanes : lane'[m].q = lane[m].q,
           \A m \in Lanes : lane'[m].pc = "fresh" => lane[m].pc = "fresh"
    PROVE  LookedAfter'
<1>1. HeldInHand' BY DEF LookedAfter, HeldInHand
<1>2. FreshHeld' BY DEF LookedAfter, FreshHeld
<1>3. QueuedHeld' BY DEF LookedAfter, QueuedHeld, InQueue, Dropped
<1> QED BY <1>1, <1>2, <1>3 DEF LookedAfter

\* Queues that are what they were keep what is in them.
LEMMA SameQueues ==
    ASSUME \A m \in Lanes : lane'[m].q = lane[m].q, NEW r
    PROVE  QueuesKeep(r)
BY DEF QueuesKeep, InQueue

\* A caller that calls, or goes on towards a lane, keeps it;
LEMMA CallerKeeps ==
    ASSUME IInv, LookedAfter, NEW r \in Reqs,
           CallPlain(r) \/ CallOnLane(r) \/ LookUp(r) \/ Forget(r)
    PROVE  LookedAfter'
<1>0. ReqOK /\ LaneOK /\ SubOK BY DEF IInv, TypeOK
<1>1. lane' = lane /\ quiescer' = quiescer
  BY DEF CallPlain, CallOnLane, LookUp, Forget, callVars
<1>2. QueuesKeep(r) BY <1>1, SameQueues
<1>3. req[r].pc # "insert" /\ req[r].lane # NoLane => At(r, "forget")
  BY DEF CallPlain, CallOnLane, LookUp, Forget, At, LookedAfter, HeldInHand
<1>4. CASE CallPlain(r)
  <2>1. GoTo(r, "taken") \/ End(r) BY <1>4 DEF CallPlain
  <2>2. req[r].lane = NoLane BY <1>4 DEF CallPlain, At, LookedAfter, HeldInHand
  <2>3. CASE GoTo(r, "taken")
    <3>1. ReqStep(r, "taken", NoLane, req[r].before) BY <1>0, <2>2, <2>3, GoToStep DEF ReqPcs
    <3> QED BY <1>1, <1>2, <1>3, <1>4, <3>1, MoveKeeps DEF CallPlain, At
  <2>4. CASE End(r)
    <3>1. ReqStep(r, "done", NoLane, {}) BY <1>0, <2>4, EndStep
    <3> QED BY <1>1, <1>2, <1>4, <3>1, MoveKeeps DEF CallPlain, At
  <2> QED BY <2>1, <2>3, <2>4
<1>5. CASE CallOnLane(r)
  <2>1. req[r].lane = NoLane /\ req[r].pc = "new" BY <1>5 DEF CallOnLane, At, LookedAfter, HeldInHand
  <2>2. Accepted(r) \in SUBSET Reqs BY DEF Accepted, Siblings
  <2>3. ReqStep(r, "look", NoLane, Accepted(r)) BY <1>0, <1>5, <2>1, <2>2, BeginStep DEF CallOnLane
  <2> QED BY <1>1, <1>2, <2>1, <2>3, MoveKeeps
<1>6. CASE LookUp(r)
  <2>1. req[r].pc = "look" BY <1>6 DEF LookUp, At
  <2>2. CASE End(r)
    <3>1. ReqStep(r, "done", NoLane, {}) BY <1>0, <2>2, EndStep
    <3> QED BY <1>1, <1>2, <2>1, <3>1, MoveKeeps
  <2>3. ASSUME NEW l \in Lanes \cup {NoLane}, With(r, IF l = NoLane THEN "open" ELSE "push", l)
        PROVE LookedAfter'
    <3> DEFINE pc == IF l = NoLane THEN "open" ELSE "push"
    <3>1. pc \in ReqPcs BY DEF ReqPcs
    <3>2. pc # "queued" /\ (l # NoLane => pc \in {"insert", "push", "forget"}) OBVIOUS
    <3>3. With(r, pc, l) BY <2>3
    <3> HIDE DEF pc
    <3>4. ReqStep(r, pc, l, req[r].before) BY <1>0, <3>1, <3>3, WithStep
    <3> QED BY <1>1, <1>2, <2>1, <3>2, <3>4, MoveKeeps
  <2>4. sub[SubOf[r]].lanes[PaneOf[r]] \in Lanes \cup {NoLane}
    <3>1. OnLane(r) BY <2>1 DEF IInv, InHand, HandOf, Accepting
    <3> QED BY <1>0, <3>1, CallBounds DEF SubOK, SubRec, OnLane
  <2> QED BY <1>6, <2>2, <2>3, <2>4 DEF LookUp
<1>7. CASE Forget(r)
  <2>1. req[r].pc = "forget" BY <1>7 DEF Forget, At
  <2>2. CASE End(r)
    <3>1. ReqStep(r, "done", NoLane, {}) BY <1>0, <2>2, EndStep
    <3> QED BY <1>1, <1>2, <2>1, <3>1, MoveKeeps
  <2>3. CASE req' = [req EXCEPT ![r] = [@ EXCEPT !.tries = req[r].tries - 1, !.pc = "look", !.lane = NoLane]]
    <3>1. ReqStep(r, "look", NoLane, req[r].before)
      <4> DEFINE n == req[r].tries - 1
                 Q == [req[r] EXCEPT !.tries = n]
                 R == [Q EXCEPT !.pc = "look", !.lane = NoLane]
      <4>1. req' = [req EXCEPT ![r] = R] BY <1>0, <2>3 DEF ReqOK
      <4>2. n \in Int BY <1>0 DEF ReqOK, ReqRec
      <4> HIDE DEF n
      <4>4. Q \in ReqRec /\ Q.before = req[r].before BY <1>0, <4>2 DEF ReqOK, ReqRec
      <4> HIDE DEF Q
      <4>3. R \in ReqRec /\ R.pc = "look" /\ R.lane = NoLane /\ R.before = req[r].before
        BY <4>4 DEF ReqRec, ReqPcs
      <4> HIDE DEF R
      <4> QED BY <1>0, <4>1, <4>3 DEF ReqOK, ReqStep
    <3> QED BY <1>1, <1>2, <2>1, <3>1, MoveKeeps
  <2> QED BY <1>7, <2>2, <2>3 DEF Forget
<1> QED BY <1>4, <1>5, <1>6, <1>7

\* so does one that opens a lane, puts it in the map, or pushes;
LEMMA OpenerKeeps ==
    ASSUME IInv, LookedAfter, NEW r \in Reqs, OpenLane(r) \/ InsertLane(r)
    PROVE  LookedAfter'
<1>0. ReqOK /\ LaneOK /\ SubOK /\ TypeOK BY DEF IInv, TypeOK
<1>1. quiescer' = quiescer BY DEF OpenLane, InsertLane
<1>2. CASE OpenLane(r)
  <2>1. req[r].pc = "open" BY <1>2 DEF OpenLane, At
  <2>2. CASE End(r) /\ lane' = lane
    <3>1. ReqStep(r, "done", NoLane, {}) BY <1>0, <2>2, EndStep
    <3>2. QueuesKeep(r) BY <2>2, SameQueues
    <3> QED BY <1>1, <2>1, <2>2, <3>1, <3>2, MoveKeeps
  <2>3. ASSUME NEW l \in Lanes, Unused(l), With(r, "insert", l),
               lane' = [lane EXCEPT ![l] = [NoneLane EXCEPT !.pc = "fresh", !.key = Key(r)]]
        PROVE  LookedAfter'
    <3>1. ReqStep(r, "insert", l, req[r].before) BY <1>0, <2>3, WithStep DEF ReqPcs
    <3>2. \A m \in Lanes : m # l => lane'[m] = lane[m] BY <1>0, <2>3 DEF LaneOK
    <3>3. lane[l].q = << >> BY <2>3 DEF IInv, LaneStands, Unused, Live
    <3>4. QueuesKeep(r)
      <4>1. \A m \in Lanes : Len(lane[m].q) > 0 => lane'[m].q = lane[m].q BY <3>2, <3>3
      <4>2. \A m \in Lanes : \A i \in 1..Len(lane[m].q) : lane'[m].q = lane[m].q
        <5> SUFFICES ASSUME NEW m \in Lanes, NEW i \in 1..Len(lane[m].q) PROVE lane'[m].q = lane[m].q OBVIOUS
        <5>1. Len(lane[m].q) \in Nat BY <1>0 DEF LaneOK, LaneRec
        <5> QED BY <4>1, <5>1
      <4> QED BY <4>2 DEF QueuesKeep, InQueue
    <3>5. NoLane # l BY CallBounds
    <3> QED BY <1>1, <2>1, <3>1, <3>2, <3>4, <3>5, MoveKeeps
  <2> QED BY <1>2, <2>2, <2>3 DEF OpenLane
<1>3. CASE InsertLane(r)
  <2> DEFINE l == req[r].lane
  <2>1. /\ req[r].pc = "insert" /\ l \in Lanes /\ lane[l].pc = "fresh" /\ OnLane(r)
    BY <1>3 DEF InsertLane, At, IInv, InHand, HandOf, Accepting
  <2>2. lane[l].q = << >> BY <2>1 DEF IInv, LaneStands, Live
  <2>3. /\ lane'[l].pc # "fresh" /\ lane'[l].q = << >> /\ \A m \in Lanes : m # l => lane'[m] = lane[m]
    <3>1. CASE lane' = [lane EXCEPT ![l].pc = "look"]
      <4>1. LaneStep(l, "look", lane[l].q, lane[l].run, lane[l].quiesced, lane[l].retired)
        BY <1>0, <2>1, <3>1, DrainerStep DEF LanePcs
      <4> QED BY <2>2, <4>1 DEF LaneStep
    <3>2. CASE lane' = [lane EXCEPT ![l] = Dead] BY <1>0, <2>1, <3>2, DeadStep
    <3> QED BY <1>3, <3>1, <3>2 DEF InsertLane
  <2>4. QueuesKeep(r)
    <3>1. \A m \in Lanes : lane'[m].q = lane[m].q BY <2>2, <2>3
    <3> QED BY <3>1, SameQueues
  <2>5. \E pc \in {"push", "done"} : \E h, b : ReqStep(r, pc, h, b) /\ (h # NoLane => pc = "push")
    <3>1. CASE GoTo(r, "push") BY <1>0, <3>1, GoToStep DEF ReqPcs
    <3>2. CASE End(r) BY <1>0, <3>2, EndStep
    <3>3. CASE With(r, "push", sub[SubOf[r]].lanes[PaneOf[r]])
      <4>1. sub[SubOf[r]].lanes[PaneOf[r]] \in Lanes \cup {NoLane}
        BY <1>0, <2>1, CallBounds DEF SubOK, SubRec, OnLane
      <4> QED BY <1>0, <3>3, <4>1, WithStep DEF ReqPcs
    <3> QED BY <1>3, <3>1, <3>2, <3>3 DEF InsertLane
  <2>51. PICK pc \in {"push", "done"} : \E h, b : ReqStep(r, pc, h, b) /\ (h # NoLane => pc = "push") BY <2>5
  <2>6. PICK h, b : ReqStep(r, pc, h, b) /\ (h # NoLane => pc = "push") BY <2>51
  <2>7. \A m \in Lanes : lane'[m].pc = "fresh" =>
          lane[m].pc = "fresh" /\ ~(req[r].pc = "insert" /\ req[r].lane = m) BY <2>3
  <2> HIDE DEF l
  <2> QED BY <1>1, <2>4, <2>6, <2>7, MoveKeeps
<1> QED BY <1>2, <1>3

\* so does a push, to whatever lane it is;
LEMMA PushKeeps ==
    ASSUME IInv, LookedAfter, NEW r \in Reqs, Push(r)
    PROVE  LookedAfter'
<1> DEFINE l == req[r].lane
<1>0. /\ ReqOK /\ LaneOK /\ quiescer' = quiescer /\ req[r].pc = "push" /\ l \in Lanes
  BY DEF IInv, TypeOK, Push, At, InHand, HandOf
<1>1. CASE lane' = lane /\ (GoTo(r, "forget") \/ End(r))
  <2>1. QueuesKeep(r) BY <1>1, SameQueues
  <2>2. ReqStep(r, "forget", l, req[r].before) \/ ReqStep(r, "done", NoLane, {})
    BY <1>0, <1>1, GoToStep, EndStep DEF ReqPcs
  <2> HIDE DEF l
  <2> QED BY <1>0, <1>1, <2>1, <2>2, MoveKeeps
<1>2. CASE /\ lane' = [lane EXCEPT ![l] = [@ EXCEPT !.q = Append(lane[l].q, r), !.wake = TRUE]]
           /\ req' = [req EXCEPT ![r] = [Over EXCEPT !.pc = "queued", !.before = req[r].before]]
  <2> HIDE DEF l
  <2>1. lane[l].q \in Seq(Reqs) BY <1>0 DEF LaneOK, LaneRec
  <2>2. ReqStep(r, "queued", NoLane, req[r].before)
    <3> DEFINE b == req[r].before
               Q == [Over EXCEPT !.pc = "queued"]
               R == [Q EXCEPT !.before = b]
    <3>1. req' = [req EXCEPT ![r] = R] BY <1>2
    <3>2. Q \in ReqRec /\ Q.pc = "queued" /\ Q.lane = NoLane /\ b \in SUBSET Reqs
      BY <1>0, CallBounds DEF Over, ReqOK, ReqRec, ReqPcs
    <3> HIDE DEF Q, b
    <3>3. R \in ReqRec /\ R.pc = Q.pc /\ R.lane = Q.lane /\ R.before = b BY <3>2 DEF ReqRec
    <3> HIDE DEF R
    <3> QED BY <1>0, <3>1, <3>2, <3>3 DEF ReqOK, ReqStep, b
  <2>3. lane'[l].q = Append(lane[l].q, r) /\ \A m \in Lanes : m # l => lane'[m] = lane[m]
    BY <1>0, <1>2 DEF LaneOK, LaneRec
  <2>4. lane'[l].pc = lane[l].pc BY <1>0, <1>2 DEF LaneOK, LaneRec
  <2>5. /\ Len(lane'[l].q) = Len(lane[l].q) + 1 /\ Len(lane[l].q) \in Nat
        /\ \A i \in 1..Len(lane[l].q) : lane'[l].q[i] = lane[l].q[i]
        /\ lane'[l].q[Len(lane[l].q) + 1] = r
    BY <2>1, <2>3, AppendIs
  <2>6. InQueue(r)'
    <3>1. Len(lane[l].q) + 1 \in 1..Len(lane'[l].q) BY <2>5
    <3> QED BY <1>0, <2>5, <3>1 DEF InQueue
  <2>7. QueuesKeep(r)
    <3> SUFFICES ASSUME NEW q \in Reqs, InQueue(q) PROVE InQueue(q)' BY DEF QueuesKeep
    <3>1. PICK m \in Lanes : \E i \in 1..Len(lane[m].q) : lane[m].q[i] = q BY DEF InQueue
    <3>2. PICK i \in 1..Len(lane[m].q) : lane[m].q[i] = q BY <3>1
    <3>3. CASE m = l
      <4>1. i \in 1..Len(lane'[l].q) BY <2>5, <3>2, <3>3
      <4> QED BY <1>0, <2>5, <3>2, <3>3, <4>1 DEF InQueue
    <3>4. CASE m # l BY <2>3, <3>1, <3>2, <3>4 DEF InQueue
    <3> QED BY <3>3, <3>4
  <2>8. \A m \in Lanes : lane'[m].pc = "fresh" => lane[m].pc = "fresh" BY <2>3, <2>4
  <2> QED BY <1>0, <2>2, <2>6, <2>7, <2>8, MoveKeeps
<1> QED BY <1>1, <1>2 DEF Push

\* so does the start and the end of an op;
LEMMA OpKeeps ==
    ASSUME IInv, LookedAfter, NEW r \in Reqs, Enter(r) \/ Return(r) \/ Finish(r)
    PROVE  LookedAfter'
<1>0. /\ ReqOK /\ LaneOK /\ quiescer' = quiescer /\ req[r].pc \in Delivered
  BY DEF IInv, TypeOK, Enter, Return, Finish, At, runVars, Delivered
<1>1. req[r].lane = NoLane /\ req[r].pc # "insert" BY <1>0 DEF LookedAfter, HeldInHand, Delivered
<1>2. \E pc \in {"returned", "running", "done"} : \E b : ReqStep(r, pc, NoLane, b)
  <2>1. CASE GoTo(r, "returned") BY <1>0, <1>1, <2>1, GoToStep DEF ReqPcs
  <2>2. CASE GoTo(r, "running") BY <1>0, <1>1, <2>2, GoToStep DEF ReqPcs
  <2>3. CASE End(r) BY <1>0, <2>3, EndStep
  <2> QED BY <2>1, <2>2, <2>3 DEF Enter, Return, Finish
<1>3. \A m \in Lanes : lane'[m].q = lane[m].q /\ (lane'[m].pc = "fresh" => lane[m].pc = "fresh")
  <2>1. CASE lane' = lane BY <2>1
  <2>2. CASE lane' = [l \in Lanes |-> IF lane[l].run = r
                          THEN [lane[l] EXCEPT !.run = NoReq, !.pc = "look"] ELSE lane[l]]
    <3> SUFFICES ASSUME NEW m \in Lanes
        PROVE lane'[m].q = lane[m].q /\ (lane'[m].pc = "fresh" => lane[m].pc = "fresh") OBVIOUS
    <3>1. lane[m] \in LaneRec BY <1>0 DEF LaneOK
    <3>2. lane'[m] = [lane[m] EXCEPT !.run = NoReq, !.pc = "look"] \/ lane'[m] = lane[m] BY <2>2
    <3> QED BY <3>1, <3>2 DEF LaneRec
  <2> QED BY <2>1, <2>2 DEF Enter, Return, Finish
<1>4. QueuesKeep(r) BY <1>3, SameQueues
<1> QED BY <1>0, <1>1, <1>2, <1>3, <1>4, MoveKeeps

\* so does next, which takes the head of a queue;
LEMMA TakeKeeps ==
    ASSUME IInv, LookedAfter, NEW l \in Lanes, Take(l)
    PROVE  LookedAfter'
<1> DEFINE h == Head(lane[l].q)
<1>1. /\ LaneOK /\ ReqOK /\ lane[l].q \in Seq(Reqs) /\ lane[l].q # << >> /\ GoTo(h, "taken")
      /\ lane' = [lane EXCEPT ![l] = [@ EXCEPT !.q = Tail(lane[l].q), !.run = h, !.pc = "run"]]
      /\ quiescer' = quiescer
  BY DEF IInv, TypeOK, Take, LaneOK, LaneRec, drainVars
<1>2. /\ Len(Tail(lane[l].q)) = Len(lane[l].q) - 1 /\ Len(lane[l].q) \in Nat \ {0}
      /\ \A i \in 1..(Len(lane[l].q) - 1) : Tail(lane[l].q)[i] = lane[l].q[i + 1]
      /\ h = lane[l].q[1] /\ h \in Reqs
  BY <1>1, TailIs
<1> HIDE DEF h
<1>3. lane'[l].q = Tail(lane[l].q) /\ lane'[l].pc = "run" /\ \A m \in Lanes : m # l => lane'[m] = lane[m]
  BY <1>1 DEF LaneOK, LaneRec
<1>4. req[h].pc = "queued"
  <2>1. 1 \in 1..Len(lane[l].q) BY <1>2
  <2> QED BY <1>2, <2>1 DEF IInv, Items, QueuedOnce
<1>5. ReqStep(h, "taken", NoLane, req[h].before)
  <2>1. req[h].lane = NoLane BY <1>2, <1>4 DEF LookedAfter, HeldInHand
  <2> QED BY <1>1, <1>2, <2>1, GoToStep DEF ReqPcs
<1>6. QueuesKeep(h)
  <2> SUFFICES ASSUME NEW q \in Reqs, q # h, InQueue(q) PROVE InQueue(q)' BY DEF QueuesKeep
  <2>1. PICK m \in Lanes : \E i \in 1..Len(lane[m].q) : lane[m].q[i] = q BY DEF InQueue
  <2>2. PICK i \in 1..Len(lane[m].q) : lane[m].q[i] = q BY <2>1
  <2>3. CASE m = l
    <3>1. i # 1 BY <1>2, <2>2, <2>3
    <3>2. i - 1 \in 1..(Len(lane[l].q) - 1) /\ (i - 1) + 1 = i BY <1>2, <2>2, <2>3, <3>1
    <3>3. lane'[l].q[i - 1] = q /\ i - 1 \in 1..Len(lane'[l].q) BY <1>2, <1>3, <2>2, <2>3, <3>2
    <3> QED BY <3>3 DEF InQueue
  <2>4. CASE m # l BY <1>3, <2>1, <2>2, <2>4 DEF InQueue
  <2> QED BY <2>3, <2>4
<1> QED BY <1>1, <1>2, <1>3, <1>4, <1>5, <1>6, MoveKeeps

\* so does what moves no request;
LEMMA OthersKeep ==
    ASSUME IInv, LookedAfter,
           \/ \E l \in Lanes : \/ Idle(l) \/ WakeUp(l) \/ IdleOut(l) \/ StopLane(l)
                               \/ RetireFromSub(l) \/ RetireFromHub(l)
           \/ \E r \in Reqs : Expire(r) \/ TimeOut(r)
           \/ \E s \in Subs : Finalize(s) \/ Close(s) \/ CloseLanes(s) \/ \E l \in Lanes : CloseLane(s, l)
           \/ UNCHANGED vars
    PROVE  LookedAfter'
<1>0. LaneOK BY DEF IInv, TypeOK
<1>1. req' = req /\ quiescer' = quiescer
  BY DEF Idle, WakeUp, IdleOut, StopLane, RetireFromSub, RetireFromHub, drainVars, Expire, TimeOut, runVars,
         Finalize, Close, CloseLanes, CloseLane, leaveVars, vars
<1>2. \A m \in Lanes : lane'[m].q = lane[m].q /\ (lane'[m].pc = "fresh" => lane[m].pc = "fresh")
  <2>1. CASE lane' = lane BY <2>1
  <2>2. ASSUME NEW l \in Lanes, NEW L, lane' = [lane EXCEPT ![l] = L], L.q = lane[l].q,
               L.pc = "fresh" => lane[l].pc = "fresh"
        PROVE \A m \in Lanes : lane'[m].q = lane[m].q /\ (lane'[m].pc = "fresh" => lane[m].pc = "fresh")
    BY <1>0, <2>2 DEF LaneOK
  <2>3. ASSUME NEW l \in Lanes,
               Idle(l) \/ WakeUp(l) \/ IdleOut(l) \/ StopLane(l) \/ RetireFromSub(l) \/ RetireFromHub(l)
               \/ \E s \in Subs : CloseLane(s, l)
        PROVE \E L : lane' = [lane EXCEPT ![l] = L] /\ L.q = lane[l].q /\ (L.pc = "fresh" => lane[l].pc = "fresh")
    <3>1. lane[l] \in LaneRec BY <1>0 DEF LaneOK
    <3>2. CASE Idle(l) \/ WakeUp(l) \/ IdleOut(l) \/ StopLane(l) \/ RetireFromSub(l)
      <4> DEFINE A == [lane[l] EXCEPT !.pc = "wait"]
                 B == [lane[l] EXCEPT !.pc = "look", !.wake = FALSE]
                 C == [lane[l] EXCEPT !.pc = "retire", !.retired = TRUE]
                 D == [lane[l] EXCEPT !.pc = "look"]
                 E == [lane[l] EXCEPT !.pc = "retire2", !.cancelled = TRUE]
      <4>1. \A L \in {A, B, C, D, E} : L.q = lane[l].q /\ L.pc # "fresh" BY <3>1 DEF LaneRec
      <4>2. \E L \in {A, B, C, D, E} : lane' = [lane EXCEPT ![l] = L]
        BY <1>0, <3>2 DEF Idle, WakeUp, IdleOut, StopLane, RetireFromSub, LaneOK
      <4> HIDE DEF A, B, C, D, E
      <4> QED BY <4>1, <4>2
    <3>3. CASE RetireFromHub(l)
      <4>1. lane' = [lane EXCEPT ![l] = Dead] /\ lane[l].pc = "retire2" BY <3>3 DEF RetireFromHub
      <4>2. lane[l].q = << >> BY <4>1 DEF IInv, LaneStands, Live
      <4>3. Dead.q = << >> /\ Dead.pc = "dead" BY DEF Dead, NoneLane
      <4> QED BY <4>1, <4>2, <4>3
    <3>4. CASE \E s \in Subs : CloseLane(s, l)
      <4>1. lane' = [lane EXCEPT ![l] = [lane[l] EXCEPT !.closed = TRUE, !.wake = TRUE]]
        BY <3>4, <1>0 DEF CloseLane, LaneOK
      <4> WITNESS [lane[l] EXCEPT !.closed = TRUE, !.wake = TRUE]
      <4> QED BY <3>1, <4>1 DEF LaneRec
    <3> QED BY <2>3, <3>2, <3>3, <3>4
  <2>4. \/ lane' = lane
        \/ \E l \in Lanes : Idle(l) \/ WakeUp(l) \/ IdleOut(l) \/ StopLane(l) \/ RetireFromSub(l)
                            \/ RetireFromHub(l) \/ \E s \in Subs : CloseLane(s, l)
    BY DEF Expire, TimeOut, RunWaits, Finalize, Close, CloseLanes, leaveVars, vars
  <2> QED BY <2>1, <2>2, <2>3, <2>4
<1>3. QuietHeld' BY <1>1 DEF LookedAfter, QuietHeld
<1> QED BY <1>1, <1>2, <1>3, AsideKeeps

\* and so does shutdown.
LEMMA ShutdownKeeps ==
    ASSUME IInv, LookedAfter, QuiesceBegin \/ Quiescing
    PROVE  LookedAfter'
<1>0. ReqOK /\ LaneOK /\ quiescer \in QuietRec BY DEF IInv, TypeOK, QuietOK
<1>1. CASE QuiesceBegin \/ QuiesceCancel \/ LaneSet \/ QuiesceWait \/ QuiesceReturn
  <2>1. req' = req /\ lane' = lane
    BY <1>1 DEF QuiesceBegin, QuiesceCancel, LaneSet, QuiesceWait, QuiesceReturn, quietVars
  <2>2. quiescer.pc # "discard" BY <1>1 DEF QuiesceBegin, QuiesceCancel, LaneSet, QuiesceWait, QuiesceReturn, IInv, Quieting
  <2>3. quiescer.drop = << >> BY <2>2 DEF LookedAfter, QuietHeld
  <2>4. quiescer'.drop = quiescer.drop
    BY <1>0, <1>1 DEF QuiesceBegin, QuiesceCancel, LaneSet, QuiesceWait, QuiesceReturn, QuietRec
  <2>5. quiescer'.pc \in {"idle", "stopped", "grace"} => quiescer'.lanes = {} /\ quiescer'.todo = {}
    <3>1. CASE QuiesceReturn
      <4>1. quiescer.todo = {} BY <3>1 DEF QuiesceReturn, IInv, Quieting
      <4> QED BY <1>0, <3>1, <4>1 DEF QuiesceReturn, QuietRec
    <3>2. CASE QuiesceBegin \/ QuiesceCancel \/ LaneSet \/ QuiesceWait
      BY <1>0, <3>2 DEF QuiesceBegin, QuiesceCancel, LaneSet, QuiesceWait, QuietRec
    <3> QED BY <1>1, <3>1, <3>2
  <2>6. QuietHeld' BY <2>3, <2>4, <2>5 DEF QuietHeld
  <2> QED BY <2>1, <2>4, <2>6, AsideKeeps
<1>2. ASSUME NEW l \in Lanes, QuiesceLane(l) PROVE LookedAfter'
  <2>1. /\ quiescer.pc = "empty" /\ req' = req
        /\ quiescer' = [quiescer EXCEPT !.todo = @ \ {l}, !.pc = "discard", !.at = l, !.drop = lane[l].q]
        /\ lane' = [lane EXCEPT ![l] = [@ EXCEPT !.quiesced = TRUE, !.q = << >>]]
    BY <1>2 DEF QuiesceLane
  <2>2. quiescer.drop = << >> BY <2>1 DEF LookedAfter, QuietHeld
  <2>3. quiescer'.pc = "discard" /\ quiescer'.drop = lane[l].q BY <1>0, <2>1 DEF QuietRec
  <2>4. lane'[l].pc = lane[l].pc /\ \A m \in Lanes : m # l => lane'[m] = lane[m]
    BY <1>0, <2>1 DEF LaneOK, LaneRec
  <2>5. QueuedHeld'
    <3> SUFFICES ASSUME NEW q \in Reqs, req[q].pc = "queued" PROVE (InQueue(q) \/ Dropped(q))'
      BY <2>1 DEF QueuedHeld
    <3>1. ~Dropped(q)
      <4>1. Len(quiescer.drop) = 0 BY <2>2
      <4> QED BY <4>1 DEF Dropped
    <3>2. PICK m \in Lanes : \E i \in 1..Len(lane[m].q) : lane[m].q[i] = q BY <3>1 DEF LookedAfter, QueuedHeld, InQueue
    <3>3. CASE m = l BY <2>3, <3>2, <3>3 DEF Dropped
    <3>4. CASE m # l BY <2>4, <3>2, <3>4 DEF InQueue
    <3> QED BY <3>3, <3>4
  <2>6. HeldInHand' BY <2>1 DEF LookedAfter, HeldInHand
  <2>7. FreshHeld' BY <2>1, <2>4 DEF LookedAfter, FreshHeld
  <2>8. QuietHeld' BY <2>3 DEF QuietHeld
  <2> QED BY <2>5, <2>6, <2>7, <2>8 DEF LookedAfter
<1>3. CASE Discard
  <2>1. /\ quiescer.pc = "discard" /\ quiescer.at \in Lanes
        /\ req' = [r \in Reqs |-> IF r \in Range(quiescer.drop) THEN Over ELSE req[r]]
        /\ lane' = [lane EXCEPT ![quiescer.at] = [@ EXCEPT !.cancelled = TRUE, !.wake = TRUE]]
        /\ quiescer' = [quiescer EXCEPT !.pc = "empty", !.at = NoLane, !.drop = << >>]
    BY <1>3 DEF Discard, DoneWith, IInv, Quieting
  <2>2. quiescer'.pc = "empty" /\ quiescer'.drop = << >> BY <1>0, <2>1 DEF QuietRec
  <2>3. LaneStep(quiescer.at, lane[quiescer.at].pc, lane[quiescer.at].q, lane[quiescer.at].run,
                 lane[quiescer.at].quiesced, lane[quiescer.at].retired)
    BY <1>0, <2>1, SignalStep
  <2>4. \A m \in Lanes : lane'[m].q = lane[m].q /\ lane'[m].pc = lane[m].pc BY <2>3 DEF LaneStep
  <2>5. \A r \in Reqs : (Dropped(r) /\ req'[r] = Over) \/ (~Dropped(r) /\ req'[r] = req[r])
    <3> SUFFICES ASSUME NEW r \in Reqs
        PROVE (Dropped(r) /\ req'[r] = Over) \/ (~Dropped(r) /\ req'[r] = req[r]) OBVIOUS
    <3>1. DOMAIN quiescer.drop = 1..Len(quiescer.drop) BY <1>0 DEF QuietRec
    <3>2. r \in Range(quiescer.drop) <=> Dropped(r) BY <3>1 DEF Range, Dropped
    <3> QED BY <2>1, <3>2
  <2>6. Over.pc = "done" /\ Over.lane = NoLane BY DEF Over
  <2>7. \A r \in Reqs : Dropped(r) => req[r].pc = "queued" BY DEF Dropped, IInv, Items, DroppedOnce
  <2>8. HeldInHand' BY <2>5, <2>6 DEF LookedAfter, HeldInHand
  <2>9. FreshHeld'
    <3> SUFFICES ASSUME NEW m \in Lanes, lane'[m].pc = "fresh"
        PROVE \E r \in Reqs : req'[r].pc = "insert" /\ req'[r].lane = m BY DEF FreshHeld
    <3>1. PICK r \in Reqs : req[r].pc = "insert" /\ req[r].lane = m BY <2>4 DEF LookedAfter, FreshHeld
    <3> QED BY <2>5, <2>7, <3>1
  <2>10. QueuedHeld'
    <3> SUFFICES ASSUME NEW r \in Reqs, req'[r].pc = "queued" PROVE InQueue(r)' BY DEF QueuedHeld
    <3>1. ~Dropped(r) /\ req[r].pc = "queued" BY <2>5, <2>6
    <3>2. InQueue(r) BY <3>1 DEF LookedAfter, QueuedHeld
    <3> QED BY <2>4, <3>2 DEF InQueue
  <2>11. QuietHeld' BY <2>2 DEF QuietHeld
  <2> QED BY <2>8, <2>9, <2>10, <2>11 DEF LookedAfter
<1> QED BY <1>1, <1>2, <1>3 DEF Quiescing

\* Every step keeps it.
LEMMA LookedAfterNext == IInv /\ LookedAfter /\ [Next]_vars => LookedAfter'
<1> SUFFICES ASSUME IInv, LookedAfter, [Next]_vars PROVE LookedAfter'
  OBVIOUS
<1>1. ASSUME NEW r \in Reqs, CallPlain(r) \/ CallOnLane(r) \/ Deliver(r) PROVE LookedAfter'
  BY <1>1, CallerKeeps, OpenerKeeps, PushKeeps DEF Deliver
<1>2. ASSUME NEW r \in Reqs, Ending(r) \/ Return(r) PROVE LookedAfter'
  BY <1>2, OpKeeps DEF Ending
<1>3. ASSUME NEW l \in Lanes, Drain(l) \/ IdleOut(l) PROVE LookedAfter'
  BY <1>3, TakeKeeps, OthersKeep DEF Drain
<1> QED BY <1>1, <1>2, <1>3, OthersKeep, ShutdownKeeps DEF Next

\* At rest nothing that goes on by itself can take a step.
LEMMA RestsAtRest ==
    ASSUME AtRest
    PROVE  ~Running
<1>1. ASSUME NEW r \in Reqs PROVE ~(Deliver(r) \/ Ending(r) \/ TimeOut(r))
  BY DEF AtRest, Deliver, LookUp, OpenLane, InsertLane, Push, Forget, Ending, Enter, Finish, TimeOut, At
<1>2. ASSUME NEW l \in Lanes PROVE ~(Drain(l) \/ IdleOut(l))
  BY DEF AtRest, Drain, Take, Idle, WakeUp, StopLane, RetireFromSub, RetireFromHub, IdleOut, Looking
<1>3. ASSUME NEW s \in Subs PROVE ~(CloseLanes(s) \/ \E l \in Lanes : CloseLane(s, l))
  BY DEF AtRest, CloseLanes, CloseLane
<1>4. ~Quiescing
  BY DEF AtRest, Quiescing, QuiesceCancel, LaneSet, Discard, QuiesceWait, QuiesceReturn, QuiesceLane
<1> QED BY <1>1, <1>2, <1>3, <1>4 DEF Running

(* NothingIsStranded, for any number of requests, connections, panes and   *)
(* lanes: when all that goes on by itself has come to its end, what was    *)
(* accepted has been answered, and behind ops that never return a shutdown *)
(* has returned and told what was queued.  (push, idleOut, next, retire,   *)
(* quiesce, Quiesce.)                                                      *)
THEOREM NobodyIsStranded == Spec => []NothingIsStranded
<1>1. Init => LookedAfter
  <2> SUFFICES ASSUME Init PROVE LookedAfter
    OBVIOUS
  <2>1. \A r \in Reqs : req[r].pc = "new" /\ req[r].lane = NoLane BY DEF Init
  <2>2. \A l \in Lanes : lane[l].pc = "none" BY DEF Init, NoneLane
  <2>3. quiescer.drop = << >> /\ quiescer.lanes = {} /\ quiescer.todo = {} BY DEF Init
  <2> QED BY <2>1, <2>2, <2>3 DEF LookedAfter, HeldInHand, FreshHeld, QueuedHeld, QuietHeld
<1>2. IInv /\ LookedAfter => NothingIsStranded
  <2> SUFFICES ASSUME IInv, LookedAfter, AtRest PROVE
         /\ (\A r \in Reqs : ~At(r, "running")) =>
              hubLanes = {} /\ \A r \in Reqs : ~At(r, "new") => answers[r] # << >>
         /\ closing =>
              /\ quiescer.pc \in {"stopped", "grace"}
              /\ \A r \in Reqs : At(r, "queued") => answers[r] # << >>
    BY DEF NothingIsStranded, OpsAtRest
  <2>1. \A l \in Lanes : lane[l].pc \in {"none", "dead", "run"}
    <3> SUFFICES ASSUME NEW l \in Lanes PROVE lane[l].pc \in {"none", "dead", "run"} OBVIOUS
    <3>1. lane[l].pc \in LanePcs BY DEF IInv, TypeOK, LaneOK, LaneRec
    <3>2. lane[l].pc # "fresh" BY DEF LookedAfter, FreshHeld, AtRest
    <3> QED BY <3>1, <3>2 DEF LanePcs, AtRest
  <2>2. quiescer.lanes = {} /\ quiescer.todo = {} /\ quiescer.drop = << >>
    BY DEF AtRest, LookedAfter, QuietHeld
  <2>3. ASSUME NEW r \in Reqs, At(r, "queued")
        PROVE \E l \in Lanes : lane[l].pc = "run" /\ ~lane[l].quiesced
    <3>1. ~Dropped(r)
      <4>1. Len(quiescer.drop) = 0 BY <2>2
      <4> QED BY <4>1 DEF Dropped
    <3>2. PICK l \in Lanes : \E i \in 1..Len(lane[l].q) : lane[l].q[i] = r
      BY <2>3, <3>1 DEF LookedAfter, QueuedHeld, InQueue, At
    <3>3. lane[l].q # << >>
      <4>1. Len(<< >>) = 0 OBVIOUS
      <4> QED BY <3>2, <4>1
    <3>4. lane[l].pc \in Live /\ ~lane[l].quiesced BY <3>3 DEF IInv, LaneStands
    <3> QED BY <2>1, <3>4 DEF Live
  <2>4. ASSUME closing
        PROVE quiescer.pc \in {"stopped", "grace"} /\ \A r \in Reqs : ~At(r, "queued")
    <3>1. quiescer.pc \in {"stopped", "grace"} BY <2>4 DEF AtRest, IInv, Quieting
    <3>2. \A l \in hubLanes : lane[l].quiesced BY <2>2, <3>1 DEF IInv, Quieting
    <3> QED BY <2>3, <3>1, <3>2 DEF IInv, LaneStands
  <2>5. ASSUME \A r \in Reqs : ~At(r, "running")
        PROVE hubLanes = {} /\ \A r \in Reqs : ~At(r, "new") => answers[r] # << >>
    <3>1. \A l \in Lanes : lane[l].pc \in {"none", "dead"}
      <4> SUFFICES ASSUME NEW l \in Lanes, lane[l].pc = "run" PROVE FALSE BY <2>1
      <4>1. lane[l].run # NoReq BY DEF IInv, LaneStands
      <4>2. lane[l].run \in Reqs BY <4>1 DEF IInv, TypeOK, LaneOK, LaneRec
      <4>3. req[lane[l].run].pc \in Delivered BY <4>1 DEF IInv, Items, RunsOnLane
      <4> QED BY <2>5, <4>2, <4>3 DEF Delivered, AtRest, At
    <3>2. hubLanes = {} BY <3>1 DEF IInv, LaneStands, TypeOK, SetsOK
    <3>3. \A r \in Reqs : ~At(r, "queued") BY <2>3, <3>1
    <3>4. \A r \in Reqs : ~At(r, "open")
      <4> SUFFICES ASSUME NEW r \in Reqs, At(r, "open") PROVE FALSE OBVIOUS
      <4>1. PICK l \in Lanes : TRUE BY CallBounds
      <4>2. \A q \in Reqs : req[q].lane # l
        <5> SUFFICES ASSUME NEW q \in Reqs, req[q].lane = l PROVE FALSE OBVIOUS
        <5>1. l # NoLane BY CallBounds
        <5> QED BY <5>1 DEF LookedAfter, HeldInHand, AtRest
      <4>3. \A s \in Subs : \A p \in Panes : sub[s].lanes[p] # l
        <5> SUFFICES ASSUME NEW s \in Subs, NEW p \in Panes, sub[s].lanes[p] = l PROVE FALSE OBVIOUS
        <5>1. l # NoLane BY CallBounds
        <5>2. lane[l].pc \in {"look", "wait", "run", "retire"} BY <5>1 DEF IInv, Maps, MapIsLive
        <5> QED BY <3>1, <5>2
      <4>4. \A s \in Subs : l \notin leave[s].todo BY DEF AtRest
      <4>5. Unused(l) BY <2>2, <3>1, <3>2, <4>2, <4>3, <4>4 DEF Unused
      <4> QED BY <4>5 DEF AtRest
    <3>5. ASSUME NEW r \in Reqs, ~At(r, "new") PROVE answers[r] # << >>
      <4>1. req[r].pc \in ReqPcs BY DEF IInv, TypeOK, ReqOK, ReqRec
      <4>2. At(r, "done") BY <2>5, <3>3, <3>4, <3>5, <4>1 DEF AtRest, At, ReqPcs
      <4>3. Len(answers[r]) = 1 BY <4>2 DEF IInv, AnsweredOnce
      <4> QED BY <4>3
    <3> QED BY <3>2, <3>5
  <2> QED BY <2>4, <2>5
<1> QED BY <1>1, <1>2, LookedAfterNext, Invariance, PTL DEF Spec
=============================================================================
