--------------------------- MODULE FirebaseProofs ---------------------------
(***************************************************************************)
(* Theorems about FirebaseCommands over FirebaseMirror, for any commands,  *)
(* any rings and bounds and any number of restarts: an op runs once at     *)
(* most, never without a durable record, and what the database says of a   *)
(* command is true and there when it is needed.                            *)
(*                                                                         *)
(* An answer is on its way from the moment it is decided: it waits in the  *)
(* mirror (extra, while it is marked), travels in a flusher's batch (pay), *)
(* and stays in the database.  Sound says what any value at any of these   *)
(* places may claim; it stays sound whatever the rest of the system does,  *)
(* since a command that was refused is never begun again (Settled).        *)
(*                                                                         *)
(* The picture a reader of the database is owed stands on a second         *)
(* invariant (Picture), item by item: what is not marked is in the         *)
(* database, what waits would complete it, and a batch has what waits as   *)
(* long as nothing newer has been written.                                 *)
(***************************************************************************)
EXTENDS FirebaseCommands, FiniteSetTheorems, TLAPS

Ended  == {"answer", "delete", "trim", "over"}
States == {"no", "waiting", "claim", "run"} \cup Ended

\* A flusher's fields; it sends alone only what its batch has.
IsFlusher(r) ==
    /\ r = FlusherAt(r.pc, r.ops, r.pay, r.took, r.todo)
    /\ r.todo \subseteq DOMAIN r.pay

\* The mirror's variables have their shape; what they hold is of no matter here.
Shape ==
    /\ mark = [i \in Items |-> mark[i]]
    /\ extra = [e \in Extras |-> extra[e]]
    /\ db = [l \in Leaves |-> db[l]]
    /\ fl = [f \in Flushers |-> fl[f]]
    /\ \A f \in Flushers : IsFlusher(fl[f])

CommandTypes ==
    /\ start \in Nat /\ home \in [Commands -> Nat \cup {None}]
    /\ stream \in Seq(Commands) /\ completed \in Seq(Commands)
    /\ handled \subseteq Commands /\ claims \subseteq Commands /\ trimmed \subseteq Commands
    /\ cmd \in [Commands -> States]
    /\ verdict \in [Commands -> {None, "refused", "done"}]
    /\ ran \in [Commands -> Nat]

\* A command was taken, and no process will begin it any more.
Settled(c) == home[c] # None /\ (home[c] = start => cmd[c] \in Ended)

\* A process deals with the commands of its own session, each once.
Once ==
    /\ \A i \in 1..Len(stream) : home[stream[i]] = start
    /\ \A c \in Commands :
          /\ ran[c] <= 1
          /\ home[c] # None => home[c] <= start
          /\ cmd[c] # "no" => c \in handled /\ home[c] = start
          /\ ran[c] > 0 => Settled(c)

\* What a value at a result's path may say, ...
Honest(c, v) ==
    /\ v = "refused" => ran[c] = 0 /\ Settled(c)
    /\ v = "done" => ran[c] > 0
\* ... and that it is there, unless the ring has taken it off.
Kept(c, v) == v # None \/ c \in trimmed
Sound(c, v) == Honest(c, v) /\ Kept(c, v)

Answering ==
    \A c \in Commands : cmd[c] \in Ended => verdict[c] # None /\ Honest(c, verdict[c])
Carried ==
    \A c \in Commands :
        /\ mark[Result(c)] # 0 => Sound(c, extra[Result(c)])
        /\ \A f \in Flushers :
              Result(c) \in DOMAIN fl[f].pay => Sound(c, fl[f].pay[Result(c)])
OnRecord ==
    \A c \in Commands :
        /\ Honest(c, db[Result(c)])
        /\ KindOf[c] # "read" /\ (ran[c] > 0 \/ cmd[c] = "run") => Kept(c, db[Result(c)])

\* While the database refuses no path, the answer of a command is there before the
\* command is gone, or is on its way with the deletion.
Answered(c) == Kept(c, db[Result(c)])
Deleting(c) == cmd[c] = "delete" /\ ~stopped
Away(c) == home[c] # None /\ db[Command(c)] = None
Ahead(c) ==
    /\ mark[Command(c)] # 0 \/ Deleting(c) => mark[Result(c)] # 0 \/ Answered(c)
    /\ Away(c) => Answered(c)
    /\ \A f \in Flushers :
          /\ Result(c) \in DOMAIN fl[f].took => Result(c) \in DOMAIN fl[f].pay
          /\ Command(c) \in DOMAIN fl[f].pay => Result(c) \in DOMAIN fl[f].pay \/ Answered(c)
Together ==
    bad = {} =>
        /\ dropped = {}
        /\ \A f \in Flushers : fl[f].pc # "each"
        /\ \A c \in Commands : Ahead(c)

IInv == Shape /\ CommandTypes /\ Once /\ Answering /\ Carried /\ OnRecord /\ Together

-----------------------------------------------------------------------------
(* Paths and batches.                                                      *)

LEMMA Paths ==
  ASSUME NEW c \in Commands
  PROVE  /\ Result(c) \in Extras /\ Result(c) \in Items /\ Result(c) \in Leaves
         /\ Command(c) \in Extras /\ Command(c) \in Items /\ Command(c) \in Leaves
         /\ Result(c)[1] = "result" /\ Command(c)[1] = "command"
         /\ Result(c) \notin {Meta, Ops} /\ Result(c) \notin Nodes /\ Result(c) \notin Frames
         /\ Command(c) \notin {Meta, Ops} /\ Command(c) \notin Frames
         /\ \A d : Result(c) # Command(d) /\ (Result(c) = Result(d) => c = d)
         /\ \A d : Command(c) # Result(d) /\ (Command(c) = Command(d) => c = d)
BY DEF Result, Command, Extras, Items, Leaves, Meta, Ops, Nodes, Frames

LEMMA FlusherFields ==
  ASSUME NEW pc, NEW ops, NEW pay, NEW took, NEW todo, todo \subseteq DOMAIN pay
  PROVE  /\ FlusherAt(pc, ops, pay, took, todo).pay = pay
         /\ FlusherAt(pc, ops, pay, took, todo).took = took
         /\ FlusherAt(pc, ops, pay, took, todo).todo = todo
         /\ FlusherAt(pc, ops, pay, took, todo).pc = pc
         /\ IsFlusher(FlusherAt(pc, ops, pay, took, todo))
BY DEF FlusherAt, IsFlusher

LEMMA FlusherRec ==
  ASSUME NEW r, IsFlusher(r), NEW pc, NEW todo
  PROVE  /\ [r EXCEPT !.pc = pc] = FlusherAt(pc, r.ops, r.pay, r.took, r.todo)
         /\ [r EXCEPT !.todo = todo] = FlusherAt(r.pc, r.ops, r.pay, r.took, todo)
<1> DEFINE a == r.pc
           b == r.ops
           c == r.pay
           d == r.took
           e == r.todo
<1>1. r = [pc |-> a, ops |-> b, pay |-> c, took |-> d, todo |-> e]
  BY DEF IsFlusher, FlusherAt
<1> HIDE DEF a, b, c, d, e
<1>2. /\ [r EXCEPT !.pc = pc] = [pc |-> pc, ops |-> b, pay |-> c, took |-> d, todo |-> e]
      /\ [r EXCEPT !.todo = todo] = [pc |-> a, ops |-> b, pay |-> c, took |-> d, todo |-> todo]
  BY <1>1
<1> QED BY <1>2 DEF a, b, c, d, e, FlusherAt

\* The flushers' batches are what they were, but for one taken from what is marked.
FlushersKeep ==
    /\ fl' = [f \in Flushers |-> fl'[f]]
    /\ \A f \in Flushers : IsFlusher(fl'[f])
    /\ \A c \in Commands, f \in Flushers :
          Result(c) \in DOMAIN fl'[f].pay =>
            \/ Result(c) \in DOMAIN fl[f].pay /\ fl'[f].pay[Result(c)] = fl[f].pay[Result(c)]
            \/ mark[Result(c)] # 0 /\ fl'[f].pay[Result(c)] = extra[Result(c)]

LEMMA SameFlushers == Shape /\ fl' = fl => FlushersKeep
BY DEF Shape, FlushersKeep

LEMMA OneFlusher ==
  ASSUME Shape, NEW f \in Flushers, NEW r, IsFlusher(r), fl' = [fl EXCEPT ![f] = r]
  PROVE  /\ fl' = [g \in Flushers |-> fl'[g]]
         /\ fl'[f] = r /\ \A g \in Flushers : g # f => fl'[g] = fl[g]
         /\ \A g \in Flushers : IsFlusher(fl'[g])
BY DEF Shape

LEMMA SamePay ==
  ASSUME Shape, NEW f \in Flushers, NEW r, IsFlusher(r), r.pay = fl[f].pay,
         fl' = [fl EXCEPT ![f] = r]
  PROVE  FlushersKeep
BY OneFlusher DEF FlushersKeep

LEMMA NoPay ==
  ASSUME Shape, NEW f \in Flushers, NEW r, IsFlusher(r), DOMAIN r.pay = {},
         fl' = [fl EXCEPT ![f] = r]
  PROVE  FlushersKeep
<1>1. /\ fl' = [g \in Flushers |-> fl'[g]]
      /\ fl'[f] = r /\ \A g \in Flushers : g # f => fl'[g] = fl[g]
      /\ \A g \in Flushers : IsFlusher(fl'[g])
  BY OneFlusher
<1> QED BY <1>1 DEF FlushersKeep

LEMMA IdleFlusher ==
  /\ IsFlusher(Idle) /\ DOMAIN Idle.pay = {} /\ DOMAIN Idle.took = {} /\ Idle.pc = "idle"
<1>1. DOMAIN <<>> = {}
  OBVIOUS
<1> QED BY <1>1, FlusherFields DEF Idle

\* What is marked at a result's path was marked, with the same value.
MarksKeep ==
    /\ mark' = [i \in Items |-> mark'[i]] /\ extra' = [e \in Extras |-> extra'[e]]
    /\ \A c \in Commands :
          mark'[Result(c)] # 0 => mark[Result(c)] # 0 /\ extra'[Result(c)] = extra[Result(c)]

\* What the database holds at a result's path it held, or a batch brought it.
DbKeeps ==
    /\ db' = [l \in Leaves |-> db'[l]]
    /\ \A c \in Commands :
          \/ db'[Result(c)] = db[Result(c)]
          \/ \E f \in Flushers : /\ Result(c) \in DOMAIN fl[f].pay
                                 /\ db'[Result(c)] = fl[f].pay[Result(c)]

LEMMA SameMarks == Shape /\ mark' = mark /\ extra' = extra => MarksKeep
BY DEF Shape, MarksKeep

LEMMA SameDb == Shape /\ db' = db => DbKeeps
BY DEF Shape, DbKeeps

\* A command's two paths keep their marks.
Untouched ==
    \A c \in Commands : /\ mark'[Result(c)] = mark[Result(c)]
                        /\ mark'[Command(c)] = mark[Command(c)]

LEMMA OtherMarks ==
  ASSUME Shape, NEW S, \A c \in Commands : Result(c) \notin S /\ Command(c) \notin S,
         Marks(S) \/ mark' = mark, extra' = extra
  PROVE  MarksKeep /\ Untouched
<1>1. mark' = [i \in Items |-> mark'[i]]
  BY DEF Shape, Marks
<1>2. Untouched
  BY Paths DEF Marks, Untouched
<1> QED BY <1>1, <1>2 DEF MarksKeep, Untouched, Shape

\* setPathLocked of one path: a path that is dropped is left alone.
LEMMA SetOne ==
  ASSUME Shape, NEW q, NEW v, SetPaths([e \in {q} |-> v])
  PROVE  /\ mark' = [i \in Items |-> mark'[i]] /\ extra' = [e \in Extras |-> extra'[e]]
         /\ \A c \in Commands :
              mark'[Result(c)] # 0 =>
                 \/ mark[Result(c)] # 0 /\ extra'[Result(c)] = extra[Result(c)]
                 \/ Result(c) = q /\ extra'[Result(c)] = v
<1> DEFINE new == DOMAIN [e \in {q} |-> v] \ dropped
<1>1. new \subseteq {q}
  OBVIOUS
<1>2. /\ extra' = [e \in Extras |-> IF e \in new THEN [e2 \in {q} |-> v][e] ELSE extra[e]]
      /\ IF new = {} THEN UNCHANGED mark ELSE Marks(new)
  BY DEF SetPaths
<1> HIDE DEF new
<1>3. mark' = [i \in Items |-> mark'[i]]
  BY <1>2 DEF Marks, Shape
<1>4. extra' = [e \in Extras |-> extra'[e]]
  BY <1>2
<1>5. ASSUME NEW c \in Commands, mark'[Result(c)] # 0
      PROVE  \/ mark[Result(c)] # 0 /\ extra'[Result(c)] = extra[Result(c)]
             \/ Result(c) = q /\ extra'[Result(c)] = v
  <2>1. CASE Result(c) \in new
    <3>1. Result(c) = q /\ [e2 \in {q} |-> v][Result(c)] = v
      BY <1>1, <2>1
    <3>2. extra'[Result(c)] = v
      BY <1>2, <2>1, <3>1, Paths
    <3> QED BY <3>1, <3>2
  <2>2. CASE Result(c) \notin new
    <3>1. extra'[Result(c)] = extra[Result(c)]
      BY <1>2, <2>2, Paths
    <3>2. mark'[Result(c)] = mark[Result(c)]
      BY <1>2, <2>2, Paths DEF Marks
    <3> QED BY <1>5, <3>1, <3>2
  <2> QED BY <2>1, <2>2
<1> QED BY <1>3, <1>4, <1>5

LEMMA RecordMarks ==
  ASSUME Shape, RecordEvent
  PROVE  MarksKeep /\ Untouched
<1>1. CASE closed
  BY <1>1, SameMarks DEF RecordEvent, Untouched
<1>2. CASE ~closed
  <2> DEFINE seq == eventSeq + 1
             trim == seq - eventRing
             keys == {seq, trim} \ -eventRing..0
             paths == {<<"event", s>> : s \in keys}
             vals == [e \in paths |-> IF e[2] = seq THEN "event" ELSE None]
             new == paths \ dropped
  <2>1. \A c \in Commands : Result(c) \notin new /\ Command(c) \notin new
    BY DEF Result, Command
  <2>2. SetPaths(vals)
    BY <1>2 DEF RecordEvent
  <2>3. DOMAIN vals = paths
    OBVIOUS
  <2> HIDE DEF vals, paths
  <2>4. /\ extra' = [e \in Extras |-> IF e \in new THEN vals[e] ELSE extra[e]]
        /\ IF new = {} THEN UNCHANGED mark ELSE Marks(new)
    BY <2>2, <2>3 DEF SetPaths
  <2> HIDE DEF new
  <2>5. mark' = [i \in Items |-> mark'[i]] /\ extra' = [e \in Extras |-> extra'[e]]
    BY <2>4 DEF Marks, Shape
  <2>6. /\ Untouched
        /\ \A c \in Commands : extra'[Result(c)] = extra[Result(c)]
    BY <2>1, <2>4, Paths DEF Marks, Untouched
  <2> QED BY <2>5, <2>6 DEF MarksKeep, Untouched
<1> QED BY <1>1, <1>2

\* A batch is made of what is marked, with the values that wait.
Due(f) == {i \in Items \ Frames : mark[i] # 0 /\ (i = Ops => fl[f].ops # None)}
Carrying(f, shown) == (Due(f) \cup UNION {FramePaths(i[2]) : i \in shown}) \ dropped
Batch(f, shown) ==
    FlusherAt("patch", fl[f].ops, [q \in Carrying(f, shown) |-> ValueOf(q, fl[f].ops)],
              [i \in Due(f) \cup shown |-> mark[i]], {})

LEMMA TakeStep ==
  ASSUME Shape, NEW f \in Flushers, Take(f)
  PROVE  \/ fl' = [fl EXCEPT ![f] = Idle]
         \/ \E shown \in SUBSET Frames : fl' = [fl EXCEPT ![f] = Batch(f, shown)]
<1> DEFINE waiting == {i \in Frames : mark[i] # 0}
<1>1. DOMAIN fl = Flushers
  BY DEF Shape
<1>2. PICK shown \in Shown(f, waiting) :
        IF Carrying(f, shown) = {}
           THEN Over(f, "ok")
           ELSE fl' = [fl EXCEPT ![f] = Batch(f, shown)] /\ UNCHANGED final
  <2>1. PICK shown \in Shown(f, waiting) :
          LET took == Due(f) \cup shown
              paths == Carrying(f, shown)
          IN IF paths = {}
             THEN Over(f, "ok")
             ELSE /\ fl' = [fl EXCEPT ![f] =
                               FlusherAt("patch", @.ops, [q \in paths |-> ValueOf(q, @.ops)],
                                         [i \in took |-> mark[i]], {})]
                  /\ UNCHANGED final
    BY DEF Take, Due, Carrying
  <2> QED BY <1>1, <2>1 DEF Batch
<1>3. shown \subseteq Frames
  BY DEF Shown
<1> QED BY <1>2, <1>3 DEF Over

LEMMA BatchOf ==
  ASSUME Shape, NEW f \in Flushers, NEW shown \in SUBSET Frames
  PROVE  /\ IsFlusher(Batch(f, shown)) /\ Batch(f, shown).pc = "patch"
         /\ \A c \in Commands :
              /\ Result(c) \in DOMAIN Batch(f, shown).pay =>
                    mark[Result(c)] # 0 /\ Batch(f, shown).pay[Result(c)] = extra[Result(c)]
              /\ Command(c) \in DOMAIN Batch(f, shown).pay => mark[Command(c)] # 0
              /\ dropped = {} /\ mark[Result(c)] # 0 => Result(c) \in DOMAIN Batch(f, shown).pay
              /\ Result(c) \in DOMAIN Batch(f, shown).took => mark[Result(c)] # 0
<1> DEFINE paths == Carrying(f, shown)
           pay == [q \in paths |-> ValueOf(q, fl[f].ops)]
           took == [i \in Due(f) \cup shown |-> mark[i]]
<1>1. DOMAIN pay = paths /\ DOMAIN took = Due(f) \cup shown
  OBVIOUS
<1>2. ASSUME NEW c \in Commands
      PROVE  /\ Result(c) \in DOMAIN pay => mark[Result(c)] # 0 /\ pay[Result(c)] = extra[Result(c)]
             /\ Command(c) \in DOMAIN pay => mark[Command(c)] # 0
             /\ dropped = {} /\ mark[Result(c)] # 0 => Result(c) \in DOMAIN pay
             /\ Result(c) \in DOMAIN took => mark[Result(c)] # 0
  <2>1. \A i \in shown : Result(c) \notin FramePaths(i[2]) /\ Command(c) \notin FramePaths(i[2])
    BY DEF FramePaths, Result, Command
  <2>2. /\ Result(c) \in paths => mark[Result(c)] # 0
        /\ Command(c) \in paths => mark[Command(c)] # 0
    BY <2>1 DEF Carrying, Due
  <2>3. ValueOf(Result(c), fl[f].ops) = extra[Result(c)]
    BY Paths DEF ValueOf
  <2>4. Result(c) \in Due(f) <=> mark[Result(c)] # 0
    BY Paths DEF Due
  <2>5. Result(c) \notin shown
    BY Paths
  <2>6. dropped = {} /\ mark[Result(c)] # 0 => Result(c) \in paths
    BY <2>4 DEF Carrying
  <2> HIDE DEF paths
  <2> QED BY <2>2, <2>3, <2>4, <2>5, <2>6
<1>3. Batch(f, shown) = FlusherAt("patch", fl[f].ops, pay, took, {})
  BY DEF Batch
<1> HIDE DEF pay, took
<1>4. /\ IsFlusher(Batch(f, shown)) /\ Batch(f, shown).pc = "patch"
      /\ Batch(f, shown).pay = pay /\ Batch(f, shown).took = took
  BY <1>3, FlusherFields
<1> QED BY <1>2, <1>4

LEMMA TakeKeeps ==
  ASSUME Shape, NEW f \in Flushers, Take(f)
  PROVE  FlushersKeep
<1>1. CASE fl' = [fl EXCEPT ![f] = Idle]
  BY <1>1, NoPay, IdleFlusher
<1>2. ASSUME NEW shown \in SUBSET Frames, fl' = [fl EXCEPT ![f] = Batch(f, shown)]
      PROVE  FlushersKeep
  <2> DEFINE r == Batch(f, shown)
  <2>1. /\ IsFlusher(r)
        /\ \A c \in Commands : Result(c) \in DOMAIN r.pay =>
              mark[Result(c)] # 0 /\ r.pay[Result(c)] = extra[Result(c)]
    BY BatchOf
  <2>2. fl' = [fl EXCEPT ![f] = r]
    BY <1>2
  <2> HIDE DEF r
  <2>3. /\ fl' = [g \in Flushers |-> fl'[g]]
        /\ fl'[f] = r /\ \A g \in Flushers : g # f => fl'[g] = fl[g]
        /\ \A g \in Flushers : IsFlusher(fl'[g])
    BY <2>1, <2>2, OneFlusher
  <2>4. ASSUME NEW c \in Commands, NEW g \in Flushers, Result(c) \in DOMAIN fl'[g].pay
        PROVE  \/ Result(c) \in DOMAIN fl[g].pay /\ fl'[g].pay[Result(c)] = fl[g].pay[Result(c)]
               \/ mark[Result(c)] # 0 /\ fl'[g].pay[Result(c)] = extra[Result(c)]
    <3>1. CASE g = f
      BY <2>1, <2>3, <2>4, <3>1
    <3>2. CASE g # f
      BY <2>3, <2>4, <3>2
    <3> QED BY <3>1, <3>2
  <2> QED BY <2>3, <2>4 DEF FlushersKeep
<1> QED BY <1>1, <1>2, TakeStep

LEMMA LandedKeeps ==
  ASSUME Shape, NEW f \in Flushers, NEW pay, db' = Landed(db, pay),
         \A c \in Commands : Result(c) \in DOMAIN pay =>
            Result(c) \in DOMAIN fl[f].pay /\ pay[Result(c)] = fl[f].pay[Result(c)]
  PROVE  DbKeeps
<1>1. db' = [l \in Leaves |-> db'[l]]
  BY DEF Landed
<1>2. ASSUME NEW c \in Commands
      PROVE  db'[Result(c)] = IF Result(c) \in DOMAIN pay THEN pay[Result(c)] ELSE db[Result(c)]
  BY Paths DEF Landed
<1> QED BY <1>1, <1>2 DEF DbKeeps

LEMMA SweepKeeps ==
  ASSUME Shape, NEW f \in Flushers, Sweep(f)
  PROVE  MarksKeep /\ FlushersKeep
<1>1. fl' = [fl EXCEPT ![f] = Idle]
  BY DEF Sweep, Over
<1>2. /\ mark' = [i \in Items |-> IF i \in Gone(f) THEN 0 ELSE mark[i]]
      /\ extra' = [e \in Extras |-> IF e \in Gone(f) THEN None ELSE extra[e]]
  BY DEF Sweep
<1>3. MarksKeep
  BY <1>2, Paths DEF MarksKeep
<1> QED BY <1>1, <1>3, NoPay, IdleFlusher

LEMMA AloneKeeps ==
  ASSUME Shape, NEW f \in Flushers, NEW q, Alone(f, q)
  PROVE  FlushersKeep
<1> DEFINE todo == fl[f].todo \ {q}
           r == FlusherAt(fl[f].pc, fl[f].ops, fl[f].pay, fl[f].took, todo)
<1>1. fl' = [fl EXCEPT ![f] = [fl[f] EXCEPT !.todo = todo]]
  BY DEF Alone
<1>2. IsFlusher(fl[f]) /\ todo \subseteq DOMAIN fl[f].pay
  BY DEF Shape, IsFlusher
<1> HIDE DEF todo
<1>3. IsFlusher(r) /\ r.pay = fl[f].pay
  BY <1>2, FlusherFields
<1>4. [fl[f] EXCEPT !.todo = todo] = r
  BY <1>2, FlusherRec
<1>5. fl' = [fl EXCEPT ![f] = r]
  BY <1>1, <1>4
<1> HIDE DEF r
<1> QED BY <1>3, <1>5, SamePay

\* The flushers go on with the batches they have, and none begins to send alone.
SameBatches ==
    \A f \in Flushers : /\ fl'[f].pay = fl[f].pay /\ fl'[f].took = fl[f].took
                        /\ fl'[f].pc = "each" => fl[f].pc = "each"

LEMMA MoveFlusher ==
  ASSUME Shape, NEW f \in Flushers, NEW pc, pc # "each", fl' = [fl EXCEPT ![f].pc = pc]
  PROVE  FlushersKeep /\ SameBatches
<1> DEFINE r == FlusherAt(pc, fl[f].ops, fl[f].pay, fl[f].took, fl[f].todo)
<1>1. fl' = [fl EXCEPT ![f] = [fl[f] EXCEPT !.pc = pc]]
  OBVIOUS
<1>2. IsFlusher(fl[f]) /\ fl[f].todo \subseteq DOMAIN fl[f].pay
  BY DEF Shape, IsFlusher
<1>3. IsFlusher(r) /\ r.pay = fl[f].pay /\ r.took = fl[f].took /\ r.pc = pc
  BY <1>2, FlusherFields
<1>4. [fl[f] EXCEPT !.pc = pc] = r
  BY <1>2, FlusherRec
<1>5. fl' = [fl EXCEPT ![f] = r]
  BY <1>1, <1>4
<1> HIDE DEF r
<1>6. fl'[f] = r /\ \A g \in Flushers : g # f => fl'[g] = fl[g]
  BY <1>3, <1>5, OneFlusher
<1>7. SameBatches
  BY <1>3, <1>6 DEF SameBatches
<1> QED BY <1>3, <1>5, <1>7, SamePay

\* A step of the mirror carries what waits for a result's path towards the database,
\* and puts nothing of its own there.
LEMMA FlushKeeps ==
  ASSUME Shape, NEW f \in Flushers, Flush(f)
  PROVE  MarksKeep /\ FlushersKeep /\ DbKeeps
<1>1. CASE BuildOps(f)
  <2> DEFINE r == FlusherAt("take", hubOps, <<>>, <<>>, {})
  <2>1. fl' = [fl EXCEPT ![f] = r]
    BY <1>1 DEF BuildOps
  <2>2. DOMAIN <<>> = {}
    OBVIOUS
  <2>3. IsFlusher(r) /\ r.pay = <<>>
    BY FlusherFields
  <2> HIDE DEF r
  <2>4. FlushersKeep
    BY <2>1, <2>2, <2>3, NoPay
  <2> QED BY <1>1, <2>4, SameMarks, SameDb DEF BuildOps, dirty
<1>2. CASE Take(f)
  BY <1>2, TakeKeeps, SameMarks, SameDb DEF Take, dirty
<1>3. CASE PatchLands(f)
  <2>1. Sweep(f) /\ db' = Landed(db, fl[f].pay)
    BY <1>3 DEF PatchLands
  <2> QED BY <2>1, SweepKeeps, LandedKeeps
<1>4. CASE PatchRefused(f)
  <2> DEFINE r == FlusherAt("each", fl[f].ops, fl[f].pay, fl[f].took, DOMAIN fl[f].pay)
  <2>1. fl' = [fl EXCEPT ![f] = r]
    BY <1>4 DEF PatchRefused, Shape
  <2>2. IsFlusher(r) /\ r.pay = fl[f].pay
    BY FlusherFields
  <2> HIDE DEF r
  <2>3. FlushersKeep
    BY <2>1, <2>2, SamePay
  <2> QED BY <1>4, <2>3, SameMarks, SameDb DEF PatchRefused, dirty
<1>5. CASE PatchFails(f)
  <2>1. FlushersKeep
    BY <1>5, NoPay, IdleFlusher DEF PatchFails, Over
  <2>2. DbKeeps
    BY <1>5, SameDb, LandedKeeps DEF PatchFails
  <2> QED BY <1>5, <2>1, <2>2, SameMarks DEF PatchFails, dirty
<1>6. CASE AloneOver(f)
  BY <1>6, SweepKeeps, SameDb DEF AloneOver
<1>7. ASSUME NEW q \in fl[f].todo, AloneLands(f, q)
      PROVE  MarksKeep /\ FlushersKeep /\ DbKeeps
  <2> DEFINE pay == Only(fl[f].pay, q)
  <2>1. q \in DOMAIN fl[f].pay
    BY DEF Shape, IsFlusher
  <2>2. DOMAIN pay = {q} /\ pay[q] = fl[f].pay[q]
    BY DEF Only
  <2>3. db' = Landed(db, pay)
    BY <1>7 DEF AloneLands
  <2> HIDE DEF pay
  <2>4. DbKeeps
    BY <2>1, <2>2, <2>3, LandedKeeps
  <2> QED BY <1>7, <2>4, AloneKeeps, SameMarks DEF AloneLands
<1>8. ASSUME NEW q \in fl[f].todo, AloneFails(f, q)
      PROVE  MarksKeep /\ FlushersKeep /\ DbKeeps
  BY <1>8, AloneKeeps, SameMarks, SameDb DEF AloneFails
<1>9. ASSUME NEW q \in fl[f].todo, Drop(f, q)
      PROVE  MarksKeep /\ FlushersKeep /\ DbKeeps
  <2>1. MarksKeep
    <3>1. CASE q \in Extras
      <4>1. extra' = [extra EXCEPT ![q] = None] /\ mark' = [mark EXCEPT ![q] = 0] /\ q \in Items
        BY <1>9, <3>1 DEF Drop, Items
      <4>2. DOMAIN extra = Extras /\ DOMAIN mark = Items
        BY DEF Shape
      <4> QED BY <4>1, <4>2, Paths DEF MarksKeep
    <3>2. CASE q \notin Extras
      BY <1>9, <3>2, SameMarks DEF Drop
    <3> QED BY <3>1, <3>2
  <2> QED BY <1>9, <2>1, AloneKeeps, SameDb DEF Drop
<1> QED BY <1>1, <1>2, <1>3, <1>4, <1>5, <1>6, <1>7, <1>8, <1>9 DEF Flush

Flow == MarksKeep /\ FlushersKeep /\ DbKeeps

\* A step beside the flushes leaves what is said of a command where it is.
Aside == /\ Untouched /\ SameBatches /\ db' = db /\ bad' = bad /\ dropped' = dropped
         /\ stopped => stopped'

LEMMA Unmoved == fl' = fl => SameBatches
BY DEF SameBatches

LEMMA AsideSteps ==
  ASSUME Shape, MirrorNext, \A f \in Flushers : ~Flush(f)
  PROVE  Flow /\ Aside
<1>1. CASE HubChanges \/ CloseSink \/ Stop
  BY <1>1, SameMarks, SameFlushers, SameDb, Unmoved
     DEF HubChanges, CloseSink, Stop, dirty, flow, Flow, Aside, Untouched
<1>2. ASSUME NEW p \in Panes, NEW entry \in Entries,
             Aggregate(p, entry) \/ PaneEvent(p, entry)
      PROVE  Flow /\ Aside
  <2>1. \A c \in Commands : Result(c) \notin {<<"node", p>>} /\ Command(c) \notin {<<"node", p>>}
    BY DEF Result, Command
  <2>2. Marks({<<"node", p>>}) \/ mark' = mark
    BY <1>2 DEF Aggregate, PaneEvent, MergePane
  <2>3. UNCHANGED <<extra, fl, db, bad, dropped, stopped>>
    BY <1>2 DEF Aggregate, PaneEvent, flow
  <2> QED BY <2>1, <2>2, <2>3, OtherMarks, SameFlushers, SameDb, Unmoved DEF Flow, Aside
<1>3. CASE OpsEvent \/ Heartbeat
  <2>1. \A c \in Commands : /\ Result(c) \notin {Ops} /\ Result(c) \notin {Meta}
                            /\ Command(c) \notin {Ops} /\ Command(c) \notin {Meta}
    BY Paths
  <2>2. Marks({Ops}) \/ Marks({Meta})
    BY <1>3 DEF OpsEvent, Heartbeat
  <2>3. UNCHANGED <<extra, fl, db, bad, dropped, stopped>>
    BY <1>3 DEF OpsEvent, Heartbeat, flow
  <2> QED BY <2>1, <2>2, <2>3, OtherMarks, SameFlushers, SameDb, Unmoved DEF Flow, Aside
<1>4. CASE RecordEvent
  BY <1>4, RecordMarks, SameFlushers, SameDb, Unmoved DEF RecordEvent, Flow, Aside
<1>5. ASSUME NEW p \in Panes, NEW key \in BOOLEAN, NEW lines \in [Rows -> Vals \cup {None}],
             Frame(p, key, lines)
      PROVE  Flow /\ Aside
  <2>1. \A c \in Commands : Result(c) \notin {<<"frame", p>>} /\ Command(c) \notin {<<"frame", p>>}
    BY DEF Result, Command
  <2>2. Marks({<<"frame", p>>}) \/ mark' = mark
    BY <1>5 DEF Frame
  <2>3. UNCHANGED <<extra, fl, db, bad, dropped, stopped>>
    BY <1>5 DEF Frame, flow
  <2> QED BY <2>1, <2>2, <2>3, OtherMarks, SameFlushers, SameDb, Unmoved DEF Flow, Aside
<1>6. CASE RunExits
  <2>1. UNCHANGED <<mark, extra, db, bad, dropped, stopped>>
    BY <1>6 DEF RunExits, dirty, flow
  <2>2. fl' = [fl EXCEPT !["run"].pc = "off"] /\ "run" \in Flushers
    BY <1>6 DEF RunExits, FlusherTo, Flushers
  <2> QED BY <2>1, <2>2, MoveFlusher, SameMarks, SameDb DEF Flow, Aside, Untouched
<1>7. CASE FinalFlush
  <2>1. \A c \in Commands : Result(c) \notin {Meta} /\ Command(c) \notin {Meta}
    BY Paths
  <2>2. Marks({Meta}) /\ UNCHANGED <<extra, db, bad, dropped, stopped>>
    BY <1>7 DEF FinalFlush
  <2>3. fl' = [fl EXCEPT !["final"].pc = "begin"] /\ "final" \in Flushers
    BY <1>7 DEF FinalFlush, FlusherTo, Flushers
  <2> QED BY <2>1, <2>2, <2>3, OtherMarks, MoveFlusher, SameDb DEF Flow, Aside
<1> QED BY <1>1, <1>2, <1>3, <1>4, <1>5, <1>6, <1>7 DEF MirrorNext, Written

LEMMA MirrorFlow == Shape /\ MirrorNext => Flow
BY FlushKeeps, AsideSteps DEF Flow

-----------------------------------------------------------------------------
(* The stream.                                                             *)

\* The first put shows every command that is there, once.
LEMMA BacklogType ==
  ASSUME NEW S, S \subseteq Commands
  PROVE  SetToSeq(S) \in Seq(Commands) /\ \A i \in 1..Len(SetToSeq(S)) : SetToSeq(S)[i] \in S
<1>1. IsFiniteSet(S)
  BY CommandBounds, FS_Subset
<1>2. Cardinality(S) \in Nat /\ ExistsBijection(1..Cardinality(S), S)
  BY <1>1, FS_CardinalityType
<1>3. PICK b \in [1..Cardinality(S) -> S] : IsInjective(b)
  BY <1>2 DEF ExistsBijection, Bijection, Injection, IsInjective
<1>4. SetToSeq(S) \in [1..Cardinality(S) -> S]
  BY <1>3 DEF SetToSeq
<1> HIDE DEF SetToSeq
<1>5. SetToSeq(S) \in Seq(S) /\ Len(SetToSeq(S)) = Cardinality(S)
  BY <1>2, <1>4
<1> QED BY <1>4, <1>5

\* The step is one of one command.
LEMMA HeadOfStream ==
  ASSUME CommandTypes, stream # <<>>
  PROVE  /\ Head(stream) \in Commands /\ Head(stream) = stream[1] /\ 1 \in 1..Len(stream)
         /\ Tail(stream) \in Seq(Commands)
         /\ \A i \in 1..Len(Tail(stream)) : i + 1 \in 1..Len(stream)
                                            /\ Tail(stream)[i] = stream[i+1]
BY DEF CommandTypes

LEMMA ResultRing ==
  ASSUME CommandTypes, NEW c \in Commands
  PROVE  /\ Append(completed, c) \in Seq(Commands) /\ Tail(Append(completed, c)) \in Seq(Commands)
         /\ Head(Append(completed, c)) \in Commands
<1> DEFINE s == Append(completed, c)
<1>1. s \in Seq(Commands) /\ Len(s) > 0
  BY DEF CommandTypes
<1> HIDE DEF s
<1>2. Tail(s) \in Seq(Commands) /\ Head(s) \in Commands
  BY <1>1
<1> QED BY <1>1, <1>2 DEF s

LEMMA TypesStep == CommandTypes /\ [Next]_vars => CommandTypes'
<1> SUFFICES ASSUME CommandTypes, [Next]_vars PROVE CommandTypes'
  OBVIOUS
<1>1. CASE UNCHANGED cmdVars
  BY <1>1 DEF cmdVars, CommandTypes
<1>2. CASE Connect
  <2>1. Backlog \in Seq(Commands)
    BY BacklogType DEF Backlog
  <2> QED BY <1>2, <2>1 DEF Connect, CommandTypes
<1>3. CASE Disconnect
  BY <1>3 DEF Disconnect, CommandTypes
<1>4. CASE Handle
  <2> DEFINE c == Head(stream)
  <2>1. c \in Commands /\ Tail(stream) \in Seq(Commands)
    BY <1>4, HeadOfStream DEF Handle
  <2>2. handled' = handled \cup {c} /\ stream' = Tail(stream)
        /\ UNCHANGED <<start, home, claims, completed, ran, trimmed>>
    BY <1>4 DEF Handle
  <2>3. cmd' \in [Commands -> States] /\ verdict' \in [Commands -> {None, "refused", "done"}]
    <3>1. CASE c \in handled
      BY <1>4, <3>1 DEF Handle, CommandTypes
    <3>2. CASE c \notin handled
      <4>1. \E to \in {"answer", "waiting"} : cmd' = [cmd EXCEPT ![c] = to]
        BY <1>4, <3>2 DEF Handle
      <4>2. verdict' = [verdict EXCEPT ![c] = "refused"] \/ verdict' = [verdict EXCEPT ![c] = @]
        BY <1>4, <3>2 DEF Handle
      <4>3. cmd' \in [Commands -> States]
        BY <2>1, <4>1 DEF CommandTypes, States, Ended
      <4>4. verdict' \in [Commands -> {None, "refused", "done"}]
        BY <2>1, <4>2 DEF CommandTypes
      <4> QED BY <4>3, <4>4
    <3> QED BY <3>1, <3>2
  <2> QED BY <2>1, <2>2, <2>3 DEF CommandTypes
<1>5. CASE Quiesce
  BY <1>5 DEF Quiesce, CommandTypes, States, Ended
<1>6. CASE Restart
  <2>1. <<>> \in Seq(Commands)
    OBVIOUS
  <2>2. start + 1 \in Nat
    BY DEF CommandTypes
  <2> QED BY <1>6, <2>1, <2>2 DEF Restart, CommandTypes, States
<1>7. ASSUME NEW c \in Commands, Post(c) PROVE CommandTypes'
  <2>1. Append(stream, c) \in Seq(Commands)
    BY DEF CommandTypes
  <2>2. stream' \in Seq(Commands)
    BY <1>7, <2>1 DEF Post, CommandTypes
  <2> QED BY <1>7, <2>2 DEF Post, CommandTypes, MakeSID
<1>8. ASSUME NEW c \in Commands, Execute(c) PROVE CommandTypes'
  <2>1. CASE Begin(c)
    BY <1>8, <2>1 DEF Begin, Goes, CommandTypes, States
  <2>2. CASE ClaimLands(c)
    BY <1>8, <2>2 DEF ClaimLands, Goes, CommandTypes, States
  <2>3. CASE ClaimFails(c)
    BY <1>8, <2>3 DEF ClaimFails, Answers, Goes, CommandTypes, States, Ended
  <2>4. CASE RunOp(c)
    BY <1>8, <2>4 DEF RunOp, Answers, Goes, CommandTypes, States, Ended
  <2>5. CASE WriteResult(c)
    BY <1>8, <2>5 DEF WriteResult, Goes, CommandTypes, States, Ended
  <2>6. CASE DeleteCommand(c)
    BY <1>8, <2>6 DEF DeleteCommand, Goes, CommandTypes, States, Ended
  <2>7. CASE Trim(c)
    <3> DEFINE s == Append(completed, c)
    <3>1. completed' \in Seq(Commands) /\ trimmed' \subseteq Commands
      <4>1. s \in Seq(Commands) /\ Tail(s) \in Seq(Commands) /\ Head(s) \in Commands
        BY ResultRing
      <4>2. /\ completed' = s \/ completed' = Tail(s)
            /\ trimmed' = trimmed \/ trimmed' = trimmed \cup {Head(s)}
        BY <2>7 DEF Trim
      <4> HIDE DEF s
      <4> QED BY <4>1, <4>2 DEF CommandTypes
    <3>2. cmd' \in [Commands -> States]
      BY <1>8, <2>7 DEF Trim, Goes, CommandTypes, States, Ended
    <3> QED BY <2>7, <3>1, <3>2 DEF Trim, CommandTypes
  <2> QED BY <1>8, <2>1, <2>2, <2>3, <2>4, <2>5, <2>6, <2>7 DEF Execute
<1> QED BY <1>1, <1>2, <1>3, <1>4, <1>5, <1>6, <1>7, <1>8 DEF Next, vars

\* A command that is settled is not begun again, and what ran stays run.
Calm == /\ trimmed \subseteq trimmed'
        /\ \A c \in Commands : /\ ran'[c] >= ran[c]
                               /\ Settled(c) => Settled(c)' /\ ran'[c] = ran[c]

LEMMA CalmKeeps ==
  ASSUME Calm, CommandTypes, CommandTypes', NEW c \in Commands, NEW v
  PROVE  /\ Honest(c, v) => Honest(c, v)'
         /\ Sound(c, v) => Sound(c, v)'
<1>1. /\ ran'[c] >= ran[c] /\ ran[c] \in Nat /\ ran'[c] \in Nat
      /\ Settled(c) => Settled(c)' /\ ran'[c] = ran[c]
  BY DEF Calm, CommandTypes
<1>2. Honest(c, v) => Honest(c, v)'
  <2> SUFFICES ASSUME Honest(c, v) PROVE Honest(c, v)'
    OBVIOUS
  <2>1. v = "refused" => ran'[c] = 0 /\ Settled(c)'
    BY <1>1 DEF Honest
  <2>2. v = "done" => ran'[c] > 0
    BY <1>1 DEF Honest
  <2> QED BY <2>1, <2>2 DEF Honest
<1>3. Kept(c, v) => Kept(c, v)'
  BY DEF Calm, Kept
<1> QED BY <1>2, <1>3 DEF Sound

\* How one command's state moves: none is begun twice.
Moved(c) ==
    /\ home'[c] = home[c] /\ start' = start
    /\ \/ cmd'[c] = cmd[c] /\ verdict'[c] = verdict[c] /\ ran'[c] = ran[c]
       \/ /\ cmd[c] = "no" /\ c \notin handled /\ home[c] = start /\ cmd'[c] = "waiting"
          /\ verdict'[c] = verdict[c] /\ ran'[c] = ran[c]
       \/ /\ cmd[c] = "no" /\ c \notin handled /\ home[c] = start /\ cmd'[c] = "answer"
          /\ verdict'[c] = "refused" /\ ran'[c] = ran[c]
       \/ /\ cmd[c] = "waiting" /\ cmd'[c] \in {"claim", "run"} /\ ran'[c] = ran[c]
       \/ /\ cmd[c] = "claim" /\ cmd'[c] = "run" /\ ran'[c] = ran[c]
       \/ /\ cmd[c] \in {"waiting", "claim"} /\ cmd'[c] = "answer"
          /\ verdict'[c] = "refused" /\ ran'[c] = ran[c]
       \/ /\ cmd[c] = "run" /\ cmd'[c] = "answer"
          /\ verdict'[c] = "done" /\ ran'[c] = ran[c] + 1
       \/ /\ cmd[c] \in Ended /\ cmd'[c] \in Ended
          /\ verdict'[c] = verdict[c] /\ ran'[c] = ran[c]

\* What a step that moves commands keeps.
AllMoved ==
    /\ \A c \in Commands : Moved(c) /\ (cmd[c] = "no" /\ cmd'[c] # "no" => c \in handled')
    /\ handled \subseteq handled' /\ trimmed \subseteq trimmed'
    /\ \A i \in 1..Len(stream') : home'[stream'[i]] = start'

LEMMA MovedKeeps ==
  ASSUME CommandTypes, CommandTypes', Once, Answering, AllMoved
  PROVE  Once' /\ Answering' /\ Calm
<1> SUFFICES ASSUME NEW c \in Commands
             PROVE  /\ ran'[c] <= 1
                    /\ home'[c] # None => home'[c] <= start'
                    /\ cmd'[c] # "no" => c \in handled' /\ home'[c] = start'
                    /\ ran'[c] > 0 => Settled(c)'
                    /\ cmd'[c] \in Ended => verdict'[c] # None /\ Honest(c, verdict[c])'
                    /\ ran'[c] >= ran[c]
                    /\ Settled(c) => Settled(c)' /\ ran'[c] = ran[c]
  BY DEF Once, Answering, Calm, AllMoved
<1>1. Moved(c) /\ ran[c] \in Nat /\ start \in Nat /\ cmd[c] \in States
      /\ home[c] \in Nat \cup {None}
  BY DEF CommandTypes, AllMoved
<1>2. /\ ran[c] <= 1
      /\ home[c] # None => home[c] <= start
      /\ cmd[c] # "no" => c \in handled /\ home[c] = start
      /\ ran[c] > 0 => Settled(c)
      /\ cmd[c] \in Ended => verdict[c] # None /\ Honest(c, verdict[c])
  BY DEF Once, Answering
<1>3. None # "refused" /\ None # "done" /\ None \notin Nat
  BY CommandBounds
<1>4. cmd[c] \in {"no", "waiting", "claim", "run"} => cmd[c] \notin Ended
  BY DEF Ended
<1>5. ASSUME home[c] = start, cmd[c] \notin Ended PROVE ran[c] = 0 /\ ~Settled(c)
  BY <1>1, <1>2, <1>3, <1>5 DEF Settled
<1>6. c \in handled => c \in handled'
  BY DEF AllMoved
<1>7. cmd[c] = "no" /\ cmd'[c] # "no" => c \in handled'
  BY DEF AllMoved
<1>8. CASE cmd'[c] = cmd[c] /\ verdict'[c] = verdict[c] /\ ran'[c] = ran[c]
  BY <1>1, <1>2, <1>6, <1>8 DEF Moved, Settled, Honest
<1>9. CASE cmd[c] \in Ended /\ cmd'[c] \in Ended /\ verdict'[c] = verdict[c] /\ ran'[c] = ran[c]
  BY <1>1, <1>2, <1>3, <1>6, <1>9 DEF Moved, Settled, Honest, Ended
<1>10. CASE /\ cmd[c] \notin Ended /\ cmd'[c] \in {"waiting", "claim", "run"}
           /\ home[c] = start /\ ran'[c] = ran[c] /\ c \in handled'
  BY <1>1, <1>2, <1>3, <1>5, <1>10 DEF Moved, Settled, Ended
<1>11. CASE /\ cmd[c] \notin Ended /\ cmd'[c] = "answer" /\ verdict'[c] = "refused"
           /\ home[c] = start /\ ran'[c] = ran[c] /\ c \in handled'
  BY <1>1, <1>2, <1>3, <1>5, <1>11 DEF Moved, Settled, Ended, Honest
<1>12. CASE /\ cmd[c] \notin Ended /\ cmd'[c] = "answer" /\ verdict'[c] = "done"
            /\ home[c] = start /\ ran'[c] = ran[c] + 1 /\ c \in handled'
  BY <1>1, <1>2, <1>3, <1>5, <1>12 DEF Moved, Settled, Ended, Honest
<1> QED BY <1>1, <1>2, <1>4, <1>8, <1>9, <1>10, <1>11, <1>12, <1>6, <1>7 DEF Moved

LEMMA StreamTail ==
  ASSUME CommandTypes, Once, stream # <<>>, home' = home, start' = start, stream' = Tail(stream)
  PROVE  \A i \in 1..Len(stream') : home'[stream'[i]] = start'
BY HeadOfStream DEF Once

\* Every step but a posting and a restart moves commands as Moved says.
LEMMA StepMoves ==
  ASSUME CommandTypes, Once,
         UNCHANGED cmdVars \/ Connect \/ Disconnect \/ Handle \/ Quiesce
         \/ \E c \in Commands : Execute(c)
  PROVE  AllMoved
<1>1. CASE UNCHANGED cmdVars
  BY <1>1 DEF cmdVars, AllMoved, Moved, Once
<1>2. CASE Connect
  <2>1. \A i \in 1..Len(Backlog) : home[Backlog[i]] = start
    BY BacklogType DEF Backlog, MakeSID
  <2> QED BY <1>2, <2>1 DEF Connect, AllMoved, Moved
<1>3. CASE Disconnect
  BY <1>3 DEF Disconnect, AllMoved, Moved
<1>4. CASE Handle
  <2> DEFINE c == Head(stream)
  <2>1. c \in Commands /\ home[c] = start
    BY <1>4, HeadOfStream DEF Handle, Once
  <2>2. /\ stream # <<>> /\ stream' = Tail(stream) /\ handled' = handled \cup {c}
        /\ UNCHANGED <<start, home, ran, trimmed>>
    BY <1>4 DEF Handle
  <2>3. \A i \in 1..Len(stream') : home'[stream'[i]] = start'
    BY <2>2, StreamTail
  <2>4. CASE c \in handled
    <3>1. cmd' = cmd /\ verdict' = verdict
      BY <1>4, <2>4 DEF Handle
    <3> QED BY <2>2, <2>3, <3>1 DEF AllMoved, Moved
  <2>5. CASE c \notin handled
    <3>1. \/ /\ cmd' = [cmd EXCEPT ![c] = "waiting"]
             /\ verdict' = [verdict EXCEPT ![c] = verdict[c]]
          \/ /\ cmd' = [cmd EXCEPT ![c] = "answer"]
             /\ verdict' = [verdict EXCEPT ![c] = "refused"]
      BY <1>4, <2>1, <2>5 DEF Handle, CommandTypes
    <3>2. cmd[c] = "no"
      BY <2>1, <2>5 DEF Once
    <3> HIDE DEF c
    <3>3. \A d \in Commands : Moved(d)
      BY <2>1, <2>2, <2>5, <3>1, <3>2 DEF CommandTypes, Moved
    <3>4. \A d \in Commands : cmd[d] = "no" /\ cmd'[d] # "no" => d \in handled'
      BY <2>2, <3>1 DEF CommandTypes
    <3> QED BY <2>2, <2>3, <3>3, <3>4 DEF AllMoved
  <2> QED BY <2>4, <2>5
<1>5. CASE Quiesce
  <2>1. \A d \in Commands : Moved(d)
    BY <1>5 DEF Quiesce, Moved
  <2>2. \A d \in Commands : cmd[d] = "no" => cmd'[d] = "no"
    BY <1>5 DEF Quiesce
  <2> QED BY <1>5, <2>1, <2>2 DEF Quiesce, AllMoved, Once
<1>6. ASSUME NEW c \in Commands, Execute(c) PROVE AllMoved
  <2>1. /\ UNCHANGED <<start, home, stream, handled>>
        /\ trimmed \subseteq trimmed'
    BY <1>6 DEF Execute, Begin, ClaimLands, ClaimFails, RunOp, WriteResult, DeleteCommand, Trim
  <2>2. /\ \A d \in Commands : d # c => cmd'[d] = cmd[d] /\ verdict'[d] = verdict[d] /\ ran'[d] = ran[d]
        /\ Moved(c) /\ (cmd[c] = "no" => cmd'[c] = "no")
    <3>1. CASE Begin(c)
      BY <2>1, <3>1 DEF Begin, MayBegin, Goes, CommandTypes, Moved
    <3>2. CASE ClaimLands(c)
      BY <2>1, <3>2 DEF ClaimLands, Goes, CommandTypes, Moved
    <3>3. CASE ClaimFails(c)
      BY <2>1, <3>3 DEF ClaimFails, Answers, Goes, CommandTypes, Moved
    <3>4. CASE RunOp(c)
      BY <2>1, <3>4 DEF RunOp, Answers, Goes, CommandTypes, Moved
    <3>5. CASE WriteResult(c)
      BY <2>1, <3>5 DEF WriteResult, Goes, CommandTypes, Moved, Ended
    <3>6. CASE DeleteCommand(c)
      BY <2>1, <3>6 DEF DeleteCommand, Goes, CommandTypes, Moved, Ended
    <3>7. CASE Trim(c)
      <4>1. cmd[c] = "trim" /\ cmd' = [cmd EXCEPT ![c] = "over"] /\ UNCHANGED <<verdict, ran>>
        BY <3>7 DEF Trim, Goes
      <4> QED BY <2>1, <4>1 DEF CommandTypes, Moved, Ended
    <3> QED BY <1>6, <3>1, <3>2, <3>3, <3>4, <3>5, <3>6, <3>7 DEF Execute
  <2>3. \A d \in Commands : Moved(d)
    BY <2>1, <2>2 DEF Moved
  <2>4. \A d \in Commands : cmd[d] = "no" => cmd'[d] = "no"
    BY <2>2
  <2> QED BY <2>1, <2>3, <2>4 DEF AllMoved, Once
<1> QED BY <1>1, <1>2, <1>3, <1>4, <1>5, <1>6

\* A command is posted once, and to the process that runs.
LEMMA PostKeeps ==
  ASSUME CommandTypes, CommandTypes', Once, Answering, NEW c \in Commands, Post(c)
  PROVE  Once' /\ Answering' /\ Calm
<1>1. /\ home[c] = None /\ home' = [home EXCEPT ![c] = start]
      /\ UNCHANGED <<start, handled, cmd, verdict, ran, trimmed>>
      /\ stream' = stream \/ stream' = Append(stream, c)
  BY DEF Post, MakeSID
<1>2. home'[c] = start /\ \A d \in Commands : d # c => home'[d] = home[d]
  BY <1>1 DEF CommandTypes
<1>3. start \in Nat /\ None \notin Nat
  BY CommandBounds DEF CommandTypes
<1>4. cmd[c] = "no" /\ ran[c] = 0 /\ ~Settled(c)
  BY <1>1, <1>3 DEF Once, CommandTypes, Settled
<1>5. \A i \in 1..Len(stream') : home'[stream'[i]] = start'
  <2>1. \A i \in 1..Len(stream) : stream[i] \in Commands /\ home[stream[i]] = start
    BY DEF Once, CommandTypes
  <2>2. \A i \in 1..Len(stream) : home'[stream[i]] = start
    BY <1>2, <2>1
  <2>3. CASE stream' = stream
    BY <1>1, <2>2, <2>3
  <2>4. CASE stream' = Append(stream, c)
    <3>1. stream \in Seq(Commands)
      BY DEF CommandTypes
    <3>2. \A i \in 1..Len(stream') : (i \in 1..Len(stream) /\ stream'[i] = stream[i])
                                     \/ stream'[i] = c
      BY <2>4, <3>1
    <3> QED BY <1>1, <1>2, <2>2, <3>2
  <2> QED BY <1>1, <2>3, <2>4
<1>6. \A d \in Commands : Settled(d) => d # c /\ Settled(d)'
  BY <1>1, <1>2, <1>4 DEF Settled
<1>7. Calm
  BY <1>1, <1>6 DEF Calm, CommandTypes
<1>8. ASSUME NEW d \in Commands
      PROVE  /\ ran'[d] <= 1
             /\ home'[d] # None => home'[d] <= start'
             /\ cmd'[d] # "no" => d \in handled' /\ home'[d] = start'
             /\ ran'[d] > 0 => Settled(d)'
  <2>1. CASE d = c
    BY <1>1, <1>2, <1>3, <1>4, <2>1
  <2>2. CASE d # c
    BY <1>1, <1>2, <1>6, <2>2 DEF Once
  <2> QED BY <2>1, <2>2
<1>9. Once'
  BY <1>5, <1>8 DEF Once
<1>10. ASSUME NEW d \in Commands, cmd'[d] \in Ended
       PROVE  verdict'[d] # None /\ Honest(d, verdict[d])'
  <2>1. verdict[d] # None /\ Honest(d, verdict[d]) /\ verdict'[d] = verdict[d]
    BY <1>1, <1>10 DEF Answering
  <2>2. \A v : Honest(d, v) => Honest(d, v)'
    BY <1>7, CalmKeeps
  <2> QED BY <2>1, <2>2 DEF Honest
<1>11. Answering'
  BY <1>10 DEF Answering
<1> QED BY <1>7, <1>9, <1>11

\* Another process begins no command of the one that died.
LEMMA RestartKeeps ==
  ASSUME CommandTypes, Once, Restart
  PROVE  Once' /\ Answering' /\ Calm
<1>1. /\ start' = start + 1 /\ stream' = <<>> /\ cmd' = [c \in Commands |-> "no"]
      /\ UNCHANGED <<home, ran, trimmed>>
  BY DEF Restart
<1>2. \A c \in Commands : home[c] # None => home[c] \in Nat /\ home[c] <= start
  BY DEF Once, CommandTypes
<1>3. start \in Nat
  BY DEF CommandTypes
<1>4. \A c \in Commands : Settled(c) => Settled(c)'
  BY <1>1, <1>2, <1>3 DEF Settled
<1>5. Calm
  BY <1>1, <1>4 DEF Calm, CommandTypes
<1>6. Once'
  <2>1. \A c \in Commands : ran'[c] > 0 => Settled(c)'
    BY <1>1, <1>4 DEF Once
  <2>2. \A c \in Commands : home'[c] # None => home'[c] <= start'
    BY <1>1, <1>2, <1>3
  <2> QED BY <1>1, <2>1, <2>2 DEF Once
<1>7. Answering'
  BY <1>1 DEF Answering, Ended
<1> QED BY <1>5, <1>6, <1>7

-----------------------------------------------------------------------------
(* What is said of a command stays true on its way.                        *)

\* What is marked at a result's path was marked, or is sound.
MarksSound ==
    /\ mark' = [i \in Items |-> mark'[i]] /\ extra' = [e \in Extras |-> extra'[e]]
    /\ \A c \in Commands :
          mark'[Result(c)] # 0 =>
             \/ mark[Result(c)] # 0 /\ extra'[Result(c)] = extra[Result(c)]
             \/ Sound(c, extra[Result(c)])'

\* What the database holds at a result's path it held, or a batch or a claim brought it.
DbSound ==
    /\ db' = [l \in Leaves |-> db'[l]]
    /\ \A c \in Commands :
          \/ db'[Result(c)] \in {db[Result(c)], "claimed"}
          \/ \E f \in Flushers : /\ Result(c) \in DOMAIN fl[f].pay
                                 /\ db'[Result(c)] = fl[f].pay[Result(c)]

\* An op that is about to run, or has run, was, or its claim has just landed.
RunsOn ==
    \A c \in Commands :
        KindOf[c] # "read" /\ (ran'[c] > 0 \/ cmd'[c] = "run") =>
            ran[c] > 0 \/ cmd[c] = "run" \/ db'[Result(c)] = "claimed"

Carry == MarksSound /\ FlushersKeep /\ DbSound /\ RunsOn

LEMMA CarryKeeps ==
  ASSUME CommandTypes, CommandTypes', Calm, Carried, OnRecord, Carry
  PROVE  Shape' /\ Carried' /\ OnRecord'
<1>1. Shape'
  BY DEF Carry, MarksSound, FlushersKeep, DbSound, Shape
<1>2. \A c \in Commands : \A v : /\ Honest(c, v) => Honest(c, v)'
                                 /\ Sound(c, v) => Sound(c, v)'
  BY CalmKeeps
<1>3. ASSUME NEW c \in Commands, mark'[Result(c)] # 0 PROVE Sound(c, extra[Result(c)])'
  <2>1. CASE mark[Result(c)] # 0 /\ extra'[Result(c)] = extra[Result(c)]
    <3>1. PICK v : v = extra[Result(c)]
      OBVIOUS
    <3>2. Sound(c, v)'
      BY <1>2, <2>1, <3>1 DEF Carried
    <3> QED BY <2>1, <3>1, <3>2 DEF Sound, Honest, Kept
  <2> QED BY <1>3, <2>1 DEF Carry, MarksSound
<1>4. ASSUME NEW c \in Commands, NEW f \in Flushers, Result(c) \in DOMAIN fl'[f].pay
      PROVE  Sound(c, fl[f].pay[Result(c)])'
  <2>1. PICK v : /\ v = fl'[f].pay[Result(c)]
                 /\ \/ Result(c) \in DOMAIN fl[f].pay /\ v = fl[f].pay[Result(c)]
                    \/ mark[Result(c)] # 0 /\ v = extra[Result(c)]
    BY <1>4 DEF Carry, FlushersKeep
  <2>2. Sound(c, v)'
    BY <1>2, <2>1 DEF Carried
  <2> QED BY <2>1, <2>2 DEF Sound, Honest, Kept
<1>5. Carried'
  BY <1>3, <1>4 DEF Carried
<1>6. ASSUME NEW c \in Commands
      PROVE  /\ Honest(c, db[Result(c)])'
             /\ KindOf[c] # "read" /\ (ran'[c] > 0 \/ cmd'[c] = "run") => Kept(c, db[Result(c)])'
  <2>1. CASE db'[Result(c)] = "claimed"
    BY <2>1, CommandBounds DEF Honest, Kept
  <2>2. CASE \E f \in Flushers : /\ Result(c) \in DOMAIN fl[f].pay
                                 /\ db'[Result(c)] = fl[f].pay[Result(c)]
    <3>1. PICK v : v = db'[Result(c)] /\ Sound(c, v)
      BY <2>2 DEF Carried
    <3> QED BY <1>2, <3>1 DEF Sound, Honest, Kept
  <2>3. CASE db'[Result(c)] # "claimed" /\ db'[Result(c)] = db[Result(c)]
    <3>1. PICK v : v = db[Result(c)]
      OBVIOUS
    <3>2. Honest(c, v)'
      BY <1>2, <3>1 DEF OnRecord
    <3>3. ASSUME KindOf[c] # "read", ran'[c] > 0 \/ cmd'[c] = "run" PROVE Kept(c, v)'
      BY <2>3, <3>1, <3>3 DEF OnRecord, Carry, RunsOn, Kept, Calm
    <3> QED BY <2>3, <3>1, <3>2, <3>3 DEF Honest, Kept
  <2> QED BY <2>1, <2>2, <2>3 DEF Carry, DbSound
<1>7. OnRecord'
  BY <1>6 DEF OnRecord
<1> QED BY <1>1, <1>5, <1>7

\* A step that says nothing of a command at its path.
LEMMA FlowCarries == Flow /\ RunsOn => Carry
BY DEF Flow, Carry, MarksKeep, MarksSound, DbKeeps, DbSound

LEMMA StillFlow == Shape /\ UNCHANGED mirrorVars => Flow
BY SameMarks, SameFlushers, SameDb DEF mirrorVars, dirty, Flow

\* A path is set: a result's to what is sound, or it is another's.
LEMMA SetCarries ==
  ASSUME Shape, NEW q, NEW v, SetPath(q, v), UNCHANGED <<fl, db, ran>>,
         \A c \in Commands : cmd'[c] = "run" => cmd[c] = "run",
         \A c \in Commands : q = Result(c) => Sound(c, v)'
  PROVE  Carry
<1>1. MarksSound
  <2>1. CASE stopped
    BY <2>1, SameMarks DEF SetPath, MarksKeep, MarksSound
  <2>2. CASE ~stopped
    <3>1. /\ mark' = [i \in Items |-> mark'[i]] /\ extra' = [e \in Extras |-> extra'[e]]
          /\ \A c \in Commands :
               mark'[Result(c)] # 0 =>
                 \/ mark[Result(c)] # 0 /\ extra'[Result(c)] = extra[Result(c)]
                 \/ Result(c) = q /\ extra'[Result(c)] = v
      BY <2>2, SetOne DEF SetPath
    <3>2. \A c \in Commands : extra'[Result(c)] = v /\ Sound(c, v)' => Sound(c, extra[Result(c)])'
      BY DEF Sound, Honest, Kept
    <3> QED BY <3>1, <3>2 DEF MarksSound
  <2> QED BY <2>1, <2>2
<1>2. FlushersKeep /\ DbSound
  BY SameFlushers, SameDb DEF DbKeeps, DbSound
<1> QED BY <1>1, <1>2 DEF Carry, RunsOn

-----------------------------------------------------------------------------
(* The answer and the deletion land together, or not at all.               *)

LEMMA AnsweredKeeps ==
  ASSUME CommandTypes, CommandTypes', Calm, Carried, Carry, NEW c \in Commands
  PROVE  Answered(c) => Answered(c)'
<1>1. CASE db'[Result(c)] = db[Result(c)]
  BY <1>1 DEF Answered, Kept, Calm
<1>2. CASE db'[Result(c)] = "claimed"
  BY <1>2, CommandBounds DEF Answered, Kept
<1>3. ASSUME NEW f \in Flushers, Result(c) \in DOMAIN fl[f].pay,
             db'[Result(c)] = fl[f].pay[Result(c)]
      PROVE  Answered(c)'
  BY <1>3 DEF Carried, Sound, Answered, Kept, Calm
<1> QED BY <1>1, <1>2, <1>3 DEF Carry, DbSound

StayAnswered == \A c \in Commands : Answered(c) => Answered(c)'

\* What a step does with the two paths of a command, while no path is refused.
BatchesPaired ==
    \A f \in Flushers :
        /\ fl'[f].pc # "each"
        /\ \A c \in Commands :
              /\ Result(c) \in DOMAIN fl'[f].took => Result(c) \in DOMAIN fl'[f].pay
              /\ Command(c) \in DOMAIN fl'[f].pay => Result(c) \in DOMAIN fl'[f].pay \/ Answered(c)
MarksPaired ==
    \A c \in Commands :
        /\ mark'[Command(c)] # 0 \/ Deleting(c)' =>
              mark[Command(c)] # 0 \/ Deleting(c) \/ mark'[Result(c)] # 0
        /\ mark[Result(c)] # 0 => mark'[Result(c)] # 0 \/ Answered(c)'
        /\ Away(c)' => Away(c) \/ Answered(c)'
Paired == bad' = bad /\ (bad = {} => dropped' = {} /\ BatchesPaired /\ MarksPaired)

LEMMA TogetherKeeps ==
  ASSUME Together, Paired, StayAnswered
  PROVE  Together'
<1> SUFFICES ASSUME bad = {}, NEW c \in Commands PROVE Ahead(c)'
  BY DEF Together, Paired, BatchesPaired
<1>1. Ahead(c)
  BY DEF Together
<1>2. mark'[Command(c)] # 0 \/ Deleting(c)' => mark'[Result(c)] # 0 \/ Answered(c)'
  BY <1>1 DEF Ahead, Paired, MarksPaired, StayAnswered
<1>3. Away(c)' => Answered(c)'
  BY <1>1 DEF Ahead, Paired, MarksPaired, StayAnswered
<1>4. \A f \in Flushers :
        /\ Result(c) \in DOMAIN fl'[f].took => Result(c) \in DOMAIN fl'[f].pay
        /\ Command(c) \in DOMAIN fl'[f].pay => Result(c) \in DOMAIN fl'[f].pay \/ Answered(c)'
  BY DEF Paired, BatchesPaired, StayAnswered
<1> QED BY <1>2, <1>3, <1>4 DEF Ahead

LEMMA SameBatchesPaired == Together /\ bad = {} /\ SameBatches => BatchesPaired
BY DEF Together, Ahead, SameBatches, BatchesPaired

LEMMA OneBatchPaired ==
  ASSUME Shape, Together, bad = {}, NEW f \in Flushers, NEW r, IsFlusher(r), r.pc # "each",
         fl' = [fl EXCEPT ![f] = r],
         \A c \in Commands :
            /\ Result(c) \in DOMAIN r.took => Result(c) \in DOMAIN r.pay
            /\ Command(c) \in DOMAIN r.pay => Result(c) \in DOMAIN r.pay \/ Answered(c)
  PROVE  BatchesPaired
<1>1. fl'[f] = r /\ \A g \in Flushers : g # f => fl'[g] = fl[g]
  BY OneFlusher
<1> QED BY <1>1 DEF Together, Ahead, BatchesPaired

\* A step that neither sets, sends nor sweeps a command's paths.
LEMMA StillPaired ==
  ASSUME Together, Untouched, SameBatches, bad' = bad, dropped' = dropped,
         stopped => stopped', \A c \in Commands : cmd'[c] = "delete" => cmd[c] = "delete",
         \A c \in Commands : Away(c)' => Away(c)
  PROVE  Paired
<1>1. MarksPaired
  BY DEF Untouched, MarksPaired, Deleting
<1> QED BY <1>1, SameBatchesPaired DEF Paired, Together

LEMMA IdlePaired ==
  ASSUME Shape, Together, bad = {}, NEW f \in Flushers, fl' = [fl EXCEPT ![f] = Idle]
  PROVE  BatchesPaired
BY IdleFlusher, OneBatchPaired

\* What has landed of a command has its answer.
LEMMA LandedPaired ==
  ASSUME Shape, Together, Carried, bad = {}, NEW f \in Flushers, db' = Landed(db, fl[f].pay),
         UNCHANGED <<home, trimmed>>, StayAnswered, NEW c \in Commands
  PROVE  /\ Result(c) \in DOMAIN fl[f].took => Answered(c)'
         /\ Away(c)' => Away(c) \/ Answered(c)'
<1>1. Result(c) \in DOMAIN fl[f].pay => db'[Result(c)] = fl[f].pay[Result(c)]
  BY Paths DEF Landed
<1>2. Result(c) \in DOMAIN fl[f].pay => Answered(c)'
  BY <1>1 DEF Carried, Sound, Answered, Kept
<1>3. Command(c) \notin DOMAIN fl[f].pay => db'[Command(c)] = db[Command(c)]
  BY Paths DEF Landed
<1>4. Command(c) \in DOMAIN fl[f].pay => Answered(c)'
  BY <1>2 DEF Together, Ahead, StayAnswered
<1> QED BY <1>2, <1>3, <1>4 DEF Together, Ahead, Away

LEMMA FlushPaired ==
  ASSUME Shape, Together, Carried, StayAnswered, NEW f \in Flushers, Flush(f), UNCHANGED cmdVars
  PROVE  Paired
<1>1. bad' = bad /\ stopped' = stopped /\ UNCHANGED <<home, trimmed, cmd>>
  BY DEF Flush, BuildOps, Take, PatchLands, PatchRefused, PatchFails, AloneOver, Sweep,
         AloneLands, AloneFails, Drop, Alone, flow, cmdVars
<1> SUFFICES ASSUME bad = {} PROVE dropped' = {} /\ BatchesPaired /\ MarksPaired
  BY <1>1 DEF Paired
<1>2. dropped = {} /\ fl[f].pc # "each"
  BY DEF Together
<1>3. \/ BuildOps(f) \/ Take(f) \/ PatchLands(f) \/ PatchFails(f)
  BY <1>2 DEF Flush, PatchRefused, AloneOver, AloneLands, AloneFails, Drop, Alone
<1>4. dropped' = {}
  BY <1>2, <1>3 DEF BuildOps, Take, PatchLands, PatchFails, Sweep, flow
<1>5. ASSUME mark' = mark, \A c \in Commands : Away(c)' => Away(c) \/ Answered(c)'
      PROVE  MarksPaired
  BY <1>1, <1>5 DEF MarksPaired, Deleting
<1>6. CASE BuildOps(f)
  <2> DEFINE r == FlusherAt("take", hubOps, <<>>, <<>>, {})
  <2>1. fl' = [fl EXCEPT ![f] = r]
    BY <1>6 DEF BuildOps
  <2>2. DOMAIN <<>> = {}
    OBVIOUS
  <2>3. IsFlusher(r) /\ r.pay = <<>> /\ r.took = <<>> /\ r.pc = "take"
    BY FlusherFields
  <2> HIDE DEF r
  <2>4. BatchesPaired
    BY <2>1, <2>2, <2>3, OneBatchPaired
  <2>5. mark' = mark /\ db' = db
    BY <1>6 DEF BuildOps, dirty
  <2> QED BY <1>1, <1>4, <1>5, <2>4, <2>5 DEF Away
<1>7. CASE Take(f)
  <2>1. mark' = mark /\ db' = db
    BY <1>7 DEF Take, dirty
  <2>2. ASSUME NEW shown \in SUBSET Frames, fl' = [fl EXCEPT ![f] = Batch(f, shown)]
        PROVE  BatchesPaired
    <3> DEFINE r == Batch(f, shown)
    <3>1. IsFlusher(r) /\ r.pc # "each"
      BY BatchOf
    <3>2. \A c \in Commands :
            /\ Result(c) \in DOMAIN r.took => Result(c) \in DOMAIN r.pay
            /\ Command(c) \in DOMAIN r.pay => Result(c) \in DOMAIN r.pay \/ Answered(c)
      <4> SUFFICES ASSUME NEW c \in Commands
                   PROVE  /\ Result(c) \in DOMAIN r.took => Result(c) \in DOMAIN r.pay
                          /\ Command(c) \in DOMAIN r.pay => Result(c) \in DOMAIN r.pay \/ Answered(c)
        OBVIOUS
      <4>1. /\ Command(c) \in DOMAIN r.pay => mark[Command(c)] # 0
            /\ mark[Result(c)] # 0 => Result(c) \in DOMAIN r.pay
            /\ Result(c) \in DOMAIN r.took => mark[Result(c)] # 0
        BY <1>2, BatchOf
      <4> HIDE DEF r
      <4>2. mark[Command(c)] # 0 => mark[Result(c)] # 0 \/ Answered(c)
        BY DEF Together, Ahead
      <4> QED BY <4>1, <4>2
    <3>3. fl' = [fl EXCEPT ![f] = r]
      BY <2>2
    <3> HIDE DEF r
    <3> QED BY <3>1, <3>2, <3>3, OneBatchPaired
  <2>3. BatchesPaired
    BY <1>7, <2>2, TakeStep, IdlePaired
  <2> QED BY <1>1, <1>4, <1>5, <2>1, <2>3 DEF Away
<1>8. CASE PatchLands(f)
  <2>1. /\ fl' = [fl EXCEPT ![f] = Idle] /\ db' = Landed(db, fl[f].pay)
        /\ mark' = [i \in Items |-> IF i \in Gone(f) THEN 0 ELSE mark[i]]
    BY <1>8 DEF PatchLands, Sweep, Over
  <2>2. ASSUME NEW c \in Commands
        PROVE  /\ mark'[Command(c)] # 0 => mark[Command(c)] # 0
               /\ mark[Result(c)] # 0 => mark'[Result(c)] # 0 \/ Answered(c)'
               /\ Away(c)' => Away(c) \/ Answered(c)'
    <3>1. Result(c) \in Gone(f) => Answered(c)'
      BY <1>1, <2>1, LandedPaired DEF Gone
    <3> QED BY <1>1, <2>1, <3>1, LandedPaired, Paths
  <2>3. MarksPaired
    BY <1>1, <2>2 DEF MarksPaired, Deleting
  <2> QED BY <1>4, <2>1, <2>3, IdlePaired
<1>9. CASE PatchFails(f)
  <2>1. fl' = [fl EXCEPT ![f] = Idle] /\ mark' = mark
    BY <1>9 DEF PatchFails, Over, dirty
  <2>2. db' = db \/ db' = Landed(db, fl[f].pay)
    BY <1>9 DEF PatchFails
  <2>3. \A c \in Commands : Away(c)' => Away(c) \/ Answered(c)'
    BY <1>1, <2>2, LandedPaired DEF Away
  <2> QED BY <1>4, <1>5, <2>1, <2>3, IdlePaired
<1> QED BY <1>3, <1>6, <1>7, <1>8, <1>9

\* A stamp marks: of three stamps, two flushers hold two at most.
LEMMA StampMarks ==
  ASSUME NEW i
  PROVE  NewStamp(i) # 0
<1>1. InFlight(i) \subseteq {fl["run"].took[i], fl["final"].took[i]}
  BY DEF InFlight, Flushers
<1>2. \E n \in 1..3 : n \notin InFlight(i) /\ \A m \in 1..n-1 : m \in InFlight(i)
  <2>1. CASE 1 \notin InFlight(i)
    BY <2>1
  <2>2. CASE 1 \in InFlight(i) /\ 2 \notin InFlight(i)
    <3>1. \A m \in 1..2-1 : m = 1
      OBVIOUS
    <3> QED BY <2>2, <3>1
  <2>3. CASE 1 \in InFlight(i) /\ 2 \in InFlight(i)
    <3>1. 3 \notin InFlight(i)
      BY <1>1, <2>3
    <3>2. \A m \in 1..3-1 : m = 1 \/ m = 2
      OBVIOUS
    <3> QED BY <2>3, <3>1, <3>2
  <2> QED BY <2>1, <2>2, <2>3
<1>3. NewStamp(i) \in 1..3
  BY <1>2 DEF NewStamp
<1> QED BY <1>3

LEMMA SetMarks ==
  ASSUME Shape, dropped = {}, NEW q \in Items, NEW v, SetPath(q, v)
  PROVE  /\ stopped => mark' = mark
         /\ ~stopped => mark'[q] # 0
         /\ \A i \in Items : i # q => mark'[i] = mark[i]
<1>1. CASE stopped
  BY <1>1 DEF SetPath
<1>2. CASE ~stopped
  <2>1. DOMAIN [e \in {q} |-> v] \ dropped = {q}
    OBVIOUS
  <2>2. Marks({q})
    BY <1>2, <2>1 DEF SetPath, SetPaths
  <2>3. mark'[q] = NewStamp(q) /\ \A i \in Items : i # q => mark'[i] = mark[i]
    BY <2>2 DEF Marks
  <2> QED BY <1>2, <2>3, StampMarks
<1> QED BY <1>1, <1>2

LEMMA SetPaired ==
  ASSUME Shape, Together, NEW q \in Items, NEW v, SetPath(q, v),
         UNCHANGED <<bad, fl, db, dropped, stopped, home>>,
         \A c \in Commands : /\ Deleting(c)' => Deleting(c) \/ (~stopped /\ q = Result(c))
                             /\ q = Command(c) => Deleting(c) \/ stopped
  PROVE  Paired
<1> SUFFICES ASSUME bad = {} PROVE MarksPaired
  BY SameBatchesPaired, Unmoved DEF Paired, Together
<1> SUFFICES ASSUME NEW c \in Commands
             PROVE  /\ mark'[Command(c)] # 0 \/ Deleting(c)' =>
                          mark[Command(c)] # 0 \/ Deleting(c) \/ mark'[Result(c)] # 0
                    /\ mark[Result(c)] # 0 => mark'[Result(c)] # 0
  BY DEF MarksPaired, Away
<1>1. /\ stopped => mark' = mark
      /\ ~stopped => mark'[q] # 0
      /\ \A i \in Items : i # q => mark'[i] = mark[i]
  BY SetMarks DEF Together
<1>2. Result(c) \in Items /\ Command(c) \in Items
  BY Paths
<1> QED BY <1>1, <1>2

LEMMA ExecutePaired ==
  ASSUME Shape, CommandTypes, Together, NEW c \in Commands, Execute(c)
  PROVE  Paired
<1>1. \A d \in Commands : d # c => cmd'[d] = cmd[d]
  BY DEF Execute, Begin, ClaimLands, ClaimFails, RunOp, WriteResult, DeleteCommand, Trim,
         Answers, Goes, CommandTypes
<1>2. UNCHANGED <<bad, fl, dropped, stopped, home>>
  BY DEF Execute, Begin, ClaimLands, ClaimFails, RunOp, WriteResult, DeleteCommand, Trim,
         mirrorVars, dirty, flow, unwritten
<1>3. CASE Begin(c) \/ ClaimLands(c) \/ ClaimFails(c) \/ RunOp(c)
  <2>1. cmd'[c] = "delete" => cmd[c] = "delete"
    BY <1>3 DEF Begin, ClaimLands, ClaimFails, RunOp, Answers, Goes, CommandTypes
  <2>2. mark' = mark
    BY <1>3 DEF Begin, ClaimLands, ClaimFails, RunOp, mirrorVars, dirty
  <2>3. db' = db \/ db' = [db EXCEPT ![Result(c)] = "claimed"]
    BY <1>3 DEF Begin, ClaimLands, ClaimFails, RunOp, mirrorVars
  <2>4. \A d \in Commands : db'[Command(d)] = db[Command(d)]
    BY <2>3, Paths DEF Shape
  <2>5. Untouched /\ \A d \in Commands : Away(d)' => Away(d)
    BY <1>2, <2>2, <2>4 DEF Untouched, Away
  <2> QED BY <1>1, <1>2, <2>1, <2>5, StillPaired, Unmoved
<1>4. CASE WriteResult(c)
  <2>1. /\ cmd' = [cmd EXCEPT ![c] = "delete"] /\ db' = db
        /\ SetPath(Result(c), verdict[c])
    BY <1>4 DEF WriteResult, Goes
  <2>2. PICK v : v = verdict[c]
    OBVIOUS
  <2>3. PICK q \in Items : q = Result(c) /\ \A d \in Commands : q # Command(d)
    BY Paths
  <2>4. \A d \in Commands : Deleting(d)' => Deleting(d) \/ (~stopped /\ q = Result(d))
    BY <1>1, <1>2, <2>3 DEF Deleting
  <2> QED BY <1>2, <2>1, <2>2, <2>3, <2>4, SetPaired
<1>5. CASE DeleteCommand(c)
  <2>1. /\ cmd[c] = "delete" /\ cmd' = [cmd EXCEPT ![c] = "trim"] /\ db' = db
        /\ SetPath(Command(c), None)
    BY <1>5 DEF DeleteCommand, Goes
  <2>2. PICK q \in Items : q = Command(c) /\ \A d \in Commands : q = Command(d) => d = c
    BY Paths
  <2>3. \A d \in Commands : Deleting(d)' => Deleting(d)
    BY <1>1, <1>2, <2>1 DEF Deleting, CommandTypes
  <2>4. \A d \in Commands : q = Command(d) => Deleting(d) \/ stopped
    BY <2>1, <2>2 DEF Deleting
  <2> QED BY <1>2, <2>1, <2>2, <2>3, <2>4, SetPaired
<1>6. CASE Trim(c)
  <2> DEFINE h == Head(Append(completed, c))
  <2>1. cmd' = [cmd EXCEPT ![c] = "over"] /\ db' = db
    BY <1>6 DEF Trim, Goes
  <2>2. \A d \in Commands : cmd'[d] = "delete" => cmd[d] = "delete"
    BY <2>1 DEF CommandTypes
  <2>3. mark' = mark \/ SetPath(Result(h), None)
    BY <1>6 DEF Trim
  <2>4. CASE mark' = mark
    BY <1>2, <2>1, <2>2, <2>4, StillPaired, Unmoved DEF Untouched, Away
  <2>5. CASE SetPath(Result(h), None)
    <3>1. h \in Commands
      BY ResultRing
    <3> HIDE DEF h
    <3>2. PICK q \in Items : q = Result(h) /\ \A d \in Commands : q # Command(d)
      BY <3>1, Paths
    <3>3. \A d \in Commands : Deleting(d)' => Deleting(d)
      BY <1>2, <2>2 DEF Deleting
    <3> QED BY <1>2, <2>1, <2>5, <3>2, <3>3, SetPaired
  <2> QED BY <2>3, <2>4, <2>5
<1> QED BY <1>3, <1>4, <1>5, <1>6 DEF Execute

LEMMA PostPaired ==
  ASSUME Shape, CommandTypes, Together, NEW c \in Commands, Post(c)
  PROVE  Paired
<1>1. /\ db' = [db EXCEPT ![Command(c)] = "posted"] /\ home' = [home EXCEPT ![c] = MakeSID(start)]
      /\ UNCHANGED <<bad, fl, dropped, stopped, mark, cmd>>
  BY DEF Post, unwritten, flow
<1>2. db'[Command(c)] # None /\ \A d \in Commands : d # c => db'[Command(d)] = db[Command(d)]
  BY <1>1, Paths, CommandBounds DEF Shape
<1>3. \A d \in Commands : Away(d)' => Away(d)
  BY <1>1, <1>2 DEF Away, CommandTypes
<1> QED BY <1>1, <1>3, StillPaired, Unmoved DEF Untouched

LEMMA RestartTogether ==
  ASSUME Shape, Together, Restart
  PROVE  Together'
<1>1. /\ mark' = [i \in Items |-> IF i \in {Meta, Ops} THEN 1 ELSE 0]
      /\ fl' = [f \in Flushers |-> Idle]
      /\ db' = [l \in Leaves |-> IF l[1] \in {"result", "command"} THEN db[l] ELSE EmptyDb[l]]
      /\ cmd' = [c \in Commands |-> "no"] /\ dropped' = {}
      /\ UNCHANGED <<home, trimmed, bad>>
  BY DEF Restart
<1>2. \A c \in Commands : /\ mark'[Command(c)] = 0 /\ ~Deleting(c)'
                          /\ db'[Result(c)] = db[Result(c)] /\ db'[Command(c)] = db[Command(c)]
  BY <1>1, Paths DEF Deleting
<1>3. ASSUME bad = {}, NEW c \in Commands PROVE Ahead(c)'
  <2>1. Away(c)' => Answered(c)'
    BY <1>1, <1>2, <1>3 DEF Together, Ahead, Away, Answered, Kept
  <2>2. \A f \in Flushers : DOMAIN fl'[f].took = {} /\ DOMAIN fl'[f].pay = {}
    BY <1>1, IdleFlusher
  <2> QED BY <1>2, <2>1, <2>2 DEF Ahead
<1> QED BY <1>1, <1>3, IdleFlusher DEF Together

LEMMA ExecuteCarries ==
  ASSUME Shape, CommandTypes, CommandTypes', Calm, Answering, NEW c \in Commands, Execute(c)
  PROVE  Carry
<1>1. CASE Begin(c)
  <2>1. Flow
    BY <1>1, StillFlow DEF Begin
  <2>2. RunsOn
    BY <1>1 DEF Begin, Goes, RunsOn, CommandTypes
  <2> QED BY <2>1, <2>2, FlowCarries
<1>2. CASE ClaimLands(c)
  <2>1. /\ db' = [db EXCEPT ![Result(c)] = "claimed"]
        /\ UNCHANGED <<fl, extra, mark, ran>>
        /\ \A d \in Commands : d # c => cmd'[d] = cmd[d]
    BY <1>2 DEF ClaimLands, unwritten, Goes, CommandTypes
  <2>2. /\ db'[Result(c)] = "claimed"
        /\ \A d \in Commands : d # c => db'[Result(d)] = db[Result(d)]
    BY <2>1, Paths DEF Shape
  <2>3. db' = [l \in Leaves |-> db'[l]]
    BY <2>1 DEF Shape
  <2>4. DbSound
    BY <2>2, <2>3 DEF DbSound
  <2>5. RunsOn
    BY <2>1, <2>2 DEF RunsOn
  <2>6. MarksSound /\ FlushersKeep
    BY <2>1, SameMarks, SameFlushers DEF MarksKeep, MarksSound
  <2> QED BY <2>4, <2>5, <2>6 DEF Carry
<1>3. CASE ClaimFails(c)
  <2>1. Flow
    BY <1>3, StillFlow DEF ClaimFails
  <2>2. RunsOn
    BY <1>3 DEF ClaimFails, Answers, Goes, RunsOn, CommandTypes
  <2> QED BY <2>1, <2>2, FlowCarries
<1>4. CASE RunOp(c)
  <2>1. Flow
    BY <1>4, StillFlow DEF RunOp
  <2>2. RunsOn
    BY <1>4 DEF RunOp, Answers, Goes, RunsOn, CommandTypes
  <2> QED BY <2>1, <2>2, FlowCarries
<1>5. CASE WriteResult(c)
  <2>1. PICK v : v = verdict[c]
    OBVIOUS
  <2>2. cmd[c] = "answer" /\ SetPath(Result(c), v) /\ cmd' = [cmd EXCEPT ![c] = "delete"]
        /\ UNCHANGED <<fl, db, ran>>
    BY <1>5, <2>1 DEF WriteResult, Goes, unwritten
  <2>3. Sound(c, v)
    BY <2>1, <2>2 DEF Answering, Ended, Sound, Kept
  <2>4. Sound(c, v)'
    BY <2>3, CalmKeeps
  <2>5. \A d \in Commands : Result(c) = Result(d) => Sound(d, v)'
    BY <2>4, Paths
  <2>6. \A d \in Commands : cmd'[d] = "run" => cmd[d] = "run"
    BY <2>2 DEF CommandTypes
  <2> QED BY <2>2, <2>5, <2>6, SetCarries
<1>6. CASE DeleteCommand(c)
  <2>1. SetPath(Command(c), None) /\ cmd' = [cmd EXCEPT ![c] = "trim"] /\ UNCHANGED <<fl, db, ran>>
    BY <1>6 DEF DeleteCommand, Goes, unwritten
  <2>2. \A d \in Commands : Command(c) # Result(d)
    BY Paths
  <2>3. \A d \in Commands : cmd'[d] = "run" => cmd[d] = "run"
    BY <2>1 DEF CommandTypes
  <2> QED BY <2>1, <2>2, <2>3, SetCarries
<1>7. CASE Trim(c)
  <2> DEFINE h == Head(Append(completed, c))
  <2>1. cmd' = [cmd EXCEPT ![c] = "over"] /\ UNCHANGED <<fl, db, ran>>
    BY <1>7 DEF Trim, Goes, unwritten
  <2>2. \A d \in Commands : cmd'[d] = "run" => cmd[d] = "run"
    BY <2>1 DEF CommandTypes
  <2>3. \/ UNCHANGED <<extra, mark>>
        \/ SetPath(Result(h), None) /\ trimmed' = trimmed \cup {h}
    BY <1>7 DEF Trim
  <2>4. CASE UNCHANGED <<extra, mark>>
    <3>1. Flow
      BY <2>1, <2>4, SameMarks, SameFlushers, SameDb DEF Flow
    <3>2. RunsOn
      BY <2>1, <2>2 DEF RunsOn
    <3> QED BY <3>1, <3>2, FlowCarries
  <2>5. CASE SetPath(Result(h), None) /\ trimmed' = trimmed \cup {h}
    <3>1. h \in Commands
      BY ResultRing
    <3> HIDE DEF h
    <3>2. PICK g \in Commands : g = h
      BY <3>1
    <3>3. Sound(g, None)'
      BY <2>5, <3>2, CommandBounds DEF Sound, Honest, Kept
    <3>4. \A d \in Commands : Result(g) = Result(d) => Sound(d, None)'
      BY <3>3, Paths
    <3> QED BY <2>1, <2>2, <2>5, <3>2, <3>4, SetCarries
  <2> QED BY <2>3, <2>4, <2>5
<1> QED BY <1>1, <1>2, <1>3, <1>4, <1>5, <1>6, <1>7 DEF Execute

LEMMA PostCarries ==
  ASSUME Shape, CommandTypes, NEW c \in Commands, Post(c)
  PROVE  Carry
<1>1. /\ db' = [db EXCEPT ![Command(c)] = "posted"]
      /\ UNCHANGED <<fl, extra, mark, ran, cmd>>
  BY DEF Post, unwritten
<1>2. DbKeeps
  BY <1>1, Paths DEF Shape, DbKeeps
<1> QED BY <1>1, <1>2, SameMarks, SameFlushers, FlowCarries DEF Flow, RunsOn

\* A process that starts has nothing on its way; the answers in the database stay.
LEMMA RestartCarries ==
  ASSUME Shape, CommandTypes, Restart
  PROVE  Carry
<1>1. /\ mark' = [i \in Items |-> IF i \in {Meta, Ops} THEN 1 ELSE 0]
      /\ extra' = [e \in Extras |-> None]
      /\ fl' = [f \in Flushers |-> Idle]
      /\ db' = [l \in Leaves |-> IF l[1] \in {"result", "command"} THEN db[l] ELSE EmptyDb[l]]
      /\ cmd' = [c \in Commands |-> "no"] /\ ran' = ran
  BY DEF Restart
<1>2. \A c \in Commands : mark'[Result(c)] = 0
  BY <1>1, Paths
<1>3. MarksSound
  BY <1>1, <1>2 DEF MarksSound
<1>4. FlushersKeep
  BY <1>1, IdleFlusher DEF FlushersKeep
<1>5. \A c \in Commands : db'[Result(c)] = db[Result(c)]
  BY <1>1, Paths
<1>6. DbSound
  BY <1>1, <1>5 DEF DbSound
<1>7. RunsOn
  BY <1>1 DEF RunsOn
<1> QED BY <1>3, <1>4, <1>6, <1>7 DEF Carry

-----------------------------------------------------------------------------
LEMMA InitInv == Init => IInv
<1> SUFFICES ASSUME Init PROVE IInv
  OBVIOUS
<1>1. Shape
  BY IdleFlusher, FlusherFields DEF Init, MirrorInit, EmptyDb, Shape
<1>2. CommandTypes
  BY DEF Init, CommandsInit, CommandTypes, States
<1>3. None \notin Nat /\ None # "refused" /\ None # "done"
  BY CommandBounds
<1>4. Once /\ Answering
  BY <1>3 DEF Init, CommandsInit, Once, Answering, Ended
<1>5. Carried
  <2>1. \A c \in Commands : mark[Result(c)] = 0
    BY Paths DEF Init, MirrorInit
  <2>2. \A f \in Flushers : DOMAIN fl[f].pay = {}
    BY IdleFlusher DEF Init, MirrorInit
  <2> QED BY <2>1, <2>2 DEF Carried
<1>6. OnRecord
  <2>1. \A c \in Commands : db[Result(c)] = None
    BY Paths DEF Init, MirrorInit, EmptyDb
  <2> QED BY <1>3, <2>1 DEF Init, CommandsInit, OnRecord, Honest
<1>7. Together
  <2>1. \A c \in Commands : mark[Command(c)] = 0
    BY Paths DEF Init, MirrorInit
  <2>2. /\ dropped = {}
        /\ \A f \in Flushers : fl[f] = Idle
        /\ \A c \in Commands : home[c] = None /\ cmd[c] = "no"
    BY DEF Init, MirrorInit, CommandsInit
  <2> QED BY <2>1, <2>2, IdleFlusher DEF Together, Ahead, Away, Deleting
<1> QED BY <1>1, <1>2, <1>4, <1>5, <1>6, <1>7 DEF IInv

LEMMA NextInv == IInv /\ [Next]_vars => IInv'
<1> SUFFICES ASSUME IInv, [Next]_vars PROVE IInv'
  OBVIOUS
<1>1. Shape /\ CommandTypes /\ Once /\ Answering /\ Carried /\ OnRecord /\ Together
  BY DEF IInv
<1>2. CommandTypes'
  BY <1>1, TypesStep
<1>3. SUFFICES (Once' /\ Answering' /\ Calm) /\ Carry /\ (Paired \/ Together')
  <2>1. Calm /\ Carry => StayAnswered
    BY <1>1, <1>2, AnsweredKeeps DEF StayAnswered
  <2>2. StayAnswered /\ (Paired \/ Together') => Together'
    BY <1>1, TogetherKeeps
  <2> QED BY <1>1, <1>2, <2>1, <2>2, CarryKeeps DEF IInv
<1>4. CASE UNCHANGED vars \/ (MirrorNext /\ UNCHANGED cmdVars)
  <2>1. UNCHANGED cmdVars
    BY <1>4 DEF vars
  <2>2. Flow
    BY <1>1, <1>4, MirrorFlow, StillFlow DEF vars
  <2>3. RunsOn /\ UNCHANGED <<cmd, home>>
    BY <2>1 DEF cmdVars, RunsOn
  <2>4. (Once' /\ Answering' /\ Calm) /\ Carry
    BY <1>1, <1>2, <2>1, <2>2, <2>3, StepMoves, MovedKeeps, FlowCarries
  <2>5. StayAnswered
    BY <1>1, <1>2, <2>4, AnsweredKeeps DEF StayAnswered
  <2>6. Paired
    <3>1. CASE UNCHANGED mirrorVars
      BY <1>1, <2>3, <3>1, StillPaired, Unmoved DEF mirrorVars, dirty, flow, Untouched, Away
    <3>2. CASE \E f \in Flushers : Flush(f)
      BY <1>1, <2>1, <2>5, <3>2, FlushPaired
    <3>3. CASE MirrorNext /\ \A f \in Flushers : ~Flush(f)
      BY <1>1, <2>3, <3>3, AsideSteps, StillPaired DEF Aside, Away
    <3> QED BY <1>4, <3>1, <3>2, <3>3 DEF vars
  <2> QED BY <2>4, <2>6
<1>5. CASE Connect \/ Disconnect \/ Handle \/ Quiesce
  <2>1. Flow
    BY <1>1, <1>5, StillFlow DEF Connect, Disconnect, Handle, Quiesce
  <2>2. \A c \in Commands : /\ cmd'[c] = "run" => cmd[c] = "run"
                            /\ cmd'[c] = "delete" => cmd[c] = "delete"
    BY <1>1, <1>5, HeadOfStream DEF Connect, Disconnect, Handle, Quiesce, CommandTypes
  <2>3. RunsOn
    BY <1>5, <2>2 DEF Connect, Disconnect, Handle, Quiesce, RunsOn
  <2>4. UNCHANGED mirrorVars /\ UNCHANGED home
    BY <1>5 DEF Connect, Disconnect, Handle, Quiesce
  <2>5. Paired
    BY <1>1, <2>2, <2>4, StillPaired, Unmoved DEF mirrorVars, dirty, flow, Untouched, Away
  <2> QED BY <1>1, <1>2, <1>5, <2>1, <2>3, <2>5, StepMoves, MovedKeeps, FlowCarries
<1>6. CASE Restart
  BY <1>1, <1>6, RestartKeeps, RestartCarries, RestartTogether
<1>7. ASSUME NEW c \in Commands, Post(c) PROVE (Once' /\ Answering' /\ Calm) /\ Carry /\ Paired
  BY <1>1, <1>2, <1>7, PostKeeps, PostCarries, PostPaired
<1>8. ASSUME NEW c \in Commands, Execute(c)
      PROVE  (Once' /\ Answering' /\ Calm) /\ Carry /\ Paired
  <2>1. Once' /\ Answering' /\ Calm
    BY <1>1, <1>2, <1>8, StepMoves, MovedKeeps
  <2> QED BY <1>1, <1>2, <1>8, <2>1, ExecuteCarries, ExecutePaired
<1> QED BY <1>4, <1>5, <1>6, <1>7, <1>8 DEF Next

LEMMA Invariant == Spec => []IInv
BY InitInv, NextInv, PTL DEF Spec

\* commands.go, 8-20: across lost answers, aborted and late claims, streams that show
\* a command again and processes that die and are started again, an op runs once at
\* most, and unless it only reads, never without a durable record of it.
THEOREM RunsOnce == Spec => []RunsOnceOnRecord
<1>1. IInv => RunsOnceOnRecord
  BY DEF IInv, Once, OnRecord, Kept, RunsOnceOnRecord, AtMostOnce, RunIsOnRecord
<1> QED BY <1>1, Invariant, PTL

\* commands.go, 269 and 303-305: what the database says of a command is true, wherever
\* its answer waited and however often the batch with it was sent: what was refused did
\* not run and never will, what was done ran, and, as long as no path is refused, a
\* command that is gone has its answer.
THEOREM TrueAnswers == Spec => []AnswersAreTrue
<1>1. IInv => NoFalseAnswer
  BY DEF IInv, OnRecord, Honest, NoFalseAnswer
<1>2. IInv => GoneIsAnswered
  BY DEF IInv, Together, Ahead, Away, Answered, Kept, GoneIsAnswered
<1>3. IInv => AnswersAreTrue
  BY <1>1, <1>2 DEF AnswersAreTrue
<1> QED BY <1>3, Invariant, PTL

-----------------------------------------------------------------------------
(* The picture.                                                            *)

Events == {"event"} \X (1..MaxEvents)
Plain == {Meta} \cup Nodes \cup Events
FrameOf(p) == <<"frame", p>>
RowOf(p, y) == <<"row", p, y>>

\* What the mirror was last told of an item that is no frame.
Word(i) ==
    CASE i = Meta -> alive
      [] i[1] = "node" -> node[i[2]]
      [] OTHER -> IF InRing(i[2]) THEN "event" ELSE None

\* One flusher has a batch at a time, unless Finalize has left the other's behind;
\* what is told after Finalize has ended the Sub is told to no one.
Empty(r) == r = FlusherAt(r.pc, r.ops, <<>>, <<>>, {})
OneAtATime ==
    /\ \A f \in Flushers : fl[f].pc \notin {"patch", "each"} => Empty(fl[f])
    /\ fl["final"].pc # "idle" => final = "flushing"
    /\ final \notin {"no", "stopping"} /\ ~left => fl["run"].pc \in {"idle", "off"}
    /\ final # "no" => stopped /\ ~writing
    /\ left => final \notin {"no", "stopping"}

Values ==
    /\ bad \subseteq Bad /\ dropped \subseteq bad /\ eventSeq \in Nat
    /\ node = [p \in Panes |-> node[p]]
    /\ pending = [p \in Panes |-> pending[p]] /\ screen = [p \in Panes |-> screen[p]]
    /\ \A p \in Panes :
          /\ pending[p] = [key |-> pending[p].key, lines |-> pending[p].lines]
          /\ pending[p].key \in BOOLEAN

\* f's batch has what was last told of i: nothing has been told since it was taken.
Fresh(f, i) == i \in DOMAIN fl[f].took /\ (mark[i] = fl[f].took[i] \/ f = "final")

\* An item that is no frame: what is clean is in the database, what is fresh is in the
\* batch, and what has been sent alone has arrived.
PlainOk(i) ==
    /\ mark[i] = 0 => db[i] = Word(i)
    /\ mark[i] # 0 /\ i \in Extras => extra[i] = Word(i)
    /\ \A f \in Flushers :
          /\ i \in DOMAIN fl[f].took <=> i \in DOMAIN fl[f].pay
          /\ i \in DOMAIN fl[f].took => mark[i] # 0
          /\ Fresh(f, i) => fl[f].pay[i] = Word(i)
          /\ fl[f].pc = "each" /\ i \in DOMAIN fl[f].pay \ fl[f].todo => db[i] = fl[f].pay[i]

\* A row as a reader will have it once what waits has arrived.
Shows(p, y) ==
    IF pending[p].lines[y] # None THEN pending[p].lines[y]
    ELSE IF pending[p].key THEN None ELSE db[RowOf(p, y)]

\* A batch with a keyframe of p, or with rows of it.
Whole(f, p) == FrameOf(p) \in DOMAIN fl[f].pay
Part(f, p) == {y \in Rows : RowOf(p, y) \in DOMAIN fl[f].pay}

\* A frame: what a batch has of it waits too, what is fresh is all that waits, and what
\* has been sent alone has arrived.
Waits(f, p) ==
    /\ Whole(f, p) => pending[p].key /\ Part(f, p) = {}
    /\ \A y \in Part(f, p) : pending[p].key \/ pending[p].lines[y] # None
    /\ Whole(f, p) \/ Part(f, p) # {} => FrameOf(p) \in DOMAIN fl[f].took
    /\ FrameOf(p) \in DOMAIN fl[f].took => mark[FrameOf(p)] # 0
Complete(f, p) ==
    /\ pending[p].key => Whole(f, p) /\ fl[f].pay[FrameOf(p)] = pending[p].lines
    /\ ~pending[p].key =>
          /\ Part(f, p) = {y \in Rows : pending[p].lines[y] # None}
          /\ \A y \in Part(f, p) : fl[f].pay[RowOf(p, y)] = pending[p].lines[y]
Sent(f, p) ==
    /\ Whole(f, p) /\ FrameOf(p) \notin fl[f].todo =>
          \A y \in Rows : db[RowOf(p, y)] = fl[f].pay[FrameOf(p)][y]
    /\ \A y \in Part(f, p) : RowOf(p, y) \notin fl[f].todo =>
          db[RowOf(p, y)] = fl[f].pay[RowOf(p, y)]
Showing(p) == \A y \in Rows : screen[p][y] = Shows(p, y)
FrameOk(p) ==
    /\ Showing(p)
    /\ mark[FrameOf(p)] = 0 => pending[p] = NoFrame
    /\ \A f \in Flushers : /\ Waits(f, p)
                           /\ Fresh(f, FrameOf(p)) => Complete(f, p)
                           /\ fl[f].pc = "each" => Sent(f, p)

\* What the last flush has not taken it need not.
Settles(i) == Current(i) \/ GivenUp(i) \/ Shed(i)
LastFlush ==
    /\ final = "flushing" /\ fl["final"].pc \in {"patch", "each"} =>
          \A i \in Told : i \in DOMAIN fl["final"].took \/ Settles(i)
    /\ final = "ok" => \A i \in Told : Settles(i)

\* The events in the database are the newest of some moment, and will be again when a
\* batch has landed.
Window(d) ==
    \E k \in Nat : \A s \in 1..MaxEvents :
        d[<<"event", s>>] # None <=> s <= k /\ s > k - eventRing
Ringing == ~swept /\ ~left /\ ~closed /\ \A i \in Events : i \notin dropped
RingOk ==
    Ringing =>
        /\ (\A f \in Flushers : fl[f].pc # "each") => Window(db)
        /\ \A f \in Flushers : fl[f].pc \in {"patch", "each"} => Window(Landed(db, fl[f].pay))

Mirrored ==
    /\ \A i \in Plain : GivenUp(i) \/ PlainOk(i)
    /\ \A p \in Panes : GivenUp(FrameOf(p)) \/ FrameOk(p)

Picture == Values /\ OneAtATime /\ Mirrored /\ LastFlush /\ RingOk

LEMMA PlainPaths ==
  ASSUME NEW i \in Plain
  PROVE  /\ i \in Items /\ i \in Leaves /\ i \in Told /\ i \notin Frames /\ i[1] # "row" /\ i # Ops
         /\ \/ i = Meta /\ i \notin Extras
            \/ i \in Nodes /\ i # Meta /\ i[1] = "node" /\ i[2] \in Panes /\ i = <<"node", i[2]>>
               /\ i \notin Extras
            \/ i \in Events /\ i # Meta /\ i[1] = "event" /\ i[2] \in 1..MaxEvents
               /\ i = <<"event", i[2]>> /\ i \in Extras
         /\ \A c : i # Result(c) /\ i # Command(c)
BY DEF Plain, Events, Items, Leaves, Told, Frames, Meta, Ops, Nodes, Extras, Result, Command

LEMMA FramePath ==
  ASSUME NEW p \in Panes
  PROVE  /\ FrameOf(p) \in Items /\ FrameOf(p) \in Frames /\ FrameOf(p) \notin Extras
         /\ FrameOf(p) \in Told /\ FrameOf(p) \notin {Meta, Ops}
         /\ FrameOf(p)[1] = "frame" /\ FrameOf(p)[2] = p
         /\ \A q : FrameOf(p) = FrameOf(q) => p = q
         /\ \A i \in Plain : i # FrameOf(p)
         /\ \A c : FrameOf(p) # Result(c) /\ FrameOf(p) # Command(c)
BY DEF FrameOf, Frames, Items, Extras, Told, Meta, Ops, Plain, Nodes, Events, Result, Command

LEMMA RowPath ==
  ASSUME NEW p \in Panes, NEW y \in Rows
  PROVE  /\ RowOf(p, y) \in Leaves /\ RowOf(p, y) \notin Items
         /\ RowOf(p, y)[1] = "row" /\ RowOf(p, y)[2] = p /\ RowOf(p, y)[3] = y
         /\ \A q, z : RowOf(p, y) = RowOf(q, z) => p = q /\ y = z
         /\ \A c : RowOf(p, y) # Result(c) /\ RowOf(p, y) # Command(c)
BY DEF RowOf, Leaves, Items, Frames, Nodes, Extras, Meta, Ops, Result, Command

LEMMA ToldItems == \A i \in Told : i \in Plain \/ \E p \in Panes : i = FrameOf(p)
BY DEF Told, Plain, Events, Frames, FrameOf

LEMMA CurrentPlain ==
  ASSUME NEW i \in Plain
  PROVE  Current(i) <=> db[i] = Word(i)
<1>1. CASE i = Meta
  BY <1>1 DEF Current, Word, Meta
<1>2. CASE i \in Nodes /\ i # Meta /\ i[1] = "node"
  BY <1>2 DEF Current, Word
<1>3. CASE i \in Events /\ i # Meta /\ i[1] = "event"
  BY <1>3 DEF Current, Word
<1> QED BY <1>1, <1>2, <1>3, PlainPaths

LEMMA CurrentFrame ==
  ASSUME NEW p \in Panes
  PROVE  Current(FrameOf(p)) <=> \A y \in Rows : db[RowOf(p, y)] = screen[p][y]
BY FramePath DEF Current, RowOf, Nodes

\* The same of the next state.
LEMMA CurrentPlainNext ==
  ASSUME NEW i \in Plain
  PROVE  Current(i)' <=> db'[i] = Word(i)'
<1>1. CASE i = Meta
  BY <1>1 DEF Current, Word, Meta
<1>2. CASE i \in Nodes /\ i # Meta /\ i[1] = "node"
  BY <1>2 DEF Current, Word
<1>3. CASE i \in Events /\ i # Meta /\ i[1] = "event"
  BY <1>3 DEF Current, Word
<1> QED BY <1>1, <1>2, <1>3, PlainPaths

LEMMA CurrentFrameNext ==
  ASSUME NEW p \in Panes
  PROVE  Current(FrameOf(p))' <=> \A y \in Rows : db'[RowOf(p, y)] = screen'[p][y]
BY FramePath DEF Current, RowOf, Nodes

LEMMA LandedPlain ==
  ASSUME NEW i \in Plain, NEW d, NEW pay
  PROVE  Landed(d, pay)[i] = IF i \in DOMAIN pay THEN pay[i] ELSE d[i]
BY PlainPaths DEF Landed

LEMMA LandedRow ==
  ASSUME NEW p \in Panes, NEW y \in Rows, NEW d, NEW pay
  PROVE  Landed(d, pay)[RowOf(p, y)] =
            IF RowOf(p, y) \in DOMAIN pay THEN pay[RowOf(p, y)]
            ELSE IF FrameOf(p) \in DOMAIN pay THEN pay[FrameOf(p)][y] ELSE d[RowOf(p, y)]
BY RowPath DEF Landed, FrameOf

\* A new stamp is none that is on its way.
LEMMA StampFresh ==
  ASSUME NEW i
  PROVE  NewStamp(i) # 0 /\ \A f \in Flushers : i \in DOMAIN fl[f].took => NewStamp(i) # fl[f].took[i]
<1>1. InFlight(i) \subseteq {fl["run"].took[i], fl["final"].took[i]}
  BY DEF InFlight, Flushers
<1>2. \E n \in 1..3 : n \notin InFlight(i) /\ \A m \in 1..n-1 : m \in InFlight(i)
  <2>1. CASE 1 \notin InFlight(i)
    BY <2>1
  <2>2. CASE 1 \in InFlight(i) /\ 2 \notin InFlight(i)
    <3>1. \A m \in 1..2-1 : m = 1
      OBVIOUS
    <3> QED BY <2>2, <3>1
  <2>3. CASE 1 \in InFlight(i) /\ 2 \in InFlight(i)
    <3>1. 3 \notin InFlight(i)
      BY <1>1, <2>3
    <3>2. \A m \in 1..3-1 : m = 1 \/ m = 2
      OBVIOUS
    <3> QED BY <2>3, <3>1, <3>2
  <2> QED BY <2>1, <2>2, <2>3
<1>3. NewStamp(i) \in 1..3 /\ NewStamp(i) \notin InFlight(i)
  BY <1>2 DEF NewStamp
<1>4. \A f \in Flushers : i \in DOMAIN fl[f].took => fl[f].took[i] \in InFlight(i)
  BY DEF InFlight
<1> QED BY <1>3, <1>4

-----------------------------------------------------------------------------
(* A step that tells the mirror something, or nothing.                     *)

SameFlush ==
    \A f \in Flushers :
        /\ fl'[f].pay = fl[f].pay /\ fl'[f].took = fl[f].took /\ fl'[f].todo = fl[f].todo
        /\ fl'[f].pc = "each" <=> fl[f].pc = "each"
        /\ fl'[f].pc = "patch" <=> fl[f].pc = "patch"

\* What is given up stays given up, in one process.
StillGiven == dropped \subseteq dropped' /\ (swept => swept') /\ (left => left') /\ (closed => closed')

LEMMA GivenStays == StillGiven => \A i : GivenUp(i) => GivenUp(i)'
BY DEF StillGiven, GivenUp

PlainSame(i) == /\ mark'[i] = mark[i] /\ Word(i)' = Word(i)
                /\ i \in Extras => extra'[i] = extra[i]
PlainNew(i) == /\ mark'[i] = NewStamp(i) /\ (i \in Extras => extra'[i] = Word(i)')
               /\ Word(i)' = Word(i) \/ final \in {"no", "stopping"}
FrameSame(p) == /\ mark'[FrameOf(p)] = mark[FrameOf(p)]
                /\ pending'[p] = pending[p] /\ screen'[p] = screen[p]
FrameNew(p) ==
    /\ mark'[FrameOf(p)] = NewStamp(FrameOf(p)) /\ final = "no"
    /\ \E key \in BOOLEAN, lines \in [Rows -> Vals \cup {None}] :
          /\ pending'[p] = MergeFrame(pending[p], key, lines)
          /\ screen'[p] = MergeFrame([key |-> FALSE, lines |-> screen[p]], key, lines).lines

LEMMA FinalEmpty ==
  ASSUME OneAtATime, final \in {"no", "stopping"}
  PROVE  DOMAIN fl["final"].took = {} /\ DOMAIN fl["final"].pay = {}
<1>1. Empty(fl["final"])
  BY DEF OneAtATime, Flushers
<1>2. fl["final"].took = <<>> /\ fl["final"].pay = <<>>
  BY <1>1 DEF Empty, FlusherAt
<1> QED BY <1>2

LEMMA PlainWritten ==
  ASSUME NEW i \in Plain, PlainOk(i), OneAtATime, SameFlush, db'[i] = db[i],
         PlainSame(i) \/ PlainNew(i)
  PROVE  PlainOk(i)'
<1>1. CASE PlainSame(i)
  BY <1>1 DEF PlainSame, PlainOk, SameFlush, Fresh
<1>2. CASE PlainNew(i)
  <2>1. mark'[i] # 0 /\ \A f \in Flushers : i \in DOMAIN fl[f].took => mark'[i] # fl[f].took[i]
    BY <1>2, StampFresh DEF PlainNew
  <2>2. ASSUME NEW f \in Flushers, Fresh(f, i)' PROVE fl'[f].pay[i] = Word(i)'
    <3>1. f = "final" /\ i \in DOMAIN fl[f].took
      BY <2>1, <2>2 DEF Fresh, SameFlush
    <3>2. final \notin {"no", "stopping"}
      BY <3>1, FinalEmpty
    <3>3. Fresh(f, i) /\ Word(i)' = Word(i)
      BY <1>2, <3>1, <3>2 DEF PlainNew, Fresh
    <3> QED BY <3>3 DEF PlainOk, SameFlush
  <2> QED BY <1>2, <2>1, <2>2 DEF PlainOk, PlainNew, SameFlush
<1> QED BY <1>1, <1>2

LEMMA FrameWritten ==
  ASSUME NEW p \in Panes, FrameOk(p), Values, OneAtATime, SameFlush,
         \A y \in Rows : db'[RowOf(p, y)] = db[RowOf(p, y)],
         FrameSame(p) \/ FrameNew(p)
  PROVE  FrameOk(p)'
<1> DEFINE i == FrameOf(p)
<1>1. CASE FrameSame(p)
  <2>1. Showing(p)'
    BY <1>1 DEF FrameSame, FrameOk, Showing, Shows
  <2>2. \A f \in Flushers : Whole(f, p)' = Whole(f, p) /\ Part(f, p)' = Part(f, p)
    BY DEF SameFlush, Whole, Part
  <2>3. \A f \in Flushers : Fresh(f, i)' = Fresh(f, i)
    BY <1>1 DEF SameFlush, Fresh, FrameSame
  <2>4. ASSUME NEW f \in Flushers
        PROVE  /\ Waits(f, p) => Waits(f, p)'
               /\ Complete(f, p) => Complete(f, p)'
               /\ Sent(f, p) => Sent(f, p)'
    <3>1. Whole(f, p)' = Whole(f, p) /\ Part(f, p)' = Part(f, p)
      BY <2>2
    <3>2. Part(f, p) \subseteq Rows
      BY DEF Part
    <3>3. Waits(f, p) => Waits(f, p)'
      BY <1>1, <3>1 DEF FrameSame, SameFlush, Waits
    <3>4. Complete(f, p) => Complete(f, p)'
      BY <1>1, <3>1 DEF FrameSame, SameFlush, Complete
    <3>5. Sent(f, p) => Sent(f, p)'
      BY <3>1, <3>2 DEF SameFlush, Sent
    <3> QED BY <3>3, <3>4, <3>5
  <2> QED BY <1>1, <2>1, <2>3, <2>4 DEF FrameOk, FrameSame, SameFlush
<1>2. CASE FrameNew(p)
  <2> PICK key \in BOOLEAN, lines \in [Rows -> Vals \cup {None}] :
        /\ pending'[p] = MergeFrame(pending[p], key, lines)
        /\ screen'[p] = MergeFrame([key |-> FALSE, lines |-> screen[p]], key, lines).lines
    BY <1>2 DEF FrameNew
  <2>1. /\ pending'[p].key = (key \/ pending[p].key)
        /\ \A y \in Rows : pending'[p].lines[y] =
              IF key THEN lines[y] ELSE IF lines[y] # None THEN lines[y] ELSE pending[p].lines[y]
        /\ \A y \in Rows : screen'[p][y] =
              IF key THEN lines[y] ELSE IF lines[y] # None THEN lines[y] ELSE screen[p][y]
    BY DEF MergeFrame
  <2>2. Showing(p)'
    <3>1. \A y \in Rows : screen[p][y] = Shows(p, y)
      BY DEF FrameOk, Showing
    <3>2. ASSUME NEW y \in Rows PROVE screen'[p][y] = Shows(p, y)'
      BY <2>1, <3>1 DEF Shows
    <3> QED BY <3>2 DEF Showing
  <2>3. mark'[i] # 0 /\ \A f \in Flushers : i \in DOMAIN fl[f].took => mark'[i] # fl[f].took[i]
    BY <1>2, StampFresh DEF FrameNew
  <2>4. \A f \in Flushers : ~Fresh(f, i)'
    BY <1>2, <2>3, FinalEmpty DEF Fresh, SameFlush, FrameNew
  <2>5. \A f \in Flushers : Whole(f, p)' = Whole(f, p) /\ Part(f, p)' = Part(f, p)
    BY DEF SameFlush, Whole, Part
  <2>6. \A y \in Rows : pending[p].lines[y] # None => pending'[p].lines[y] # None \/ pending'[p].key
    BY <2>1
  <2>7. ASSUME NEW f \in Flushers PROVE Waits(f, p)' /\ (Sent(f, p) => Sent(f, p)')
    <3>1. Waits(f, p)
      BY DEF FrameOk
    <3>2. Part(f, p) \subseteq Rows
      BY DEF Part
    <3>3. Waits(f, p)'
      BY <2>1, <2>3, <2>5, <2>6, <3>1, <3>2 DEF Waits, SameFlush
    <3>4. Sent(f, p) => Sent(f, p)'
      BY <2>5, <3>2 DEF Sent, SameFlush
    <3> QED BY <3>3, <3>4
  <2> QED BY <2>2, <2>3, <2>4, <2>7 DEF FrameOk, SameFlush
<1> QED BY <1>1, <1>2

Writes ==
    /\ SameFlush /\ StillGiven
    /\ \A i \in Plain : GivenUp(i)' \/ (db'[i] = db[i] /\ (PlainSame(i) \/ PlainNew(i)))
    /\ \A p \in Panes : /\ \A y \in Rows : db'[RowOf(p, y)] = db[RowOf(p, y)]
                        /\ FrameSame(p) \/ FrameNew(p)

\* A step that only a write-type step disturbs leaves what the last flush owes.
LEMMA SettledStays ==
  ASSUME NEW i \in Told, Settles(i), Writes, final \notin {"no", "stopping"}
  PROVE  Settles(i)'
<1>1. CASE GivenUp(i)
  BY <1>1, GivenStays DEF Writes, Settles
<1>2. CASE i \in Plain
  <2>1. GivenUp(i)' \/ (db'[i] = db[i] /\ Word(i)' = Word(i))
    BY <1>2 DEF Writes, PlainSame, PlainNew
  <2>2. ~Shed(i)
    BY <1>2, PlainPaths DEF Shed
  <2>3. Current(i) /\ ~GivenUp(i)' => Current(i)'
    BY <1>2, <2>1, CurrentPlain, CurrentPlainNext
  <2> QED BY <1>1, <2>2, <2>3 DEF Settles
<1>3. ASSUME NEW p \in Panes, i = FrameOf(p) PROVE Settles(i)'
  <2>1. FrameSame(p) /\ \A y \in Rows : db'[RowOf(p, y)] = db[RowOf(p, y)]
    BY DEF Writes, FrameNew
  <2>2. Current(FrameOf(p)) => Current(FrameOf(p))'
    BY <2>1, CurrentFrame, CurrentFrameNext DEF FrameSame
  <2>3. Shed(i) => Shed(i)'
    BY <1>3, <2>1 DEF Shed, FrameSame
  <2> QED BY <1>1, <1>3, <2>2, <2>3 DEF Settles
<1> QED BY <1>2, <1>3, ToldItems

\* A final flush that goes on has what it had, and one that begins owes nothing yet.
FinalStill ==
    /\ final' = "flushing" => final = "flushing" \/ fl'["final"].pc \notin {"patch", "each"}
    /\ final' = "ok" => final = "ok"

LEMMA WritesLast ==
  ASSUME LastFlush, Writes, FinalStill
  PROVE  LastFlush'
<1>1. SameFlush
  BY DEF Writes
<1>2. ASSUME final' = "flushing", fl'["final"].pc \in {"patch", "each"}, NEW i \in Told
      PROVE  i \in DOMAIN fl'["final"].took \/ Settles(i)'
  <2>1. final = "flushing" /\ fl["final"].pc \in {"patch", "each"}
    BY <1>1, <1>2 DEF FinalStill, SameFlush, Flushers
  <2>2. i \in DOMAIN fl["final"].took \/ Settles(i)
    BY <2>1 DEF LastFlush
  <2> QED BY <1>1, <2>1, <2>2, SettledStays DEF SameFlush, Flushers
<1>3. ASSUME final' = "ok", NEW i \in Told PROVE Settles(i)'
  BY <1>3, SettledStays DEF FinalStill, LastFlush
<1> QED BY <1>2, <1>3 DEF LastFlush

\* A window over the events alone.
LEMMA WindowOf ==
  ASSUME NEW d, NEW e, \A i \in Events : d[i] = e[i], Window(d)
  PROVE  Window(e)
<1>1. \A s \in 1..MaxEvents : <<"event", s>> \in Events
  BY DEF Events
<1> QED BY <1>1 DEF Window

LEMMA RingingStays == StillGiven /\ Ringing' => Ringing
BY DEF StillGiven, Ringing

LEMMA EventsPlain == \A i \in Events : i \in Plain
BY DEF Plain

\* Nothing of the ring is given up while it rings.
LEMMA RingsOn == Ringing => \A i \in Events : ~GivenUp(i)
BY DEF Ringing, GivenUp

LEMMA RingsOnNext == Ringing' => \A i \in Events : ~GivenUp(i)'
BY DEF Ringing, GivenUp

LEMMA WritesRing ==
  ASSUME RingOk, Writes
  PROVE  RingOk'
<1> SUFFICES ASSUME Ringing'
    PROVE  /\ (\A f \in Flushers : fl'[f].pc # "each") => Window(db')
           /\ \A f \in Flushers : fl'[f].pc \in {"patch", "each"} => Window(Landed(db', fl'[f].pay))
  BY DEF RingOk, Window
<1>1. Ringing /\ SameFlush
  BY RingingStays DEF Writes
<1>2. \A i \in Events : db'[i] = db[i]
  BY RingsOnNext, EventsPlain DEF Writes
<1>3. (\A f \in Flushers : fl'[f].pc # "each") => Window(db')
  BY <1>1, <1>2, WindowOf DEF RingOk, SameFlush
<1>4. ASSUME NEW f \in Flushers, fl'[f].pc \in {"patch", "each"}
      PROVE  Window(Landed(db', fl'[f].pay))
  <2>1. PICK pay : pay = fl[f].pay /\ fl'[f].pay = pay
    BY <1>1 DEF SameFlush
  <2>2. Window(Landed(db, pay))
    BY <1>1, <1>4, <2>1 DEF RingOk, SameFlush
  <2>3. \A i \in Events : Landed(db', pay)[i] = Landed(db, pay)[i]
    BY <1>2, EventsPlain, LandedPlain
  <2>4. Window(Landed(db', pay))
    BY <2>2, <2>3, WindowOf
  <2> QED BY <2>1, <2>4
<1> QED BY <1>3, <1>4

LEMMA WritesKeep ==
  ASSUME Picture, Writes
  PROVE  Mirrored' /\ RingOk' /\ (FinalStill => LastFlush')
<1>1. ASSUME NEW i \in Plain PROVE GivenUp(i)' \/ PlainOk(i)'
  BY PlainWritten, GivenStays DEF Picture, Mirrored, Writes
<1>2. ASSUME NEW p \in Panes PROVE GivenUp(FrameOf(p))' \/ FrameOk(p)'
  BY FrameWritten, GivenStays DEF Picture, Mirrored, Writes
<1> QED BY <1>1, <1>2, WritesLast, WritesRing DEF Mirrored, Picture

-----------------------------------------------------------------------------
(* A flush: what is sent.                                                  *)

LEMMA EmptyIdle == Empty(Idle)
BY DEF Idle, Empty, FlusherAt

LEMMA EmptyBatch ==
  ASSUME NEW r, Empty(r)
  PROVE  DOMAIN r.pay = {} /\ DOMAIN r.took = {} /\ r.todo = {}
<1>1. r.pay = <<>> /\ r.took = <<>> /\ r.todo = {}
  BY FlusherFields DEF Empty, FlusherAt
<1> QED BY <1>1

\* f may take a step of a flush.
Active(f) == fl[f].pc \notin {"idle", "off"} \/ (f = "run" /\ ~stopped)

LEMMA FlusherMoves ==
  ASSUME Shape, OneAtATime, NEW f \in Flushers, NEW r, IsFlusher(r), fl' = [fl EXCEPT ![f] = r],
         Active(f), r.pc \notin {"patch", "each"} => Empty(r),
         \/ final' = final
         \/ f = "final" /\ r.pc = "idle" /\ final' \in {"ok", "failed"},
         UNCHANGED <<stopped, writing, left>>
  PROVE  OneAtATime'
<1>1. fl'[f] = r /\ \A g \in Flushers : g # f => fl'[g] = fl[g]
  BY OneFlusher
<1>2. \A g \in Flushers : fl'[g].pc \notin {"patch", "each"} => Empty(fl'[g])
  BY <1>1 DEF OneAtATime
<1>3. f = "final" => final = "flushing"
  BY DEF OneAtATime, Active
<1>4. fl'["final"].pc # "idle" => final' = "flushing"
  BY <1>1, <1>3 DEF OneAtATime, Flushers
<1>5. final' \notin {"no", "stopping"} /\ ~left' => fl'["run"].pc \in {"idle", "off"}
  <2>1. CASE f = "final"
    BY <1>1, <1>3, <2>1 DEF OneAtATime, Flushers
  <2>2. CASE f = "run"
    BY <1>1, <2>2 DEF OneAtATime, Active, Flushers
  <2> QED BY <2>1, <2>2 DEF Flushers
<1> QED BY <1>2, <1>3, <1>4, <1>5 DEF OneAtATime, Empty

\* Nothing but what Finalize left behind is sent beside a flush that sends.
LEMMA Sole ==
  ASSUME OneAtATime, ~left, NEW f \in Flushers, NEW g \in Flushers, g # f,
         fl[f].pc \in {"patch", "each"}
  PROVE  /\ fl[g].pc \notin {"patch", "each"}
         /\ DOMAIN fl[g].pay = {} /\ DOMAIN fl[g].took = {}
<1>1. fl[g].pc \notin {"patch", "each"}
  BY DEF OneAtATime, Flushers
<1> QED BY <1>1, EmptyBatch DEF OneAtATime

\* What a step of f that sends, or gives up sending, does to an item.
SentPlain(f, r, i) ==
    /\ mark'[i] = mark[i] /\ Word(i)' = Word(i) /\ (i \in Extras => extra'[i] = extra[i])
    /\ db'[i] \in {db[i], Landed(db, fl[f].pay)[i]}
    /\ r # Idle /\ i \in DOMAIN fl[f].pay \ r.todo => db'[i] = fl[f].pay[i]
SentFrame(f, r, p) ==
    /\ mark'[FrameOf(p)] = mark[FrameOf(p)]
    /\ pending'[p] = pending[p] /\ screen'[p] = screen[p]
    /\ \A y \in Rows : db'[RowOf(p, y)] \in {db[RowOf(p, y)], Landed(db, fl[f].pay)[RowOf(p, y)]}
    /\ r # Idle /\ Whole(f, p) /\ FrameOf(p) \notin r.todo =>
          \A y \in Rows : db'[RowOf(p, y)] = fl[f].pay[FrameOf(p)][y]
    /\ r # Idle => \A y \in Part(f, p) : RowOf(p, y) \notin r.todo =>
          db'[RowOf(p, y)] = fl[f].pay[RowOf(p, y)]
Moves(f, r) ==
    /\ f \in Flushers /\ fl[f].pc \in {"patch", "each"}
    /\ IsFlusher(r) /\ fl' = [fl EXCEPT ![f] = r]
    /\ r = Idle \/ (r.pc = "each" /\ r.pay = fl[f].pay /\ r.took = fl[f].took)

LEMMA PlainSent ==
  ASSUME Shape, OneAtATime, ~left, NEW f, NEW r, Moves(f, r),
         NEW i \in Plain, PlainOk(i), SentPlain(f, r, i)
  PROVE  PlainOk(i)'
<1>1. fl'[f] = r /\ \A g \in Flushers : g # f => fl'[g] = fl[g]
  BY OneFlusher DEF Moves
<1>2. \A g \in Flushers : g # f => DOMAIN fl[g].pay = {} /\ DOMAIN fl[g].took = {}
  BY Sole DEF Moves
<1>3. f \in Flushers
  BY DEF Moves
<1>4. i \notin DOMAIN fl[f].pay => db'[i] = db[i]
  BY LandedPlain DEF SentPlain
<1>5. /\ mark'[i] = 0 => db'[i] = Word(i)'
      /\ mark'[i] # 0 /\ i \in Extras => extra'[i] = Word(i)'
  BY <1>3, <1>4 DEF SentPlain, PlainOk
<1>6. ASSUME NEW g \in Flushers
      PROVE  /\ i \in DOMAIN fl'[g].took <=> i \in DOMAIN fl'[g].pay
             /\ i \in DOMAIN fl'[g].took => mark'[i] # 0
             /\ Fresh(g, i)' => fl'[g].pay[i] = Word(i)'
             /\ fl'[g].pc = "each" /\ i \in DOMAIN fl'[g].pay \ fl'[g].todo => db'[i] = fl'[g].pay[i]
  <2>1. CASE g # f
    BY <1>1, <1>2, <2>1 DEF Fresh
  <2>2. CASE g = f /\ r = Idle
    BY <1>1, <2>2, IdleFlusher DEF Fresh
  <2>3. CASE g = f /\ r # Idle
    BY <1>1, <1>3, <2>3 DEF Moves, SentPlain, PlainOk, Fresh
  <2> QED BY <2>1, <2>2, <2>3
<1> QED BY <1>5, <1>6 DEF PlainOk

LEMMA FrameSent ==
  ASSUME Shape, OneAtATime, ~left, NEW f, NEW r, Moves(f, r),
         NEW p \in Panes, FrameOk(p), SentFrame(f, r, p)
  PROVE  FrameOk(p)'
<1>1. fl'[f] = r /\ \A g \in Flushers : g # f => fl'[g] = fl[g]
  BY OneFlusher DEF Moves
<1>2. \A g \in Flushers : g # f => DOMAIN fl[g].pay = {} /\ DOMAIN fl[g].took = {}
  BY Sole DEF Moves
<1>3. f \in Flushers /\ Waits(f, p) /\ Part(f, p) \subseteq Rows
  BY DEF Moves, FrameOk, Part
<1>4. Showing(p)'
  <2>1. ASSUME NEW y \in Rows PROVE screen'[p][y] = Shows(p, y)'
    <3>1. screen[p][y] = Shows(p, y)
      BY DEF FrameOk, Showing
    <3>2. pending[p].key \/ pending[p].lines[y] # None \/ db'[RowOf(p, y)] = db[RowOf(p, y)]
      BY <1>3, LandedRow DEF SentFrame, Waits, Whole, Part
    <3> QED BY <3>1, <3>2 DEF SentFrame, Shows
  <2> QED BY <2>1 DEF Showing
<1>5. ASSUME NEW g \in Flushers
      PROVE  /\ Waits(g, p)' /\ (Fresh(g, FrameOf(p))' => Complete(g, p)')
             /\ fl'[g].pc = "each" => Sent(g, p)'
  <2>1. CASE DOMAIN fl'[g].pay = {} /\ DOMAIN fl'[g].took = {}
    <3>1. ~Whole(g, p)' /\ Part(g, p)' = {}
      BY <2>1 DEF Whole, Part
    <3> QED BY <2>1, <3>1 DEF Waits, Fresh, Sent
  <2>2. CASE g = f /\ r # Idle
    <3>1. /\ fl'[f].pay = fl[f].pay /\ fl'[f].took = fl[f].took /\ fl'[f].todo = r.todo
          /\ Whole(f, p)' = Whole(f, p) /\ Part(f, p)' = Part(f, p)
      BY <1>1, <2>2 DEF Moves, Whole, Part
    <3>2. Waits(f, p)'
      BY <1>3, <3>1 DEF Waits, SentFrame
    <3>3. Fresh(f, FrameOf(p))' => Complete(f, p)'
      <4>1. Fresh(f, FrameOf(p))' => Complete(f, p)
        BY <1>3, <3>1 DEF Fresh, SentFrame, FrameOk
      <4>2. Complete(f, p) => Complete(f, p)'
        BY <3>1 DEF Complete, SentFrame
      <4> QED BY <4>1, <4>2
    <3>4. Sent(f, p)'
      BY <1>3, <2>2, <3>1 DEF Sent, SentFrame
    <3> QED BY <2>2, <3>2, <3>3, <3>4
  <2> QED BY <1>1, <1>2, <2>1, <2>2, IdleFlusher
<1> QED BY <1>4, <1>5 DEF FrameOk, SentFrame

Sends(f, r) ==
    /\ Moves(f, r) /\ StillGiven /\ left' = left
    /\ (final' = final /\ (f = "run" \/ r # Idle)) \/ final' = "failed"
    /\ r = Idle => fl[f].pc = "patch" /\ db' \in {db, Landed(db, fl[f].pay)}
    /\ \A i \in Plain : GivenUp(i)' \/ SentPlain(f, r, i)
    /\ \A p \in Panes : GivenUp(FrameOf(p))' \/ SentFrame(f, r, p)

\* While Finalize flushes, nothing else does but what it left behind.
LEMMA OnlyFinal ==
  ASSUME OneAtATime, ~left, NEW f \in Flushers, fl[f].pc \in {"patch", "each"},
         final \notin {"no", "stopping"}
  PROVE  f = "final" /\ final = "flushing"
BY DEF OneAtATime, Flushers

LEMMA SendsLast ==
  ASSUME Picture, Shape, NEW f, NEW r, Sends(f, r)
  PROVE  LastFlush'
<1>1. CASE left
  <2>1. \A i \in Told : Settles(i)'
    BY <1>1 DEF Sends, Settles, GivenUp
  <2> QED BY <2>1 DEF LastFlush
<1>2. CASE ~left /\ final' = final /\ final \notin {"no", "stopping"}
  <2>1. f = "final" /\ final = "flushing" /\ r # Idle /\ f \in Flushers
    BY <1>2, OnlyFinal DEF Picture, Sends, Moves
  <2>2. fl'["final"] = r /\ fl'["final"].took = fl["final"].took
    BY <2>1, OneFlusher DEF Sends, Moves
  <2>3. ASSUME NEW i \in Told, i \notin DOMAIN fl["final"].took PROVE Settles(i)'
    <3>1. Settles(i)
      BY <2>1, <2>3 DEF Picture, LastFlush, Sends, Moves
    <3>2. CASE GivenUp(i)
      BY <3>2, GivenStays DEF Sends, Settles
    <3>3. CASE i \in Plain /\ ~GivenUp(i) /\ ~GivenUp(i)'
      <4>1. SentPlain(f, r, i) /\ PlainOk(i)
        BY <3>3 DEF Sends, Picture, Mirrored
      <4>2. i \notin DOMAIN fl[f].pay
        BY <2>1, <2>3, <4>1 DEF PlainOk, Flushers
      <4>3. db'[i] = db[i] /\ Word(i)' = Word(i)
        BY <3>3, <4>1, <4>2, LandedPlain DEF SentPlain
      <4>4. ~Shed(i)
        BY <3>3, PlainPaths DEF Shed
      <4> QED BY <3>1, <3>3, <4>3, <4>4, CurrentPlain, CurrentPlainNext DEF Settles
    <3>4. ASSUME NEW p \in Panes, i = FrameOf(p), ~GivenUp(i), ~GivenUp(i)' PROVE Settles(i)'
      <4>1. SentFrame(f, r, p) /\ Waits(f, p)
        BY <2>1, <3>4 DEF Sends, Picture, Mirrored, FrameOk, Flushers
      <4>2. ~Whole(f, p) /\ Part(f, p) = {}
        BY <2>1, <2>3, <3>4, <4>1 DEF Waits
      <4>3. \A y \in Rows : db'[RowOf(p, y)] = db[RowOf(p, y)]
        BY <4>1, <4>2, LandedRow DEF SentFrame, Whole, Part
      <4>4. Current(FrameOf(p)) => Current(FrameOf(p))'
        BY <4>1, <4>3, CurrentFrame, CurrentFrameNext DEF SentFrame
      <4>5. Shed(i) => Shed(i)'
        BY <3>4, <4>1 DEF Shed, SentFrame
      <4> QED BY <3>1, <3>4, <4>4, <4>5 DEF Settles
    <3> QED BY <3>2, <3>3, <3>4, ToldItems DEF Settles
  <2> QED BY <1>2, <2>1, <2>2, <2>3 DEF LastFlush
<1>3. CASE final' \notin {"flushing", "ok"}
  BY <1>3 DEF LastFlush
<1> QED BY <1>1, <1>2, <1>3 DEF Sends

LEMMA SendsRing ==
  ASSUME Picture, Shape, NEW f, NEW r, Sends(f, r)
  PROVE  RingOk'
<1> SUFFICES ASSUME Ringing'
    PROVE  /\ (\A g \in Flushers : fl'[g].pc # "each") => Window(db')
           /\ \A g \in Flushers : fl'[g].pc \in {"patch", "each"} => Window(Landed(db', fl'[g].pay))
  BY DEF RingOk, Window
<1>1. Ringing /\ ~left
  BY RingingStays DEF Sends, Ringing
<1>2. f \in Flushers /\ fl[f].pc \in {"patch", "each"} /\ OneAtATime
  BY DEF Sends, Moves, Picture
<1>3. fl'[f] = r /\ \A g \in Flushers : g # f => fl'[g] = fl[g]
  BY OneFlusher DEF Sends, Moves
<1>4. \A g \in Flushers : g # f => fl[g].pc \notin {"patch", "each"}
  BY <1>1, <1>2, Sole
<1>5. PICK pay : pay = fl[f].pay
  OBVIOUS
<1>6. Window(Landed(db, pay)) /\ ((\A g \in Flushers : fl[g].pc # "each") => Window(db))
  BY <1>1, <1>2, <1>5 DEF Picture, RingOk
<1>7. CASE r = Idle
  <2>1. Window(db) /\ db' \in {db, Landed(db, pay)}
    BY <1>4, <1>5, <1>6, <1>7 DEF Sends
  <2>2. Window(db')
    BY <1>6, <2>1, WindowOf
  <2> QED BY <1>3, <1>4, <1>7, <2>2, IdleFlusher
<1>8. CASE r # Idle
  <2>1. fl'[f].pay = pay /\ fl'[f].pc = "each"
    BY <1>3, <1>5, <1>8 DEF Sends, Moves
  <2>2. ASSUME NEW i \in Events PROVE Landed(db', pay)[i] = Landed(db, pay)[i]
    <3>1. i \in Plain /\ db'[i] \in {db[i], Landed(db, pay)[i]}
      BY <1>5, RingsOnNext, EventsPlain DEF Sends, SentPlain
    <3> QED BY <3>1, LandedPlain
  <2>3. Window(Landed(db', pay))
    BY <1>6, <2>2, WindowOf
  <2> QED BY <1>2, <1>3, <1>4, <2>1, <2>3
<1> QED BY <1>7, <1>8

LEMMA SendsKeep ==
  ASSUME Picture, Shape, NEW f, NEW r, Sends(f, r)
  PROVE  Mirrored' /\ LastFlush' /\ RingOk'
<1>1. CASE left
  <2>1. \A i : GivenUp(i)'
    BY <1>1 DEF Sends, GivenUp
  <2> QED BY <2>1, SendsLast, SendsRing DEF Mirrored
<1>2. CASE ~left
  <2>1. ASSUME NEW i \in Plain PROVE GivenUp(i)' \/ PlainOk(i)'
    BY <1>2, PlainSent, GivenStays DEF Picture, Mirrored, Sends
  <2>2. ASSUME NEW p \in Panes PROVE GivenUp(FrameOf(p))' \/ FrameOk(p)'
    BY <1>2, FrameSent, GivenStays DEF Picture, Mirrored, Sends
  <2> QED BY <2>1, <2>2, SendsLast, SendsRing DEF Mirrored
<1> QED BY <1>1, <1>2

\* What neither the mirror is told nor the flush changes.
LEMMA SameWords == UNCHANGED <<alive, node, eventSeq>> => \A i : Word(i)' = Word(i)
BY DEF Word, InRing

LEMMA ValuesStay ==
  Values /\ UNCHANGED <<bad, dropped, eventSeq, node, pending, screen>> => Values'
BY DEF Values

LEMMA PatchFailsKeeps ==
  ASSUME Picture, Shape, NEW f \in Flushers, PatchFails(f)
  PROVE  Picture'
<1>1. /\ fl[f].pc = "patch" /\ db' \in {db, Landed(db, fl[f].pay)}
      /\ fl' = [fl EXCEPT ![f] = Idle]
      /\ final' = IF f = "final" THEN "failed" ELSE final
      /\ UNCHANGED <<bad, node, pending, extra, alive, mark, eventSeq, dropped, closed, stopped,
                     writing, left, screen, swept>>
  BY DEF PatchFails, Over, dirty
<1>2. Moves(f, Idle)
  BY <1>1, IdleFlusher DEF Moves
<1>3. StillGiven
  BY <1>1 DEF StillGiven
<1>4. \A i \in Plain : SentPlain(f, Idle, i)
  BY <1>1, SameWords DEF SentPlain
<1>5. \A p \in Panes : SentFrame(f, Idle, p)
  BY <1>1 DEF SentFrame
<1>6. Sends(f, Idle)
  BY <1>1, <1>2, <1>3, <1>4, <1>5 DEF Sends, Flushers
<1>7. OneAtATime'
  BY <1>1, FlusherMoves, IdleFlusher, EmptyIdle DEF Picture, Active
<1>8. Values'
  BY <1>1, ValuesStay DEF Picture
<1> QED BY <1>6, <1>7, <1>8, SendsKeep DEF Picture

LEMMA PatchRefusedKeeps ==
  ASSUME Picture, Shape, NEW f \in Flushers, PatchRefused(f)
  PROVE  Picture'
<1> DEFINE r == FlusherAt("each", fl[f].ops, fl[f].pay, fl[f].took, DOMAIN fl[f].pay)
<1>1. /\ fl[f].pc = "patch" /\ fl' = [fl EXCEPT ![f] = r]
      /\ UNCHANGED <<bad, node, pending, extra, alive, mark, eventSeq, dropped, closed, stopped,
                     writing, final, left, screen, swept, db>>
  BY DEF PatchRefused, dirty, flow, Shape
<1>2. /\ IsFlusher(r) /\ r.pc = "each" /\ r.pay = fl[f].pay /\ r.took = fl[f].took
      /\ r.todo = DOMAIN fl[f].pay
  BY FlusherFields
<1> HIDE DEF r
<1>3. Moves(f, r) /\ r # Idle
  BY <1>1, <1>2, IdleFlusher DEF Moves
<1>4. StillGiven
  BY <1>1 DEF StillGiven
<1>5. \A i \in Plain : SentPlain(f, r, i)
  BY <1>1, <1>2, SameWords DEF SentPlain
<1>6. \A p \in Panes : SentFrame(f, r, p)
  BY <1>1, <1>2 DEF SentFrame, Whole, Part
<1>7. Sends(f, r)
  BY <1>1, <1>3, <1>4, <1>5, <1>6 DEF Sends
<1>8. OneAtATime'
  BY <1>1, <1>2, FlusherMoves DEF Picture, Active
<1>9. Values'
  BY <1>1, ValuesStay DEF Picture
<1> QED BY <1>7, <1>8, <1>9, SendsKeep DEF Picture

\* A path that has been tried alone is off the list.
Tried(f, q) == FlusherAt(fl[f].pc, fl[f].ops, fl[f].pay, fl[f].took, fl[f].todo \ {q})

LEMMA AloneStep ==
  ASSUME Shape, NEW f \in Flushers, NEW q \in fl[f].todo, Alone(f, q)
  PROVE  /\ fl[f].pc = "each" /\ q \in DOMAIN fl[f].pay
         /\ fl' = [fl EXCEPT ![f] = Tried(f, q)]
         /\ Moves(f, Tried(f, q)) /\ Tried(f, q) # Idle
         /\ Tried(f, q).todo = fl[f].todo \ {q}
         /\ UNCHANGED <<bad, node, pending, alive, eventSeq, closed, stopped, writing, final, left,
                        screen>>
<1> DEFINE todo == fl[f].todo \ {q}
<1>1. /\ fl[f].pc = "each" /\ fl' = [fl EXCEPT ![f] = [fl[f] EXCEPT !.todo = todo]]
      /\ UNCHANGED <<bad, node, pending, alive, eventSeq, closed, stopped, writing, final, left,
                     screen>>
  BY DEF Alone
<1>2. IsFlusher(fl[f]) /\ todo \subseteq DOMAIN fl[f].pay /\ q \in DOMAIN fl[f].pay
  BY DEF Shape, IsFlusher
<1>3. [fl[f] EXCEPT !.todo = todo] = Tried(f, q)
  BY <1>2, FlusherRec DEF Tried
<1>4. /\ IsFlusher(Tried(f, q)) /\ Tried(f, q).todo = todo /\ Tried(f, q).pc = fl[f].pc
      /\ Tried(f, q).pay = fl[f].pay /\ Tried(f, q).took = fl[f].took
  BY <1>2, FlusherFields DEF Tried
<1>5. Tried(f, q) # Idle
  BY <1>1, <1>4, IdleFlusher
<1>6. Moves(f, Tried(f, q))
  BY <1>1, <1>3, <1>4 DEF Moves
<1> QED BY <1>1, <1>2, <1>3, <1>4, <1>5, <1>6

LEMMA AloneOnce ==
  ASSUME Picture, Shape, NEW f \in Flushers, NEW q \in fl[f].todo, Alone(f, q)
  PROVE  OneAtATime'
<1>1. Tried(f, q).pc = "each" /\ IsFlusher(Tried(f, q))
  BY AloneStep DEF Moves
<1> QED BY <1>1, AloneStep, FlusherMoves DEF Picture, Active

LEMMA AloneFailsKeeps ==
  ASSUME Picture, Shape, NEW f \in Flushers, NEW q \in fl[f].todo, AloneFails(f, q)
  PROVE  Picture'
<1>1. /\ Alone(f, q) /\ swept' = TRUE /\ UNCHANGED <<extra, mark, dropped, db>>
  BY DEF AloneFails
<1>2. \A i : GivenUp(i)'
  BY <1>1 DEF GivenUp
<1>3. Mirrored' /\ LastFlush' /\ RingOk'
  BY <1>1, <1>2 DEF Mirrored, LastFlush, Settles, RingOk, Ringing
<1>4. Values'
  BY <1>1, AloneStep, ValuesStay DEF Picture
<1> QED BY <1>1, <1>3, <1>4, AloneOnce DEF Picture

LEMMA OnlyOne == \A pay, q, r : /\ DOMAIN Only(pay, q) = {q} /\ Only(pay, q)[q] = pay[q]
                                /\ (r \in DOMAIN Only(pay, q) <=> r = q)
BY DEF Only

LEMMA AloneLandsKeeps ==
  ASSUME Picture, Shape, NEW f \in Flushers, NEW q \in fl[f].todo, AloneLands(f, q)
  PROVE  Picture'
<1> DEFINE r == Tried(f, q)
<1>1. /\ Alone(f, q) /\ db' = Landed(db, Only(fl[f].pay, q))
      /\ UNCHANGED <<extra, mark, dropped, swept>>
  BY DEF AloneLands
<1>2. /\ fl[f].pc = "each" /\ q \in DOMAIN fl[f].pay /\ r # Idle /\ Moves(f, r)
      /\ r.todo = fl[f].todo \ {q}
      /\ UNCHANGED <<bad, node, pending, alive, eventSeq, closed, stopped, writing, final, left,
                     screen>>
  BY <1>1, AloneStep
<1> HIDE DEF r
<1>3. StillGiven
  BY <1>1, <1>2 DEF StillGiven
<1>4. ASSUME NEW i \in Plain, PlainOk(i) PROVE SentPlain(f, r, i)
  <2>1. db'[i] = IF i = q THEN fl[f].pay[i] ELSE db[i]
    BY <1>1, LandedPlain, OnlyOne
  <2>2. Landed(db, fl[f].pay)[i] = IF i \in DOMAIN fl[f].pay THEN fl[f].pay[i] ELSE db[i]
    BY LandedPlain
  <2>3. i \in DOMAIN fl[f].pay \ fl[f].todo => db[i] = fl[f].pay[i]
    BY <1>2, <1>4 DEF PlainOk
  <2> QED BY <1>1, <1>2, <2>1, <2>2, <2>3, SameWords DEF SentPlain
<1>5. ASSUME NEW p \in Panes, FrameOk(p) PROVE SentFrame(f, r, p)
  <2>1. Waits(f, p) /\ Sent(f, p) /\ Part(f, p) \subseteq Rows
    BY <1>2, <1>5 DEF FrameOk, Part
  <2>2. ASSUME NEW y \in Rows
        PROVE  db'[RowOf(p, y)] = IF RowOf(p, y) = q THEN fl[f].pay[RowOf(p, y)]
                                  ELSE IF FrameOf(p) = q THEN fl[f].pay[FrameOf(p)][y]
                                  ELSE db[RowOf(p, y)]
    BY <1>1, LandedRow, OnlyOne
  <2>3. ASSUME NEW y \in Rows
        PROVE  Landed(db, fl[f].pay)[RowOf(p, y)] =
                  IF RowOf(p, y) \in DOMAIN fl[f].pay THEN fl[f].pay[RowOf(p, y)]
                  ELSE IF FrameOf(p) \in DOMAIN fl[f].pay THEN fl[f].pay[FrameOf(p)][y]
                  ELSE db[RowOf(p, y)]
    BY LandedRow
  <2>4. ASSUME NEW y \in Rows
        PROVE  /\ FrameOf(p) \in DOMAIN fl[f].pay => RowOf(p, y) \notin DOMAIN fl[f].pay
               /\ RowOf(p, y) # FrameOf(p)
    BY <2>1, FramePath, RowPath DEF Waits, Whole, Part
  <2>5. \A y \in Rows : db'[RowOf(p, y)] \in {db[RowOf(p, y)], Landed(db, fl[f].pay)[RowOf(p, y)]}
    BY <1>2, <2>2, <2>3, <2>4
  <2>6. Whole(f, p) /\ FrameOf(p) \notin r.todo =>
          \A y \in Rows : db'[RowOf(p, y)] = fl[f].pay[FrameOf(p)][y]
    BY <1>2, <2>1, <2>2, <2>4 DEF Sent, Whole
  <2>7. \A y \in Part(f, p) : RowOf(p, y) \notin r.todo =>
          db'[RowOf(p, y)] = fl[f].pay[RowOf(p, y)]
    BY <1>2, <2>1, <2>2, <2>4 DEF Sent, Part
  <2> QED BY <1>1, <1>2, <2>5, <2>6, <2>7 DEF SentFrame
<1>6. Sends(f, r)
  BY <1>2, <1>3, <1>4, <1>5, GivenStays DEF Sends, Picture, Mirrored
<1>7. Values'
  BY <1>1, <1>2, ValuesStay DEF Picture
<1> QED BY <1>1, <1>6, <1>7, SendsKeep, AloneOnce DEF Picture

LEMMA DropKeeps ==
  ASSUME Picture, Shape, NEW f \in Flushers, NEW q \in fl[f].todo, Drop(f, q)
  PROVE  Picture'
<1> DEFINE r == Tried(f, q)
<1>1. /\ Alone(f, q) /\ q \in bad /\ dropped' = dropped \cup {q}
      /\ extra' = IF q \in Extras THEN [extra EXCEPT ![q] = None] ELSE extra
      /\ mark' = IF q \in Extras THEN [mark EXCEPT ![q] = 0] ELSE mark
      /\ UNCHANGED <<swept, db>>
  BY DEF Drop
<1>2. /\ fl[f].pc = "each" /\ q \in DOMAIN fl[f].pay /\ r # Idle /\ Moves(f, r)
      /\ r.todo = fl[f].todo \ {q}
      /\ UNCHANGED <<bad, node, pending, alive, eventSeq, closed, stopped, writing, final, left,
                     screen>>
  BY <1>1, AloneStep
<1> HIDE DEF r
<1>3. StillGiven
  BY <1>1, <1>2 DEF StillGiven
<1>4. q \in Items
  BY <1>1, MirrorBounds DEF Picture, Values
<1>5. \A i : i # q /\ i \in Items => mark'[i] = mark[i] /\ (i \in Extras => extra'[i] = extra[i])
  BY <1>1 DEF Shape
<1>6. GivenUp(q)'
  BY <1>1 DEF GivenUp
<1>7. ASSUME NEW i \in Plain, PlainOk(i), i # q PROVE SentPlain(f, r, i)
  <2>1. i \in DOMAIN fl[f].pay \ fl[f].todo => db[i] = fl[f].pay[i]
    BY <1>2, <1>7 DEF PlainOk
  <2> QED BY <1>1, <1>2, <1>5, <1>7, <2>1, PlainPaths, SameWords DEF SentPlain
<1>8. ASSUME NEW p \in Panes, FrameOk(p), FrameOf(p) # q PROVE SentFrame(f, r, p)
  <2>1. Sent(f, p) /\ \A y \in Part(f, p) : RowOf(p, y) # q
    BY <1>2, <1>4, <1>8, RowPath DEF FrameOk, Part
  <2> QED BY <1>1, <1>2, <1>5, <1>8, <2>1, FramePath DEF SentFrame, Sent
<1>9. Sends(f, r)
  BY <1>2, <1>3, <1>6, <1>7, <1>8, GivenStays DEF Sends, Picture, Mirrored
<1>10. Values'
  BY <1>1, <1>2 DEF Picture, Values
<1> QED BY <1>1, <1>9, <1>10, SendsKeep, AloneOnce DEF Picture

-----------------------------------------------------------------------------
(* A flush: what is swept, when the whole batch has arrived.               *)

Arrived(f) ==
    /\ \A i \in Plain : GivenUp(i) \/ db'[i] = Landed(db, fl[f].pay)[i]
    /\ \A p \in Panes : GivenUp(FrameOf(p)) \/
          \A y \in Rows : db'[RowOf(p, y)] = Landed(db, fl[f].pay)[RowOf(p, y)]
Sweeps(f) == /\ f \in Flushers /\ fl[f].pc \in {"patch", "each"} /\ Sweep(f) /\ Arrived(f)
             /\ fl[f].pc = "patch" => db' = Landed(db, fl[f].pay)

LEMMA SweepStep ==
  ASSUME Shape, NEW f \in Flushers, Sweep(f)
  PROVE  /\ fl' = [fl EXCEPT ![f] = Idle]
         /\ fl'[f] = Idle /\ \A g \in Flushers : g # f => fl'[g] = fl[g]
         /\ final' = IF f = "final" THEN "ok" ELSE final
         /\ \A i \in Items : mark'[i] = IF i \in Gone(f) THEN 0 ELSE mark[i]
         /\ \A e \in Extras : e \notin Gone(f) => extra'[e] = extra[e]
         /\ pending' = [p \in Panes |-> IF FrameOf(p) \in Gone(f) THEN NoFrame ELSE pending[p]]
         /\ UNCHANGED <<bad, node, alive, eventSeq, dropped, closed, stopped, writing, left, screen,
                        swept>>
         /\ \A i : GivenUp(i)' = GivenUp(i)
<1>1. /\ fl' = [fl EXCEPT ![f] = Idle]
      /\ final' = IF f = "final" THEN "ok" ELSE final
      /\ mark' = [i \in Items |-> IF i \in Gone(f) THEN 0 ELSE mark[i]]
      /\ extra' = [e \in Extras |-> IF e \in Gone(f) THEN None ELSE extra[e]]
      /\ pending' = [p \in Panes |-> IF FrameOf(p) \in Gone(f) THEN NoFrame ELSE pending[p]]
      /\ UNCHANGED <<bad, node, alive, eventSeq, dropped, closed, stopped, writing, left, screen,
                     swept>>
  BY DEF Sweep, Over, FrameOf
<1>2. fl'[f] = Idle /\ \A g \in Flushers : g # f => fl'[g] = fl[g]
  BY <1>1, OneFlusher, IdleFlusher
<1>3. \A i : GivenUp(i)' = GivenUp(i)
  BY <1>1 DEF GivenUp
<1> QED BY <1>1, <1>2, <1>3

LEMMA PlainSwept ==
  ASSUME Shape, OneAtATime, ~left, NEW f, Sweeps(f),
         NEW i \in Plain, PlainOk(i), db'[i] = Landed(db, fl[f].pay)[i]
  PROVE  PlainOk(i)'
<1>1. f \in Flushers /\ i \in Items /\ Word(i)' = Word(i)
  BY SweepStep, SameWords, PlainPaths DEF Sweeps
<1>2. \A g \in Flushers : DOMAIN fl'[g].pay = {} /\ DOMAIN fl'[g].took = {}
  BY <1>1, SweepStep, Sole, IdleFlusher DEF Sweeps
<1>3. db'[i] = IF i \in DOMAIN fl[f].pay THEN fl[f].pay[i] ELSE db[i]
  BY LandedPlain
<1>4. mark'[i] = IF i \in Gone(f) THEN 0 ELSE mark[i]
  BY <1>1, SweepStep DEF Sweeps
<1>5. CASE i \in Gone(f)
  BY <1>1, <1>2, <1>3, <1>4, <1>5 DEF Gone, PlainOk, Fresh
<1>6. CASE i \notin Gone(f)
  <2>1. i \in Extras => extra'[i] = extra[i]
    BY <1>6, SweepStep DEF Sweeps
  <2> QED BY <1>1, <1>2, <1>3, <1>4, <1>6, <2>1 DEF PlainOk, Fresh
<1> QED BY <1>5, <1>6

\* Once what is fresh has arrived, the database is the screen.
LEMMA FrameArrived ==
  ASSUME NEW f \in Flushers, NEW p \in Panes, FrameOk(p), Fresh(f, FrameOf(p)),
         \A y \in Rows : db'[RowOf(p, y)] = Landed(db, fl[f].pay)[RowOf(p, y)]
  PROVE  \A y \in Rows : db'[RowOf(p, y)] = screen[p][y]
<1>1. Waits(f, p) /\ Complete(f, p)
  BY DEF FrameOk
<1>2. ASSUME NEW y \in Rows PROVE db'[RowOf(p, y)] = screen[p][y]
  <2>1. screen[p][y] = Shows(p, y)
    BY DEF FrameOk, Showing
  <2>2. db'[RowOf(p, y)] =
            IF RowOf(p, y) \in DOMAIN fl[f].pay THEN fl[f].pay[RowOf(p, y)]
            ELSE IF FrameOf(p) \in DOMAIN fl[f].pay THEN fl[f].pay[FrameOf(p)][y]
            ELSE db[RowOf(p, y)]
    BY LandedRow
  <2>3. CASE pending[p].key
    <3>1. Whole(f, p) /\ RowOf(p, y) \notin DOMAIN fl[f].pay
      BY <1>1, <2>3 DEF Complete, Waits, Part
    <3> QED BY <1>1, <2>1, <2>2, <2>3, <3>1 DEF Complete, Whole, Shows
  <2>4. CASE ~pending[p].key
    <3>1. ~Whole(f, p) /\ (y \in Part(f, p) <=> pending[p].lines[y] # None)
      BY <1>1, <2>4 DEF Complete, Waits
    <3> QED BY <1>1, <2>1, <2>2, <2>4, <3>1 DEF Complete, Whole, Part, Shows
  <2> QED BY <2>3, <2>4
<1> QED BY <1>2

LEMMA FrameSwept ==
  ASSUME Shape, OneAtATime, ~left, NEW f, Sweeps(f), NEW p \in Panes, FrameOk(p),
         \A y \in Rows : db'[RowOf(p, y)] = Landed(db, fl[f].pay)[RowOf(p, y)]
  PROVE  FrameOk(p)'
<1>1. f \in Flushers /\ FrameOf(p) \in Items
  BY FramePath DEF Sweeps
<1>2. \A g \in Flushers : DOMAIN fl'[g].pay = {} /\ DOMAIN fl'[g].took = {}
  BY <1>1, SweepStep, Sole, IdleFlusher DEF Sweeps
<1>3. \A g \in Flushers : fl'[g].pc # "each"
  BY <1>1, SweepStep, Sole, IdleFlusher DEF Sweeps
<1>4. /\ mark'[FrameOf(p)] = IF FrameOf(p) \in Gone(f) THEN 0 ELSE mark[FrameOf(p)]
      /\ pending'[p] = IF FrameOf(p) \in Gone(f) THEN NoFrame ELSE pending[p]
      /\ screen' = screen
  BY <1>1, SweepStep DEF Sweeps
<1>5. \A g \in Flushers : Waits(g, p)' /\ ~Fresh(g, FrameOf(p))'
  BY <1>2 DEF Waits, Fresh, Whole, Part
<1>6. Showing(p)'
  <2>1. CASE FrameOf(p) \in Gone(f)
    <3>1. \A y \in Rows : db'[RowOf(p, y)] = screen[p][y]
      BY <1>1, <2>1, FrameArrived DEF Gone, Fresh
    <3>2. pending'[p] = NoFrame
      BY <1>4, <2>1
    <3> QED BY <1>4, <3>1, <3>2 DEF Showing, Shows, NoFrame, NoLines
  <2>2. CASE FrameOf(p) \notin Gone(f)
    <3>1. Waits(f, p)
      BY <1>1 DEF FrameOk
    <3>2. ASSUME NEW y \in Rows PROVE screen'[p][y] = Shows(p, y)'
      <4>1. screen[p][y] = Shows(p, y)
        BY DEF FrameOk, Showing
      <4>2. pending[p].key \/ pending[p].lines[y] # None \/ db'[RowOf(p, y)] = db[RowOf(p, y)]
        BY <3>1, LandedRow DEF Waits, Whole, Part
      <4> QED BY <1>4, <2>2, <4>1, <4>2 DEF Shows
    <3> QED BY <3>2 DEF Showing
  <2> QED BY <2>1, <2>2
<1>7. mark'[FrameOf(p)] = 0 => pending'[p] = NoFrame
  BY <1>4 DEF FrameOk
<1> QED BY <1>3, <1>5, <1>6, <1>7 DEF FrameOk

LEMMA SweepLast ==
  ASSUME Picture, Shape, NEW f, Sweeps(f)
  PROVE  LastFlush'
<1>1. f \in Flushers /\ fl[f].pc \in {"patch", "each"} /\ OneAtATime
  BY DEF Sweeps, Picture
<1>2. /\ \A i : GivenUp(i)' = GivenUp(i)
      /\ fl'[f] = Idle /\ \A g \in Flushers : g # f => fl'[g] = fl[g]
      /\ final' = IF f = "final" THEN "ok" ELSE final
  BY <1>1, SweepStep DEF Sweeps
<1>3. CASE left
  <2>1. \A i \in Told : Settles(i)'
    BY <1>2, <1>3 DEF Settles, GivenUp
  <2> QED BY <2>1 DEF LastFlush
<1>4. CASE ~left /\ f = "run"
  <2>1. final \in {"no", "stopping"}
    BY <1>1, <1>4, OnlyFinal
  <2> QED BY <1>2, <1>4, <2>1 DEF LastFlush
<1>5. CASE ~left /\ f = "final"
  <2>1. final = "flushing" /\ final' = "ok"
    BY <1>1, <1>2, <1>5, OnlyFinal DEF OneAtATime
  <2>2. ASSUME NEW i \in Plain, ~GivenUp(i) PROVE Settles(i)'
    <3>1. PlainOk(i) /\ db'[i] = Landed(db, fl[f].pay)[i] /\ i \in Told /\ ~Shed(i)
      BY <2>2, PlainPaths DEF Picture, Mirrored, Sweeps, Arrived, Shed
    <3>2. Word(i)' = Word(i)
      BY <1>1, SweepStep, SameWords DEF Sweeps
    <3>3. db'[i] = IF i \in DOMAIN fl[f].pay THEN fl[f].pay[i] ELSE db[i]
      BY <3>1, LandedPlain
    <3>4. CASE i \in DOMAIN fl[f].took
      <4>1. db'[i] = Word(i)'
        BY <1>1, <1>5, <3>1, <3>2, <3>3, <3>4 DEF PlainOk, Fresh
      <4> QED BY <4>1, CurrentPlainNext DEF Settles
    <3>5. CASE i \notin DOMAIN fl[f].took
      <4>1. Current(i) /\ db'[i] = db[i]
        BY <1>1, <1>5, <2>1, <2>2, <3>1, <3>3, <3>5 DEF Picture, LastFlush, Settles, PlainOk
      <4> QED BY <3>2, <4>1, CurrentPlain, CurrentPlainNext DEF Settles
    <3> QED BY <3>4, <3>5
  <2>3. ASSUME NEW p \in Panes, ~GivenUp(FrameOf(p)) PROVE Settles(FrameOf(p))'
    <3>1. /\ FrameOk(p) /\ FrameOf(p) \in Told /\ FrameOf(p) \in Items
          /\ \A y \in Rows : db'[RowOf(p, y)] = Landed(db, fl[f].pay)[RowOf(p, y)]
      BY <2>3, FramePath DEF Picture, Mirrored, Sweeps, Arrived
    <3>2. screen' = screen
      BY <1>1, SweepStep DEF Sweeps
    <3>3. CASE FrameOf(p) \in DOMAIN fl[f].took
      <4>1. \A y \in Rows : db'[RowOf(p, y)] = screen[p][y]
        BY <1>1, <1>5, <3>1, <3>3, FrameArrived DEF Fresh
      <4> QED BY <3>2, <4>1, CurrentFrameNext DEF Settles
    <3>4. CASE FrameOf(p) \notin DOMAIN fl[f].took
      <4>1. Settles(FrameOf(p))
        BY <1>1, <1>5, <2>1, <3>1, <3>4 DEF Picture, LastFlush
      <4>2. Waits(f, p)
        BY <1>1, <3>1 DEF FrameOk
      <4>3. \A y \in Rows : db'[RowOf(p, y)] = db[RowOf(p, y)]
        BY <3>1, <3>4, <4>2, LandedRow DEF Waits, Whole, Part
      <4>4. Current(FrameOf(p)) => Current(FrameOf(p))'
        BY <3>2, <4>3, CurrentFrame, CurrentFrameNext
      <4>5. mark'[FrameOf(p)] = mark[FrameOf(p)]
        BY <1>1, <3>1, <3>4, SweepStep DEF Sweeps, Gone
      <4>6. Shed(FrameOf(p)) => Shed(FrameOf(p))'
        BY <4>5 DEF Shed
      <4> QED BY <2>3, <4>1, <4>4, <4>6 DEF Settles
    <3> QED BY <3>3, <3>4
  <2>4. ASSUME NEW i \in Told PROVE Settles(i)'
    <3>1. GivenUp(i) => Settles(i)'
      BY <1>2 DEF Settles
    <3> QED BY <2>2, <2>3, <3>1, ToldItems
  <2> QED BY <2>1, <2>4 DEF LastFlush
<1> QED BY <1>1, <1>3, <1>4, <1>5 DEF Flushers

LEMMA SweepRing ==
  ASSUME Picture, Shape, NEW f, Sweeps(f)
  PROVE  RingOk'
<1> SUFFICES ASSUME Ringing'
    PROVE  /\ Window(db')
           /\ \A g \in Flushers : fl'[g].pc \notin {"patch", "each"}
  BY DEF RingOk, Window
<1>1. f \in Flushers /\ fl[f].pc \in {"patch", "each"} /\ OneAtATime
  BY DEF Sweeps, Picture
<1>2. Ringing /\ ~left
  BY <1>1, SweepStep DEF Ringing, Sweeps
<1>3. \A g \in Flushers : fl'[g].pc \notin {"patch", "each"}
  BY <1>1, <1>2, Sole, SweepStep, IdleFlusher DEF Sweeps
<1>4. PICK pay : pay = fl[f].pay
  OBVIOUS
<1>5. Window(Landed(db, pay))
  BY <1>1, <1>2, <1>4 DEF Picture, RingOk
<1>6. \A i \in Events : Landed(db, pay)[i] = db'[i]
  BY <1>2, <1>4, RingsOn, EventsPlain DEF Sweeps, Arrived
<1>7. Window(db')
  BY <1>5, <1>6, WindowOf
<1> QED BY <1>3, <1>7

LEMMA SweepKeepsPicture ==
  ASSUME Picture, Shape, NEW f, Sweeps(f)
  PROVE  Picture'
<1>1. f \in Flushers /\ fl[f].pc \in {"patch", "each"}
  BY DEF Sweeps
<1>2. /\ \A i : GivenUp(i)' = GivenUp(i)
      /\ fl' = [fl EXCEPT ![f] = Idle]
      /\ final' = IF f = "final" THEN "ok" ELSE final
      /\ pending' = [p \in Panes |-> IF FrameOf(p) \in Gone(f) THEN NoFrame ELSE pending[p]]
      /\ UNCHANGED <<bad, node, eventSeq, dropped, stopped, writing, left, screen>>
  BY <1>1, SweepStep DEF Sweeps
<1>3. Mirrored'
  <2>1. CASE left
    <3>1. \A i : GivenUp(i)'
      BY <1>2, <2>1 DEF GivenUp
    <3> QED BY <3>1 DEF Mirrored
  <2>2. CASE ~left
    <3>1. ASSUME NEW i \in Plain PROVE GivenUp(i)' \/ PlainOk(i)'
      BY <1>2, <2>2, PlainSwept DEF Picture, Mirrored, Sweeps, Arrived
    <3>2. ASSUME NEW p \in Panes PROVE GivenUp(FrameOf(p))' \/ FrameOk(p)'
      BY <1>2, <2>2, FrameSwept DEF Picture, Mirrored, Sweeps, Arrived
    <3> QED BY <3>1, <3>2 DEF Mirrored
  <2> QED BY <2>1, <2>2
<1>4. OneAtATime'
  BY <1>1, <1>2, FlusherMoves, IdleFlusher, EmptyIdle DEF Picture, Active
<1>5. Values'
  <2>1. Values
    BY DEF Picture
  <2>2. ASSUME NEW p \in Panes
        PROVE  /\ pending'[p] = [key |-> pending'[p].key, lines |-> pending'[p].lines]
               /\ pending'[p].key \in BOOLEAN
    <3>1. pending'[p] \in {NoFrame, pending[p]}
      BY <1>2
    <3>2. NoFrame = [key |-> NoFrame.key, lines |-> NoFrame.lines] /\ NoFrame.key \in BOOLEAN
      BY DEF NoFrame
    <3>3. /\ pending[p] = [key |-> pending[p].key, lines |-> pending[p].lines]
          /\ pending[p].key \in BOOLEAN
      BY <2>1 DEF Values
    <3> QED BY <3>1, <3>2, <3>3
  <2>3. pending' = [p \in Panes |-> pending'[p]]
    BY <1>2
  <2> QED BY <1>2, <2>1, <2>2, <2>3 DEF Values
<1> QED BY <1>3, <1>4, <1>5, SweepLast, SweepRing DEF Picture

LEMMA PatchLandsKeeps ==
  ASSUME Picture, Shape, NEW f \in Flushers, PatchLands(f)
  PROVE  Picture'
<1>1. Sweeps(f)
  BY DEF PatchLands, Sweeps, Arrived
<1> QED BY <1>1, SweepKeepsPicture

LEMMA AloneOverKeeps ==
  ASSUME Picture, Shape, NEW f \in Flushers, AloneOver(f)
  PROVE  Picture'
<1>1. fl[f].pc = "each" /\ fl[f].todo = {} /\ Sweep(f) /\ db' = db
  BY DEF AloneOver
<1>2. ASSUME NEW i \in Plain PROVE GivenUp(i) \/ db'[i] = Landed(db, fl[f].pay)[i]
  BY <1>1, LandedPlain DEF Picture, Mirrored, PlainOk
<1>3. ASSUME NEW p \in Panes, NEW y \in Rows, ~GivenUp(FrameOf(p))
      PROVE  db'[RowOf(p, y)] = Landed(db, fl[f].pay)[RowOf(p, y)]
  <2>1. Sent(f, p)
    BY <1>1, <1>3 DEF Picture, Mirrored, FrameOk
  <2> QED BY <1>1, <2>1, LandedRow DEF Sent, Whole, Part
<1>4. Sweeps(f)
  BY <1>1, <1>2, <1>3 DEF Sweeps, Arrived
<1> QED BY <1>4, SweepKeepsPicture

-----------------------------------------------------------------------------
(* A flush: what is taken.                                                 *)

LEMMA ShedFrames ==
  ASSUME NEW shown \in SUBSET Frames, Cardinality(shown) = PerSec,
         NEW i \in Frames, i \notin shown, mark[i] # 0
  PROVE  Shed(i)
<1>1. IsFiniteSet(Frames)
  BY MirrorBounds, FS_Singleton, FS_Product DEF Frames
<1>2. IsFiniteSet(shown) /\ IsFiniteSet(shown \cup {i})
  BY <1>1, FS_Subset, FS_AddElement
<1>3. Cardinality(shown \cup {i}) = PerSec + 1
  BY <1>2, FS_AddElement
<1>4. Cardinality(shown \cup {i}) <= Cardinality(Frames)
  BY <1>1, FS_Subset
<1>5. Cardinality(Frames) \in Nat /\ PerSec \in Nat
  BY <1>1, FS_CardinalityType, MirrorBounds
<1> QED BY <1>3, <1>4, <1>5 DEF Shed

\* The frames taken are waiting; the last flush takes all it has tokens for.
Chosen(f, shown) ==
    /\ shown \subseteq Frames /\ \A i \in shown : mark[i] # 0
    /\ f = "final" => \A i \in Frames \ shown : mark[i] # 0 => Shed(i)

LEMMA TakeShown ==
  ASSUME Shape, NEW f \in Flushers, Take(f)
  PROVE  /\ \E shown : /\ Chosen(f, shown)
                       /\ IF Carrying(f, shown) = {}
                          THEN Over(f, "ok")
                          ELSE fl' = [fl EXCEPT ![f] = Batch(f, shown)] /\ UNCHANGED final
         /\ fl[f].pc \in {"idle", "begin", "take"} /\ Active(f)
         /\ UNCHANGED <<bad, node, pending, extra, alive, mark, eventSeq, dropped, closed, stopped,
                        writing, left, db, screen, swept>>
<1> DEFINE waiting == {i \in Frames : mark[i] # 0}
<1>1. DOMAIN fl = Flushers
  BY DEF Shape
<1>2. PICK shown \in Shown(f, waiting) :
        IF Carrying(f, shown) = {}
           THEN Over(f, "ok")
           ELSE fl' = [fl EXCEPT ![f] = Batch(f, shown)] /\ UNCHANGED final
  <2>1. PICK shown \in Shown(f, waiting) :
          LET took == Due(f) \cup shown
              paths == Carrying(f, shown)
          IN IF paths = {}
             THEN Over(f, "ok")
             ELSE /\ fl' = [fl EXCEPT ![f] =
                               FlusherAt("patch", @.ops, [q \in paths |-> ValueOf(q, @.ops)],
                                         [i \in took |-> mark[i]], {})]
                  /\ UNCHANGED final
    BY DEF Take, Due, Carrying
  <2> QED BY <1>1, <2>1 DEF Batch
<1>3. shown \in SUBSET waiting /\ (f = "final" => shown = waiting \/ Cardinality(shown) = PerSec)
  BY DEF Shown
<1>4. shown \in SUBSET Frames /\ \A i \in shown : mark[i] # 0
  BY <1>3
<1>5. ASSUME f = "final", NEW i \in Frames \ shown, mark[i] # 0 PROVE Shed(i)
  <2>1. Cardinality(shown) = PerSec
    BY <1>3, <1>5
  <2> QED BY <1>4, <1>5, <2>1, ShedFrames
<1>6. Chosen(f, shown)
  BY <1>4, <1>5 DEF Chosen
<1>7. fl[f].pc \in {"idle", "begin", "take"} /\ Active(f)
  BY DEF Take, Begins, Active
<1>8. UNCHANGED <<bad, node, pending, extra, alive, mark, eventSeq, dropped, closed, stopped,
                  writing, left, db, screen, swept>>
  BY DEF Take, dirty
<1> QED BY <1>2, <1>6, <1>7, <1>8

\* The paths of a batch.
LEMMA CarriedPlain ==
  ASSUME NEW f, NEW shown \in SUBSET Frames, NEW i \in Plain
  PROVE  /\ i \in Due(f) \cup shown <=> mark[i] # 0
         /\ i \in Carrying(f, shown) <=> mark[i] # 0 /\ i \notin dropped
<1>1. \A j \in shown : i \notin FramePaths(j[2])
  BY PlainPaths DEF FramePaths, Plain, Meta, Nodes, Events
<1> QED BY <1>1, PlainPaths DEF Carrying, Due

LEMMA ValuePlain ==
  ASSUME NEW i \in Plain, PlainOk(i), mark[i] # 0, NEW ops
  PROVE  ValueOf(i, ops) = Word(i)
<1>1. CASE i = Meta
  BY <1>1 DEF ValueOf, Word, Meta, Ops
<1>2. CASE i \in Nodes /\ i # Meta /\ i[1] = "node"
  BY <1>2, PlainPaths DEF ValueOf, Word
<1>3. CASE i \in Extras /\ i # Meta /\ i[1] = "event"
  BY <1>3, PlainPaths DEF ValueOf, PlainOk
<1> QED BY <1>1, <1>2, <1>3, PlainPaths

LEMMA CarriedFrame ==
  ASSUME Values, NEW f, NEW shown \in SUBSET Frames, NEW p \in Panes
  PROVE  /\ FrameOf(p) \in Due(f) \cup shown <=> FrameOf(p) \in shown
         /\ FrameOf(p) \in Carrying(f, shown) <=>
               FrameOf(p) \in shown /\ pending[p].key /\ FrameOf(p) \notin dropped
         /\ \A y \in Rows : RowOf(p, y) \in Carrying(f, shown) <=>
               FrameOf(p) \in shown /\ ~pending[p].key /\ pending[p].lines[y] # None
         /\ \A ops : ValueOf(FrameOf(p), ops) = pending[p].lines
         /\ \A ops : \A y \in Rows : ValueOf(RowOf(p, y), ops) = pending[p].lines[y]
<1>1. FrameOf(p) \notin Due(f) /\ \A y \in Rows : RowOf(p, y) \notin Due(f) /\ RowOf(p, y) \notin dropped
  <2>1. dropped \subseteq Items
    BY MirrorBounds DEF Values
  <2> QED BY <2>1, FramePath, RowPath DEF Due
<1>2. \A j \in shown : \E q \in Panes : j = FrameOf(q) /\ j[2] = q
  BY DEF Frames, FrameOf
<1>3. ASSUME NEW q \in Panes
      PROVE  FramePaths(q) = IF pending[q].key THEN {FrameOf(q)}
                             ELSE {RowOf(q, y) : y \in {z \in Rows : pending[q].lines[z] # None}}
  BY DEF FramePaths, FrameOf, RowOf
<1>4. ASSUME NEW j \in shown
      PROVE  /\ FrameOf(p) \in FramePaths(j[2]) <=> j = FrameOf(p) /\ pending[p].key
             /\ \A y \in Rows : RowOf(p, y) \in FramePaths(j[2]) <=>
                   j = FrameOf(p) /\ ~pending[p].key /\ pending[p].lines[y] # None
  <2>1. PICK q \in Panes : j = FrameOf(q) /\ j[2] = q
    BY <1>2
  <2>2. j = FrameOf(p) <=> q = p
    BY <2>1, FramePath
  <2>3. \A y \in Rows : RowOf(q, y) # FrameOf(p) /\ RowOf(p, y) # FrameOf(q)
    BY FramePath, RowPath
  <2>4. \A y, z \in Rows : RowOf(p, y) = RowOf(q, z) => p = q /\ y = z
    BY RowPath
  <2>5. FrameOf(p) \in FramePaths(q) <=> q = p /\ pending[p].key
    BY <1>3, <2>2, <2>1, <2>3
  <2>6. \A y \in Rows : RowOf(p, y) \in FramePaths(q) <=>
           q = p /\ ~pending[p].key /\ pending[p].lines[y] # None
    BY <1>3, <2>3, <2>4
  <2> QED BY <2>1, <2>2, <2>5, <2>6
<1>5. /\ FrameOf(p) \in UNION {FramePaths(j[2]) : j \in shown} <=> FrameOf(p) \in shown /\ pending[p].key
      /\ \A y \in Rows : RowOf(p, y) \in UNION {FramePaths(j[2]) : j \in shown} <=>
            FrameOf(p) \in shown /\ ~pending[p].key /\ pending[p].lines[y] # None
  BY <1>4
<1>6. \A ops : ValueOf(FrameOf(p), ops) = pending[p].lines
  BY FramePath DEF ValueOf
<1>7. \A ops : \A y \in Rows : ValueOf(RowOf(p, y), ops) = pending[p].lines[y]
  BY DEF ValueOf, RowOf, Meta, Ops
<1> QED BY <1>1, <1>5, <1>6, <1>7 DEF Carrying

\* What a batch is not made of is in the database, given up, or shed.
LEMMA Untaken ==
  ASSUME Picture, NEW shown, Chosen("final", shown),
         NEW i \in Told, i \notin Due("final") \cup shown
  PROVE  Settles(i)
<1>1. CASE i \in Plain
  <2>1. mark[i] = 0
    BY <1>1, CarriedPlain DEF Chosen
  <2> QED BY <1>1, <2>1, CurrentPlain DEF Picture, Mirrored, PlainOk, Settles
<1>2. ASSUME NEW p \in Panes, i = FrameOf(p) PROVE Settles(i)
  <2>1. i \in Frames \ shown
    BY <1>2, FramePath
  <2>2. CASE mark[i] # 0
    BY <2>1, <2>2 DEF Chosen, Settles
  <2>3. CASE mark[i] = 0 /\ ~GivenUp(i)
    <3>1. Showing(p) /\ pending[p] = NoFrame
      BY <1>2, <2>3 DEF Picture, Mirrored, FrameOk
    <3>2. \A y \in Rows : db[RowOf(p, y)] = screen[p][y]
      BY <3>1 DEF Showing, Shows, NoFrame, NoLines
    <3> QED BY <1>2, <3>2, CurrentFrame DEF Settles
  <2> QED BY <2>2, <2>3 DEF Settles
<1> QED BY <1>1, <1>2, ToldItems

\* A batch with no path in it: what it would be made of shows already.
LEMMA NothingToSend ==
  ASSUME Picture, NEW shown, Chosen("final", shown), Carrying("final", shown) = {},
         NEW i \in Told
  PROVE  Settles(i)
<1>1. CASE i \in Plain
  <2>1. i \in Due("final") \cup shown => i \in dropped
    BY <1>1, CarriedPlain DEF Chosen
  <2> QED BY <2>1, Untaken DEF Settles, GivenUp
<1>2. ASSUME NEW p \in Panes, i = FrameOf(p), i \in shown, ~GivenUp(i) PROVE Settles(i)
  <2>1. FrameOf(p) \notin dropped
    BY <1>2 DEF GivenUp
  <2>2. ~pending[p].key /\ \A y \in Rows : pending[p].lines[y] = None
    BY <1>2, <2>1, CarriedFrame DEF Picture, Chosen
  <2>3. Showing(p)
    BY <1>2 DEF Picture, Mirrored, FrameOk
  <2>4. \A y \in Rows : db[RowOf(p, y)] = screen[p][y]
    BY <2>2, <2>3 DEF Showing, Shows
  <2> QED BY <1>2, <2>4, CurrentFrame DEF Settles
<1>3. ASSUME NEW p \in Panes, i = FrameOf(p) PROVE Settles(i)
  <2>1. i \in shown \/ i \notin Due("final") \cup shown
    BY <1>3, FramePath DEF Due
  <2> QED BY <1>2, <1>3, <2>1, Untaken DEF Settles
<1> QED BY <1>1, <1>3, ToldItems

\* What neither a mark nor a value changes.
Unsaid == UNCHANGED <<bad, node, pending, extra, alive, mark, eventSeq, dropped, closed, stopped,
                      writing, left, db, screen, swept>>

LEMMA SettlesSame == Unsaid => \A i : Settles(i) => Settles(i)'
<1> SUFFICES ASSUME Unsaid, NEW i, Settles(i) PROVE Settles(i)'
  OBVIOUS
<1>1. /\ Current(i)' = Current(i) /\ GivenUp(i)' = GivenUp(i) /\ Shed(i)' = Shed(i)
  BY DEF Unsaid, Current, InRing, GivenUp, Shed
<1> QED BY <1>1 DEF Settles

LEMMA TakeOverKeeps ==
  ASSUME Picture, Shape, NEW f \in Flushers, NEW shown, Chosen(f, shown), Carrying(f, shown) = {},
         Over(f, "ok"), fl[f].pc \in {"idle", "begin", "take"}, Active(f), Unsaid
  PROVE  Picture'
<1>1. fl' = [fl EXCEPT ![f] = Idle] /\ final' = IF f = "final" THEN "ok" ELSE final
  BY DEF Over
<1>2. fl'[f] = Idle /\ \A g \in Flushers : g # f => fl'[g] = fl[g]
  BY <1>1, OneFlusher, IdleFlusher
<1>3. Empty(fl[f])
  BY DEF Picture, OneAtATime
<1>4. fl[f].pay = <<>> /\ fl[f].took = <<>> /\ fl[f].todo = {}
  BY <1>3 DEF Empty, FlusherAt
<1>5. Idle.pay = <<>> /\ Idle.took = <<>> /\ Idle.todo = {} /\ Idle.pc = "idle"
  BY DEF Idle, FlusherAt
<1>6. SameFlush
  BY <1>2, <1>4, <1>5 DEF SameFlush
<1>7. Writes
  <2>1. \A i : Word(i)' = Word(i)
    BY SameWords DEF Unsaid
  <2> QED BY <1>6, <2>1 DEF Writes, Unsaid, StillGiven, PlainSame, FrameSame
<1>8. LastFlush'
  <2>1. CASE f = "final"
    <3>1. final' = "ok" /\ \A i \in Told : Settles(i)'
      BY <1>1, <2>1, NothingToSend, SettlesSame
    <3> QED BY <3>1 DEF LastFlush
  <2>2. CASE f = "run"
    BY <1>1, <1>7, <2>2, WritesKeep DEF FinalStill
  <2> QED BY <2>1, <2>2 DEF Flushers
<1>9. OneAtATime'
  BY <1>1, FlusherMoves, IdleFlusher, EmptyIdle DEF Picture, Unsaid
<1>10. Values'
  BY ValuesStay DEF Picture, Unsaid
<1> QED BY <1>7, <1>8, <1>9, <1>10, WritesKeep DEF Picture

LEMMA BatchFields ==
  ASSUME NEW f, NEW shown
  PROVE  /\ IsFlusher(Batch(f, shown)) /\ Batch(f, shown).pc = "patch"
         /\ DOMAIN Batch(f, shown).pay = Carrying(f, shown)
         /\ \A q \in Carrying(f, shown) : Batch(f, shown).pay[q] = ValueOf(q, fl[f].ops)
         /\ DOMAIN Batch(f, shown).took = Due(f) \cup shown
         /\ \A i \in Due(f) \cup shown : Batch(f, shown).took[i] = mark[i]
         /\ Batch(f, shown).todo = {}
<1> DEFINE pay == [q \in Carrying(f, shown) |-> ValueOf(q, fl[f].ops)]
           took == [i \in Due(f) \cup shown |-> mark[i]]
<1>1. /\ DOMAIN pay = Carrying(f, shown) /\ DOMAIN took = Due(f) \cup shown
      /\ \A q \in Carrying(f, shown) : pay[q] = ValueOf(q, fl[f].ops)
      /\ \A i \in Due(f) \cup shown : took[i] = mark[i]
  OBVIOUS
<1>2. Batch(f, shown) = FlusherAt("patch", fl[f].ops, pay, took, {})
  BY DEF Batch
<1> HIDE DEF pay, took
<1>3. /\ IsFlusher(Batch(f, shown)) /\ Batch(f, shown).pc = "patch"
      /\ Batch(f, shown).pay = pay /\ Batch(f, shown).took = took /\ Batch(f, shown).todo = {}
  BY <1>2, FlusherFields
<1> QED BY <1>1, <1>3

Taking(f, shown) ==
    /\ f \in Flushers /\ Chosen(f, shown)
    /\ fl' = [fl EXCEPT ![f] = Batch(f, shown)] /\ final' = final
    /\ fl[f].pc \in {"idle", "begin", "take"} /\ Active(f) /\ Unsaid

LEMMA TakingStep ==
  ASSUME Shape, NEW f, NEW shown, Taking(f, shown)
  PROVE  fl'[f] = Batch(f, shown) /\ \A g \in Flushers : g # f => fl'[g] = fl[g]
BY OneFlusher, BatchFields DEF Taking

LEMMA PlainTaken ==
  ASSUME Shape, NEW f, NEW shown, Taking(f, shown), NEW i \in Plain, PlainOk(i), ~GivenUp(i)
  PROVE  PlainOk(i)'
<1>1. /\ UNCHANGED <<mark, db, extra>> /\ Word(i)' = Word(i)
      /\ f \in Flushers /\ shown \in SUBSET Frames
  BY SameWords DEF Taking, Unsaid, Chosen
<1>2. /\ i \in Due(f) \cup shown <=> mark[i] # 0
      /\ i \in Carrying(f, shown) <=> mark[i] # 0
  BY <1>1, CarriedPlain DEF GivenUp
<1>3. fl'[f] = Batch(f, shown) /\ \A g \in Flushers : g # f => fl'[g] = fl[g]
  BY TakingStep
<1>4. /\ i \in DOMAIN fl'[f].took <=> mark[i] # 0
      /\ i \in DOMAIN fl'[f].pay <=> mark[i] # 0
      /\ mark[i] # 0 => fl'[f].pay[i] = Word(i)
      /\ fl'[f].pc # "each"
  BY <1>2, <1>3, BatchFields, ValuePlain
<1>5. ASSUME NEW g \in Flushers
      PROVE  /\ i \in DOMAIN fl'[g].took <=> i \in DOMAIN fl'[g].pay
             /\ i \in DOMAIN fl'[g].took => mark'[i] # 0
             /\ Fresh(g, i)' => fl'[g].pay[i] = Word(i)'
             /\ fl'[g].pc = "each" /\ i \in DOMAIN fl'[g].pay \ fl'[g].todo => db'[i] = fl'[g].pay[i]
  <2>1. CASE g = f
    BY <1>1, <1>4, <2>1 DEF Fresh
  <2>2. CASE g # f
    BY <1>1, <1>3, <2>2 DEF PlainOk, Fresh
  <2> QED BY <2>1, <2>2
<1> QED BY <1>1, <1>5 DEF PlainOk

LEMMA FrameTaken ==
  ASSUME Shape, Values, NEW f, NEW shown, Taking(f, shown),
         NEW p \in Panes, FrameOk(p), ~GivenUp(FrameOf(p))
  PROVE  FrameOk(p)'
<1>1. /\ UNCHANGED <<mark, db, pending, screen>>
      /\ f \in Flushers /\ shown \in SUBSET Frames /\ \A i \in shown : mark[i] # 0
  BY DEF Taking, Unsaid, Chosen
<1>2. fl'[f] = Batch(f, shown) /\ \A g \in Flushers : g # f => fl'[g] = fl[g]
  BY TakingStep
<1>3. FrameOf(p) \notin dropped
  BY DEF GivenUp
<1>4. /\ FrameOf(p) \in DOMAIN fl'[f].took <=> FrameOf(p) \in shown
      /\ Whole(f, p)' <=> FrameOf(p) \in shown /\ pending[p].key
      /\ Whole(f, p)' => fl'[f].pay[FrameOf(p)] = pending[p].lines
      /\ \A y \in Rows : RowOf(p, y) \in DOMAIN fl'[f].pay <=>
            FrameOf(p) \in shown /\ ~pending[p].key /\ pending[p].lines[y] # None
      /\ \A y \in Rows : RowOf(p, y) \in DOMAIN fl'[f].pay =>
            fl'[f].pay[RowOf(p, y)] = pending[p].lines[y]
      /\ fl'[f].pc # "each"
  BY <1>1, <1>2, <1>3, BatchFields, CarriedFrame DEF Whole
<1>5. Part(f, p)' = IF FrameOf(p) \in shown /\ ~pending[p].key
                    THEN {y \in Rows : pending[p].lines[y] # None} ELSE {}
  BY <1>4 DEF Part
<1>6. Waits(f, p)'
  BY <1>1, <1>4, <1>5 DEF Waits
<1>7. Fresh(f, FrameOf(p))' => Complete(f, p)'
  BY <1>1, <1>4, <1>5 DEF Fresh, Complete
<1>8. ASSUME NEW g \in Flushers
      PROVE  /\ Waits(g, p)' /\ (Fresh(g, FrameOf(p))' => Complete(g, p)')
             /\ fl'[g].pc = "each" => Sent(g, p)'
  <2>1. CASE g = f
    BY <1>4, <1>6, <1>7, <2>1
  <2>2. CASE g # f
    <3>1. fl'[g] = fl[g]
      BY <1>2, <2>2
    <3>2. Whole(g, p)' = Whole(g, p) /\ Part(g, p)' = Part(g, p)
      BY <3>1 DEF Whole, Part
    <3>3. Waits(g, p)'
      BY <1>1, <3>1, <3>2 DEF FrameOk, Waits
    <3>4. Fresh(g, FrameOf(p))' = Fresh(g, FrameOf(p)) /\ (Complete(g, p) => Complete(g, p)')
      BY <1>1, <3>1, <3>2 DEF Fresh, Complete
    <3>5. Sent(g, p) => Sent(g, p)'
      BY <1>1, <3>1, <3>2 DEF Sent, Part
    <3> QED BY <3>1, <3>3, <3>4, <3>5 DEF FrameOk
  <2> QED BY <2>1, <2>2
<1>9. Showing(p)'
  BY <1>1 DEF FrameOk, Showing, Shows
<1> QED BY <1>1, <1>8, <1>9 DEF FrameOk

LEMMA WordOfEvent ==
  ASSUME Values, NEW s \in 1..MaxEvents
  PROVE  Word(<<"event", s>>) # None <=> s <= eventSeq /\ s > eventSeq - eventRing
BY MirrorBounds DEF Word, InRing, Meta

LEMMA TakingKeeps ==
  ASSUME Picture, Shape, NEW f, NEW shown, Taking(f, shown)
  PROVE  Picture'
<1>1. f \in Flushers /\ shown \in SUBSET Frames /\ Chosen(f, shown)
  BY DEF Taking, Chosen
<1>2. fl'[f] = Batch(f, shown) /\ \A g \in Flushers : g # f => fl'[g] = fl[g]
  BY TakingStep
<1>3. \A i : GivenUp(i)' = GivenUp(i)
  BY DEF Taking, Unsaid, GivenUp
<1>4. Mirrored'
  BY <1>3, PlainTaken, FrameTaken DEF Picture, Mirrored
<1>5. OneAtATime'
  BY <1>1, BatchFields, FlusherMoves DEF Picture, Taking, Unsaid
<1>6. Values'
  BY ValuesStay DEF Picture, Taking, Unsaid
<1>7. LastFlush'
  <2>1. CASE f = "final"
    <3>1. final' = "flushing"
      BY <2>1 DEF Picture, OneAtATime, Taking, Active
    <3>2. ASSUME NEW i \in Told, i \notin DOMAIN fl'["final"].took PROVE Settles(i)'
      <4>1. i \notin Due("final") \cup shown
        BY <1>2, <2>1, <3>2, BatchFields, <1>1
      <4>2. Settles(i)
        BY <1>1, <2>1, <4>1, Untaken
      <4> QED BY <4>2, SettlesSame DEF Taking
    <3> QED BY <3>1, <3>2 DEF LastFlush
  <2>2. CASE f = "run"
    <3>1. fl'["final"] = fl["final"] /\ final' = final
      BY <1>2, <2>2 DEF Taking, Flushers
    <3>2. \A i : Settles(i) => Settles(i)'
      BY SettlesSame DEF Taking
    <3> QED BY <3>1, <3>2 DEF Picture, LastFlush
  <2> QED BY <1>1, <2>1, <2>2 DEF Flushers
<1>8. RingOk'
  <2> SUFFICES ASSUME Ringing'
      PROVE  /\ (\A g \in Flushers : fl'[g].pc # "each") => Window(db')
             /\ \A g \in Flushers :
                   fl'[g].pc \in {"patch", "each"} => Window(Landed(db', fl'[g].pay))
    BY DEF RingOk, Window
  <2>1. Ringing /\ db' = db
    BY DEF Ringing, Taking, Unsaid
  <2>2. (\A g \in Flushers : fl'[g].pc # "each") => Window(db')
    <3>1. (\A g \in Flushers : fl'[g].pc # "each") => \A g \in Flushers : fl[g].pc # "each"
      BY <1>1, <1>2 DEF Taking
    <3>2. (\A g \in Flushers : fl'[g].pc # "each") => Window(db)
      BY <2>1, <3>1 DEF Picture, RingOk
    <3> QED BY <2>1, <3>2, WindowOf
  <2>3. Window(Landed(db', fl'[f].pay))
    <3>1. PICK pay : pay = fl'[f].pay
      OBVIOUS
    <3>2. ASSUME NEW s \in 1..MaxEvents
          PROVE  Landed(db, pay)[<<"event", s>>] = Word(<<"event", s>>)
      <4> DEFINE i == <<"event", s>>
      <4>1. i \in Events /\ i \in Plain
        BY DEF Events, Plain
      <4>2. i \notin dropped /\ ~GivenUp(i) /\ PlainOk(i)
        BY <2>1, <4>1, RingsOn DEF Ringing, Picture, Mirrored
      <4>3. i \in DOMAIN pay <=> mark[i] # 0
        BY <1>1, <1>2, <3>1, <4>1, <4>2, BatchFields, CarriedPlain
      <4>4. mark[i] # 0 => pay[i] = Word(i)
        BY <1>1, <1>2, <3>1, <4>1, <4>2, <4>3, BatchFields, ValuePlain
      <4>5. mark[i] = 0 => db[i] = Word(i)
        BY <4>2 DEF PlainOk
      <4>6. Landed(db, pay)[i] = IF i \in DOMAIN pay THEN pay[i] ELSE db[i]
        BY <4>1, LandedPlain
      <4> QED BY <4>3, <4>4, <4>5, <4>6
    <3>3. Values /\ eventSeq \in Nat
      BY DEF Picture, Values
    <3>4. Window(Landed(db, pay))
      <4>1. \A s \in 1..MaxEvents :
              Landed(db, pay)[<<"event", s>>] # None <=> s <= eventSeq /\ s > eventSeq - eventRing
        BY <3>2, <3>3, WordOfEvent
      <4> HIDE DEF Landed
      <4> QED BY <3>3, <4>1 DEF Window
    <3> QED BY <2>1, <3>1, <3>4
  <2>4. ASSUME NEW g \in Flushers, g # f, fl'[g].pc \in {"patch", "each"}
        PROVE  Window(Landed(db', fl'[g].pay))
    <3>1. Window(Landed(db, fl[g].pay))
      BY <1>2, <2>1, <2>4 DEF Picture, RingOk
    <3> QED BY <1>2, <2>1, <2>4, <3>1
  <2> QED BY <2>2, <2>3, <2>4
<1> QED BY <1>4, <1>5, <1>6, <1>7, <1>8 DEF Picture

LEMMA TakeKeepsPicture ==
  ASSUME Picture, Shape, NEW f \in Flushers, Take(f)
  PROVE  Picture'
<1>1. /\ fl[f].pc \in {"idle", "begin", "take"} /\ Active(f) /\ Unsaid
  BY TakeShown DEF Unsaid
<1>2. PICK shown : /\ Chosen(f, shown)
                   /\ IF Carrying(f, shown) = {}
                      THEN Over(f, "ok")
                      ELSE fl' = [fl EXCEPT ![f] = Batch(f, shown)] /\ UNCHANGED final
  BY TakeShown
<1>3. CASE Carrying(f, shown) = {}
  BY <1>1, <1>2, <1>3, TakeOverKeeps
<1>4. CASE Carrying(f, shown) # {}
  BY <1>1, <1>2, <1>4, TakingKeeps DEF Taking
<1> QED BY <1>3, <1>4

\* The op list is built before anything is taken.
LEMMA BuildOpsKeeps ==
  ASSUME Picture, Shape, NEW f \in Flushers, BuildOps(f)
  PROVE  Picture'
<1> DEFINE r == FlusherAt("take", hubOps, <<>>, <<>>, {})
<1>1. /\ fl' = [fl EXCEPT ![f] = r] /\ fl[f].pc \in {"idle", "begin"} /\ Active(f)
      /\ Unsaid /\ final' = final
  BY DEF BuildOps, Begins, Active, Unsaid, dirty, flow
<1>2. /\ IsFlusher(r) /\ r.pc = "take" /\ r.pay = <<>> /\ r.took = <<>> /\ r.todo = {}
  <2>1. {} \subseteq DOMAIN <<>>
    OBVIOUS
  <2> QED BY <2>1, FlusherFields
<1>3. Empty(r)
  BY DEF Empty, FlusherAt
<1> HIDE DEF r
<1>4. fl'[f] = r /\ \A g \in Flushers : g # f => fl'[g] = fl[g]
  BY <1>1, <1>2, OneFlusher
<1>5. fl[f].pay = <<>> /\ fl[f].took = <<>> /\ fl[f].todo = {}
  <2>1. Empty(fl[f])
    BY <1>1 DEF Picture, OneAtATime
  <2> QED BY <2>1 DEF Empty, FlusherAt
<1>6. SameFlush
  BY <1>1, <1>2, <1>4, <1>5 DEF SameFlush
<1>7. Writes
  <2>1. \A i : Word(i)' = Word(i)
    BY <1>1, SameWords DEF Unsaid
  <2> QED BY <1>1, <1>6, <2>1 DEF Writes, Unsaid, StillGiven, PlainSame, FrameSame
<1>8. FinalStill
  BY <1>1 DEF FinalStill
<1>9. OneAtATime'
  BY <1>1, <1>2, <1>3, FlusherMoves DEF Picture, Unsaid
<1>10. Values'
  BY <1>1, ValuesStay DEF Picture, Unsaid
<1> QED BY <1>7, <1>8, <1>9, <1>10, WritesKeep DEF Picture

LEMMA FlushKeepsPicture ==
  ASSUME Picture, Shape, NEW f \in Flushers, Flush(f)
  PROVE  Picture'
BY BuildOpsKeeps, TakeKeepsPicture, PatchLandsKeeps, PatchRefusedKeeps, PatchFailsKeeps,
   AloneOverKeeps, AloneLandsKeeps, AloneFailsKeeps, DropKeeps DEF Flush

-----------------------------------------------------------------------------
(* Steps beside the flushes.                                               *)

LEMMA FlushersStill == fl' = fl => SameFlush
BY DEF SameFlush

LEMMA OnceStill ==
  ASSUME OneAtATime, UNCHANGED <<fl, final, stopped, left>>, writing' => final = "no"
  PROVE  OneAtATime'
BY DEF OneAtATime, Empty

\* Nothing a reader is shown is told.
Untold ==
    /\ UNCHANGED <<alive, node, eventSeq, pending, screen>>
    /\ \A i \in Plain : /\ db'[i] = db[i] /\ mark'[i] = mark[i]
                        /\ i \in Extras => extra'[i] = extra[i]
    /\ \A p \in Panes : /\ mark'[FrameOf(p)] = mark[FrameOf(p)]
                        /\ \A y \in Rows : db'[RowOf(p, y)] = db[RowOf(p, y)]

LEMMA UntoldWrites == Untold /\ SameFlush /\ StillGiven => Writes
BY SameWords DEF Untold, Writes, PlainSame, FrameSame

LEMMA SameUntold ==
  UNCHANGED <<alive, node, eventSeq, pending, screen, db, mark, extra>> => Untold
BY DEF Untold

LEMMA WritesPicture ==
  ASSUME Picture, Writes, FinalStill, OneAtATime', Values'
  PROVE  Picture'
BY WritesKeep DEF Picture

\* Every item's mark after one has been touched.
LEMMA MarkedOne ==
  ASSUME NEW x, Marks({x})
  PROVE  \A i \in Items : mark'[i] = IF i = x THEN NewStamp(i) ELSE mark[i]
BY DEF Marks

LEMMA QuietSteps ==
  ASSUME Picture, Shape, HubChanges \/ CloseSink \/ Stop \/ OpsEvent
  PROVE  Picture'
<1>1. UNCHANGED <<bad, fl, node, pending, extra, alive, eventSeq, dropped, left, db, screen, swept>>
  BY DEF HubChanges, CloseSink, Stop, OpsEvent, dirty, flow
<1>2. (closed => closed') /\ \A i \in Plain : mark'[i] = mark[i]
  <2>1. CASE OpsEvent
    BY <2>1, MarkedOne, PlainPaths DEF OpsEvent
  <2>2. CASE HubChanges \/ CloseSink \/ Stop
    BY <2>2 DEF HubChanges, CloseSink, Stop, dirty, flow
  <2> QED BY <2>1, <2>2 DEF OpsEvent
<1>3. \A p \in Panes : mark'[FrameOf(p)] = mark[FrameOf(p)]
  <2>1. CASE OpsEvent
    BY <2>1, MarkedOne, FramePath DEF OpsEvent
  <2>2. CASE HubChanges \/ CloseSink \/ Stop
    BY <2>2 DEF HubChanges, CloseSink, Stop, dirty, flow
  <2> QED BY <2>1, <2>2
<1>4. Writes
  BY <1>1, <1>2, <1>3, UntoldWrites, FlushersStill DEF Untold, StillGiven
<1>5. FinalStill
  BY DEF HubChanges, CloseSink, Stop, OpsEvent, flow, FinalStill
<1>6. OneAtATime'
  <2>1. CASE Stop
    BY <1>1, <2>1 DEF Stop, Picture, OneAtATime, Empty
  <2>2. CASE HubChanges \/ CloseSink \/ OpsEvent
    <3>1. UNCHANGED <<fl, final, stopped, left>> /\ (writing' => writing \/ final = "no")
      BY <2>2 DEF HubChanges, CloseSink, OpsEvent, MayWrite, flow
    <3> QED BY <3>1, OnceStill DEF Picture, OneAtATime
  <2> QED BY <2>1, <2>2
<1>7. Values'
  BY <1>1, ValuesStay DEF Picture
<1> QED BY <1>4, <1>5, <1>6, <1>7, WritesPicture

LEMMA PaneKeeps ==
  ASSUME Picture, Shape, NEW p \in Panes, NEW entry, Aggregate(p, entry) \/ PaneEvent(p, entry)
  PROVE  Picture'
<1>1. /\ final = "no" /\ MergePane(p, entry)
      /\ UNCHANGED <<bad, fl, pending, extra, alive, eventSeq, dropped, closed, stopped, final, left,
                     db, screen, swept>>
  BY DEF Aggregate, PaneEvent, MayWrite, flow
<1>2. \/ UNCHANGED <<node, mark>>
      \/ node' = [node EXCEPT ![p] = Merged(node[p], entry)] /\ Marks({<<"node", p>>})
  BY <1>1 DEF MergePane
<1>3. node' = [q \in Panes |-> node'[q]] /\ \A q \in Panes : q # p => node'[q] = node[q]
  BY <1>2 DEF Picture, Values
<1>4. SameFlush /\ StillGiven
  BY <1>1, FlushersStill DEF StillGiven
<1>5. ASSUME NEW i \in Plain PROVE PlainSame(i) \/ PlainNew(i)
  <2>1. CASE UNCHANGED <<node, mark>>
    BY <1>1, <2>1, SameWords DEF PlainSame
  <2>2. CASE Marks({<<"node", p>>}) /\ i = <<"node", p>>
    <3>1. mark'[i] = NewStamp(i) /\ i \notin Extras
      BY <2>2, MarkedOne, PlainPaths
    <3> QED BY <1>1, <3>1 DEF PlainNew
  <2>3. CASE Marks({<<"node", p>>}) /\ i # <<"node", p>>
    <3>1. mark'[i] = mark[i]
      BY <2>3, MarkedOne, PlainPaths
    <3>2. Word(i)' = Word(i)
      <4>1. CASE i \in Nodes /\ i # Meta /\ i[1] = "node"
        <5>1. i[2] \in Panes /\ i[2] # p
          BY <2>3, <4>1, PlainPaths
        <5> QED BY <1>3, <4>1, <5>1 DEF Word
      <4>2. CASE i = Meta
        BY <1>1, <4>2 DEF Word, Meta
      <4>3. CASE i # Meta /\ i[1] = "event"
        BY <1>1, <4>3 DEF Word, InRing
      <4> QED BY <4>1, <4>2, <4>3, PlainPaths
    <3> QED BY <1>1, <3>1, <3>2 DEF PlainSame
  <2> QED BY <1>2, <2>1, <2>2, <2>3
<1>6. ASSUME NEW q \in Panes PROVE FrameSame(q)
  <2>1. FrameOf(q) # <<"node", p>>
    BY DEF FrameOf
  <2>2. mark'[FrameOf(q)] = mark[FrameOf(q)]
    BY <1>2, <2>1, MarkedOne, FramePath
  <2> QED BY <1>1, <2>2 DEF FrameSame
<1>7. Writes
  BY <1>1, <1>4, <1>5, <1>6 DEF Writes
<1>8. FinalStill /\ OneAtATime'
  BY <1>1, OnceStill DEF FinalStill, Picture
<1>9. Values'
  BY <1>1, <1>3 DEF Picture, Values
<1> QED BY <1>7, <1>8, <1>9, WritesPicture

LEMMA FrameKeeps ==
  ASSUME Picture, Shape, NEW p \in Panes, NEW key \in BOOLEAN,
         NEW lines \in [Rows -> Vals \cup {None}], Frame(p, key, lines)
  PROVE  Picture'
<1>1. /\ final = "no" /\ UNCHANGED <<bad, fl, node, extra, alive, eventSeq, dropped, closed, stopped,
                                     writing, final, left, db, swept>>
  BY DEF Frame, MayWrite, flow
<1>2. \/ UNCHANGED <<pending, mark, screen>>
      \/ /\ pending' = [pending EXCEPT ![p] = MergeFrame(pending[p], key, lines)]
         /\ Marks({FrameOf(p)})
         /\ screen' = [screen EXCEPT ![p] =
                MergeFrame([key |-> FALSE, lines |-> screen[p]], key, lines).lines]
  BY DEF Frame, FrameOf
<1>3. pending = [q \in Panes |-> pending[q]] /\ screen = [q \in Panes |-> screen[q]]
  BY DEF Picture, Values
<1>4. mark' = mark \/ \A i \in Items : mark'[i] = IF i = FrameOf(p) THEN NewStamp(i) ELSE mark[i]
  <2>1. CASE Marks({FrameOf(p)})
    BY <2>1, MarkedOne
  <2> QED BY <1>2, <2>1
<1>5. SameFlush /\ StillGiven
  BY <1>1, FlushersStill DEF StillGiven
<1>6. ASSUME NEW i \in Plain PROVE PlainSame(i)
  <2>1. mark'[i] = mark[i]
    BY <1>4, FramePath, PlainPaths
  <2> QED BY <1>1, <2>1, SameWords DEF PlainSame
<1>7. ASSUME NEW q \in Panes PROVE FrameSame(q) \/ FrameNew(q)
  <2>1. CASE UNCHANGED <<pending, mark, screen>>
    BY <2>1 DEF FrameSame
  <2>2. CASE Marks({FrameOf(p)}) /\ q # p
    <3>1. mark'[FrameOf(q)] = mark[FrameOf(q)]
      BY <1>4, <2>2, FramePath
    <3>2. pending'[q] = pending[q] /\ screen'[q] = screen[q]
      BY <1>2, <1>3, <2>2
    <3> QED BY <3>1, <3>2 DEF FrameSame
  <2>3. CASE ~UNCHANGED <<pending, mark, screen>> /\ q = p
    <3>1. mark'[FrameOf(p)] = NewStamp(FrameOf(p))
      BY <1>2, <2>3, MarkedOne, FramePath
    <3>2. /\ pending'[p] = MergeFrame(pending[p], key, lines)
          /\ screen'[p] = MergeFrame([key |-> FALSE, lines |-> screen[p]], key, lines).lines
      BY <1>2, <1>3, <2>3
    <3> QED BY <1>1, <2>3, <3>1, <3>2 DEF FrameNew
  <2> QED BY <1>2, <2>1, <2>2, <2>3
<1>8. Writes
  BY <1>1, <1>5, <1>6, <1>7 DEF Writes
<1>9. FinalStill /\ OneAtATime'
  BY <1>1, OnceStill DEF FinalStill, Picture, OneAtATime
<1>10. Values'
  <2>1. pending' = [q \in Panes |-> pending'[q]] /\ screen' = [q \in Panes |-> screen'[q]]
    BY <1>2, <1>3
  <2>2. ASSUME NEW q \in Panes
        PROVE  /\ pending'[q] = [key |-> pending'[q].key, lines |-> pending'[q].lines]
               /\ pending'[q].key \in BOOLEAN
    <3>1. /\ pending[q] = [key |-> pending[q].key, lines |-> pending[q].lines]
          /\ pending[q].key \in BOOLEAN
      BY DEF Picture, Values
    <3>2. PICK m : m = MergeFrame(pending[q], key, lines)
      OBVIOUS
    <3>3. m = [key |-> m.key, lines |-> m.lines] /\ m.key \in BOOLEAN
      BY <3>1, <3>2 DEF MergeFrame
    <3>4. pending'[q] = pending[q] \/ pending'[q] = m
      BY <1>2, <1>3, <3>2
    <3> QED BY <3>1, <3>3, <3>4
  <2> QED BY <1>1, <2>1, <2>2 DEF Picture, Values
<1> QED BY <1>8, <1>9, <1>10, WritesPicture

LEMMA RecordKeeps ==
  ASSUME Picture, Shape, RecordEvent
  PROVE  Picture'
<1>1. UNCHANGED <<bad, fl, node, pending, alive, dropped, closed, stopped, final, left, db, screen,
                  swept>> /\ writing /\ writing' = FALSE
  BY DEF RecordEvent
<1>2. final = "no"
  BY <1>1 DEF Picture, OneAtATime
<1>3. SameFlush /\ StillGiven
  BY <1>1, FlushersStill DEF StillGiven
<1>4. FinalStill /\ OneAtATime'
  BY <1>1, OnceStill DEF FinalStill, Picture
<1>5. CASE closed
  <2>1. UNCHANGED <<extra, mark, eventSeq>>
    BY <1>5 DEF RecordEvent
  <2> QED BY <1>1, <1>3, <1>4, <2>1, UntoldWrites, SameUntold, WritesPicture, ValuesStay DEF Picture
<1>6. CASE ~closed
  <2> DEFINE seq == eventSeq + 1
             trim == seq - eventRing
             keys == {seq, trim} \ -eventRing..0
             paths == {<<"event", s>> : s \in keys}
             vals == [e \in paths |-> IF e[2] = seq THEN "event" ELSE None]
             new == paths \ dropped
  <2>1. eventSeq' = seq /\ SetPaths(vals)
    BY <1>6 DEF RecordEvent
  <2>2. eventSeq \in Nat /\ eventRing \in Nat \ {0}
    BY MirrorBounds DEF Picture, Values
  <2>3. \A e \in paths : vals[e] = IF e[2] = seq THEN "event" ELSE None
    OBVIOUS
  <2>4. DOMAIN vals = paths
    OBVIOUS
  <2>5. \A s \in 1..MaxEvents : <<"event", s>> \in paths <=> s \in {seq, trim}
    <3>1. \A s \in 1..MaxEvents : s \in keys <=> s \in {seq, trim}
      BY <2>2, MirrorBounds
    <3> HIDE DEF keys
    <3>2. \A s : <<"event", s>> \in paths <=> s \in keys
      OBVIOUS
    <3> QED BY <3>1, <3>2
  <2>6. \A i : i \in paths => i[1] = "event"
    OBVIOUS
  <2> HIDE DEF vals, paths, keys
  <2>7. /\ \A e \in Extras : extra'[e] = IF e \in new THEN vals[e] ELSE extra[e]
        /\ IF new = {} THEN UNCHANGED mark ELSE Marks(new)
    BY <2>1, <2>4 DEF SetPaths
  <2>8. \A i \in Items : mark'[i] = IF i \in new THEN NewStamp(i) ELSE mark[i]
    BY <2>7 DEF Marks
  <2>9. ASSUME NEW i \in Plain, i[1] # "event" PROVE PlainSame(i)
    <3>1. mark'[i] = mark[i] /\ i \notin Extras
      BY <2>6, <2>8, <2>9, PlainPaths
    <3>2. Word(i)' = Word(i)
      <4>1. CASE i = Meta
        BY <1>1, <4>1 DEF Word, Meta
      <4>2. CASE i # Meta /\ i[1] = "node"
        BY <1>1, <4>2 DEF Word
      <4> QED BY <2>9, <4>1, <4>2, PlainPaths
    <3> QED BY <3>1, <3>2 DEF PlainSame
  <2>10. ASSUME NEW s \in 1..MaxEvents
         PROVE  LET i == <<"event", s>> IN GivenUp(i)' \/ PlainSame(i) \/ PlainNew(i)
    <3> DEFINE i == <<"event", s>>
    <3>1. i \in Plain /\ i \in Extras /\ i \in Items
      BY PlainPaths DEF Plain, Events, Extras, Items
    <3>2. Word(i) = IF InRing(s) THEN "event" ELSE None
      BY DEF Word, Meta
    <3>3. Word(i)' = IF s <= seq /\ s > seq - eventRing THEN "event" ELSE None
      BY <2>1 DEF Word, Meta, InRing
    <3>4. CASE s \notin {seq, trim}
      <4>1. Word(i)' = Word(i)
        <5>1. s \in Int
          BY MirrorBounds
        <5>2. s <= seq /\ s > seq - eventRing <=> s <= eventSeq /\ s > eventSeq - eventRing
          BY <2>2, <3>4, <5>1
        <5> QED BY <3>2, <3>3, <5>2 DEF InRing
      <4>2. i \notin new
        BY <2>5, <3>4
      <4> QED BY <2>7, <2>8, <3>1, <4>1, <4>2 DEF PlainSame
    <3>5. CASE s \in {seq, trim} /\ i \in dropped
      BY <1>1, <3>5 DEF GivenUp
    <3>6. CASE s \in {seq, trim} /\ i \notin dropped
      <4>1. i \in new
        BY <2>5, <3>6
      <4>2. vals[i] = IF s = seq THEN "event" ELSE None
        BY <2>3, <4>1
      <4>3. vals[i] = Word(i)'
        BY <2>2, <3>3, <3>6, <4>2
      <4> QED BY <1>2, <2>7, <2>8, <3>1, <4>1, <4>3 DEF PlainNew
    <3> QED BY <3>4, <3>5, <3>6
  <2>11. ASSUME NEW i \in Plain PROVE GivenUp(i)' \/ PlainSame(i) \/ PlainNew(i)
    <3>1. CASE i[1] = "event"
      BY <2>10, <3>1, PlainPaths DEF Meta
    <3> QED BY <2>9, <3>1
  <2>12. ASSUME NEW q \in Panes PROVE FrameSame(q)
    <3>1. mark'[FrameOf(q)] = mark[FrameOf(q)]
      BY <2>6, <2>8, FramePath
    <3> QED BY <1>1, <3>1 DEF FrameSame
  <2>13. Writes
    BY <1>1, <1>3, <2>11, <2>12 DEF Writes
  <2>14. Values'
    BY <1>1, <2>1, <2>2 DEF Picture, Values
  <2> QED BY <1>4, <2>13, <2>14, WritesPicture
<1> QED BY <1>5, <1>6

LEMMA HeartbeatKeeps ==
  ASSUME Picture, Shape, Heartbeat
  PROVE  Picture'
<1>1. /\ Marks({Meta})
      /\ UNCHANGED <<bad, fl, node, pending, extra, alive, eventSeq, dropped, closed, stopped,
                     writing, final, left, db, screen, swept>>
  BY DEF Heartbeat, flow
<1>2. \A i \in Items : mark'[i] = IF i = Meta THEN NewStamp(i) ELSE mark[i]
  BY <1>1, MarkedOne
<1>3. ASSUME NEW i \in Plain PROVE PlainSame(i) \/ PlainNew(i)
  BY <1>1, <1>2, PlainPaths, SameWords DEF PlainSame, PlainNew
<1>4. ASSUME NEW q \in Panes PROVE FrameSame(q)
  BY <1>1, <1>2, FramePath DEF FrameSame
<1>5. Writes
  BY <1>1, <1>3, <1>4, FlushersStill DEF Writes, StillGiven
<1>6. FinalStill /\ OneAtATime'
  BY <1>1, OnceStill DEF FinalStill, Picture, OneAtATime
<1>7. Values'
  BY <1>1, ValuesStay DEF Picture
<1> QED BY <1>5, <1>6, <1>7, WritesPicture

\* A flusher between two batches moves on.
LEMMA MovePc ==
  ASSUME Shape, NEW f \in Flushers, NEW pc, pc \notin {"patch", "each"},
         fl[f].pc \notin {"patch", "each"}, FlusherTo(f, pc)
  PROVE  /\ SameFlush /\ fl'[f].pc = pc /\ \A g \in Flushers : g # f => fl'[g] = fl[g]
         /\ Empty(fl[f]) => Empty(fl'[f])
<1> DEFINE r == FlusherAt(pc, fl[f].ops, fl[f].pay, fl[f].took, fl[f].todo)
<1>1. fl' = [fl EXCEPT ![f] = [fl[f] EXCEPT !.pc = pc]]
  BY DEF FlusherTo
<1>2. IsFlusher(fl[f]) /\ fl[f].todo \subseteq DOMAIN fl[f].pay
  BY DEF Shape, IsFlusher
<1>3. /\ IsFlusher(r) /\ r.pay = fl[f].pay /\ r.took = fl[f].took /\ r.pc = pc
      /\ r.todo = fl[f].todo
  BY <1>2, FlusherFields
<1>4. [fl[f] EXCEPT !.pc = pc] = r
  BY <1>2, FlusherRec
<1>5. fl' = [fl EXCEPT ![f] = r]
  BY <1>1, <1>4
<1>6. Empty(fl[f]) => Empty(r)
  <2> SUFFICES ASSUME Empty(fl[f]) PROVE Empty(r)
    OBVIOUS
  <2>1. fl[f].pay = <<>> /\ fl[f].took = <<>> /\ fl[f].todo = {}
    BY DEF Empty, FlusherAt
  <2> QED BY <2>1 DEF Empty, FlusherAt
<1> HIDE DEF r
<1>7. fl'[f] = r /\ \A g \in Flushers : g # f => fl'[g] = fl[g]
  BY <1>3, <1>5, OneFlusher
<1>8. SameFlush
  BY <1>3, <1>7 DEF SameFlush
<1> QED BY <1>3, <1>6, <1>7, <1>8

LEMMA RunExitsKeeps ==
  ASSUME Picture, Shape, RunExits
  PROVE  Picture'
<1>1. /\ FlusherTo("run", "off") /\ fl["run"].pc = "idle" /\ "run" \in Flushers
      /\ UNCHANGED <<bad, node, pending, extra, alive, mark, eventSeq, dropped, closed, stopped,
                     writing, final, left, db, screen, swept>>
  BY DEF RunExits, dirty, flow, Flushers
<1>2. /\ SameFlush /\ fl'["run"].pc = "off" /\ fl'["final"] = fl["final"]
      /\ Empty(fl["run"]) => Empty(fl'["run"])
  BY <1>1, MovePc DEF Flushers
<1>3. Writes
  BY <1>1, <1>2, SameUntold, UntoldWrites DEF StillGiven
<1>4. FinalStill
  BY <1>1 DEF FinalStill
<1>5. OneAtATime'
  <2>1. Empty(fl["run"])
    BY <1>1 DEF Picture, OneAtATime
  <2>2. \A f \in Flushers : fl'[f].pc \notin {"patch", "each"} => Empty(fl'[f])
    BY <1>2, <2>1 DEF Picture, OneAtATime, Flushers
  <2> QED BY <1>1, <1>2, <2>2 DEF Picture, OneAtATime, Empty
<1>6. Values'
  BY <1>1, ValuesStay DEF Picture
<1> QED BY <1>3, <1>4, <1>5, <1>6, WritesPicture

LEMMA FinalFlushKeeps ==
  ASSUME Picture, Shape, FinalFlush
  PROVE  Picture'
<1>1. /\ FlusherTo("final", "begin") /\ "final" \in Flushers /\ Marks({Meta})
      /\ final = "stopping" /\ final' = "flushing"
      /\ left' = (fl["run"].pc \notin {"idle", "off"})
      /\ UNCHANGED <<bad, node, pending, extra, eventSeq, dropped, closed, stopped, writing, db,
                     screen, swept>>
  BY DEF FinalFlush, Flushers
<1>2. fl["final"].pc = "idle" /\ ~left
  BY <1>1 DEF Picture, OneAtATime
<1>3. /\ SameFlush /\ fl'["final"].pc = "begin" /\ fl'["run"] = fl["run"]
      /\ Empty(fl["final"]) => Empty(fl'["final"])
  BY <1>1, <1>2, MovePc DEF Flushers
<1>4. \A i \in Items : mark'[i] = IF i = Meta THEN NewStamp(i) ELSE mark[i]
  BY <1>1, MarkedOne
<1>5. ASSUME NEW i \in Plain PROVE PlainSame(i) \/ PlainNew(i)
  <2>1. CASE i = Meta
    BY <1>1, <1>4, <2>1, PlainPaths DEF PlainNew
  <2>2. CASE i # Meta /\ i[1] = "node"
    BY <1>1, <1>4, <2>2, PlainPaths DEF PlainSame, Word
  <2>3. CASE i # Meta /\ i[1] = "event"
    BY <1>1, <1>4, <2>3, PlainPaths DEF PlainSame, Word, InRing
  <2> QED BY <2>1, <2>2, <2>3, PlainPaths
<1>6. ASSUME NEW q \in Panes PROVE FrameSame(q)
  BY <1>1, <1>4, FramePath DEF FrameSame
<1>7. StillGiven
  BY <1>1, <1>2 DEF StillGiven
<1>8. Writes
  BY <1>1, <1>3, <1>5, <1>6, <1>7 DEF Writes
<1>9. FinalStill
  BY <1>1, <1>3 DEF FinalStill
<1>10. OneAtATime'
  <2>1. Empty(fl["final"])
    BY <1>2 DEF Picture, OneAtATime, Flushers
  <2>2. \A f \in Flushers : fl'[f].pc \notin {"patch", "each"} => Empty(fl'[f])
    BY <1>3, <2>1 DEF Picture, OneAtATime, Flushers
  <2> QED BY <1>1, <1>3, <2>2 DEF Picture, OneAtATime, Empty
<1>11. Values'
  BY <1>1, ValuesStay DEF Picture
<1> QED BY <1>8, <1>9, <1>10, <1>11, WritesPicture

LEMMA MirrorKeepsPicture ==
  ASSUME Picture, Shape, MirrorNext
  PROVE  Picture'
BY QuietSteps, PaneKeeps, RecordKeeps, FrameKeeps, HeartbeatKeeps, FlushKeepsPicture,
   RunExitsKeeps, FinalFlushKeeps DEF MirrorNext, Written

-----------------------------------------------------------------------------
(* Commands beside the mirror.                                             *)

\* The mirror of a step that tells no reader anything.
LEMMA UntoldPicture ==
  ASSUME Picture, Untold, UNCHANGED <<bad, fl, dropped, closed, stopped, writing, final, left, swept>>
  PROVE  Picture'
<1>1. SameFlush /\ StillGiven /\ FinalStill
  BY FlushersStill DEF StillGiven, FinalStill
<1>2. Writes
  BY <1>1, UntoldWrites
<1>3. OneAtATime'
  BY OnceStill DEF Picture, OneAtATime
<1>4. Values'
  BY ValuesStay DEF Picture, Untold
<1> QED BY <1>1, <1>2, <1>3, <1>4, WritesPicture

LEMMA StillPicture ==
  ASSUME Picture, UNCHANGED mirrorVars
  PROVE  Picture'
BY UntoldPicture, SameUntold DEF mirrorVars, dirty, flow

\* A path of a command is set.
LEMMA SetPathUntold ==
  ASSUME Shape, NEW q, NEW v, q \notin Plain, \A p \in Panes : q # FrameOf(p),
         SetPath(q, v), UNCHANGED <<alive, node, eventSeq, pending, screen, db>>
  PROVE  Untold
<1>1. CASE stopped
  BY <1>1, SameUntold DEF SetPath
<1>2. CASE ~stopped
  <2> DEFINE vals == [e \in {q} |-> v]
             new == DOMAIN vals \ dropped
  <2>1. SetPaths(vals)
    BY <1>2 DEF SetPath
  <2>2. new \subseteq {q}
    OBVIOUS
  <2>3. /\ extra' = [e \in Extras |-> IF e \in new THEN vals[e] ELSE extra[e]]
        /\ IF new = {} THEN UNCHANGED mark ELSE Marks(new)
    BY <2>1 DEF SetPaths
  <2> HIDE DEF new, vals
  <2>4. \A i \in Items : i # q => mark'[i] = mark[i]
    BY <2>2, <2>3 DEF Marks
  <2>5. \A i \in Extras : i # q => extra'[i] = extra[i]
    BY <2>2, <2>3
  <2> QED BY <2>4, <2>5, PlainPaths, FramePath DEF Untold
<1> QED BY <1>1, <1>2

LEMMA ExecuteKeepsPicture ==
  ASSUME Picture, Shape, CommandTypes, NEW c \in Commands, Execute(c) \/ Post(c)
  PROVE  Picture'
<1>1. CASE Begin(c) \/ ClaimFails(c) \/ RunOp(c)
  BY <1>1, StillPicture DEF Begin, ClaimFails, RunOp
<1>2. CASE ClaimLands(c) \/ Post(c)
  <2>1. /\ \/ db' = [db EXCEPT ![Result(c)] = "claimed"]
           \/ db' = [db EXCEPT ![Command(c)] = "posted"]
        /\ UNCHANGED <<extra, mark>> /\ UNCHANGED unwritten
    BY <1>2 DEF ClaimLands, Post
  <2>2. \A i \in Plain : db'[i] = db[i]
    BY <2>1, PlainPaths DEF Shape
  <2>3. \A p \in Panes, y \in Rows : db'[RowOf(p, y)] = db[RowOf(p, y)]
    BY <2>1, RowPath DEF Shape
  <2> QED BY <2>1, <2>2, <2>3, UntoldPicture DEF Untold, unwritten, flow
<1>3. ASSUME NEW d \in Commands, NEW v,
             \/ SetPath(Result(d), v) \/ SetPath(Command(d), v) \/ UNCHANGED <<extra, mark>>,
             UNCHANGED unwritten, db' = db
      PROVE  Picture'
  <2>1. \A x \in {Result(d), Command(d)} : x \notin Plain /\ \A p \in Panes : x # FrameOf(p)
    BY PlainPaths, FramePath
  <2>2. UNCHANGED <<alive, node, eventSeq, pending, screen, db>>
    BY <1>3 DEF unwritten
  <2>3. ASSUME SetPath(Result(d), v) PROVE Untold
    <3>1. PICK x : x = Result(d)
      OBVIOUS
    <3> QED BY <2>1, <2>2, <2>3, <3>1, SetPathUntold
  <2>4. ASSUME SetPath(Command(d), v) PROVE Untold
    <3>1. PICK x : x = Command(d)
      OBVIOUS
    <3> QED BY <2>1, <2>2, <2>4, <3>1, SetPathUntold
  <2>5. Untold
    BY <1>3, <2>2, <2>3, <2>4, SameUntold
  <2> QED BY <1>3, <2>5, UntoldPicture DEF unwritten, flow
<1>4. CASE WriteResult(c)
  <2>1. PICK v : v = verdict[c]
    OBVIOUS
  <2> QED BY <1>3, <1>4, <2>1 DEF WriteResult
<1>5. CASE DeleteCommand(c)
  BY <1>3, <1>5 DEF DeleteCommand
<1>6. CASE Trim(c)
  <2>1. PICK h \in Commands : h = Head(Append(completed, c))
    BY ResultRing
  <2>2. /\ UNCHANGED <<extra, mark>> \/ SetPath(Result(h), None)
        /\ UNCHANGED unwritten /\ db' = db
    BY <1>6, <2>1 DEF Trim
  <2> QED BY <1>3, <2>2
<1> QED BY <1>1, <1>2, <1>4, <1>5, <1>6 DEF Execute

\* A process that starts: its node is empty, and its meta is to be written.
Started ==
    /\ bad \subseteq Bad
    /\ node = [p \in Panes |-> NoNode]
    /\ pending = [p \in Panes |-> NoFrame]
    /\ alive = TRUE
    /\ mark = [i \in Items |-> IF i \in {Meta, Ops} THEN 1 ELSE 0]
    /\ eventSeq = 0 /\ dropped = {} /\ stopped = FALSE /\ writing = FALSE
    /\ fl = [f \in Flushers |-> Idle] /\ final = "no"
    /\ screen = [p \in Panes |-> NoLines] /\ left = FALSE
    /\ \A i \in Leaves : i[1] \notin {"result", "command"} => db[i] = EmptyDb[i]

LEMMA StartPicture == Started => Picture
<1> SUFFICES ASSUME Started PROVE Picture
  OBVIOUS
<1>1. /\ bad \subseteq Bad
      /\ node = [p \in Panes |-> NoNode]
      /\ pending = [p \in Panes |-> NoFrame]
      /\ alive = TRUE
      /\ mark = [i \in Items |-> IF i \in {Meta, Ops} THEN 1 ELSE 0]
      /\ eventSeq = 0 /\ dropped = {} /\ stopped = FALSE /\ writing = FALSE
      /\ fl = [f \in Flushers |-> Idle] /\ final = "no"
      /\ screen = [p \in Panes |-> NoLines] /\ left = FALSE
      /\ \A i \in Leaves : i[1] \notin {"result", "command"} => db[i] = EmptyDb[i]
  BY DEF Started
<1>2. Values
  <2>1. NoFrame = [key |-> NoFrame.key, lines |-> NoFrame.lines] /\ NoFrame.key \in BOOLEAN
    BY DEF NoFrame
  <2> QED BY <1>1, <2>1 DEF Values
<1>3. \A f \in Flushers : /\ fl[f] = Idle /\ Empty(fl[f]) /\ fl[f].pc = "idle"
                          /\ DOMAIN fl[f].pay = {} /\ DOMAIN fl[f].took = {}
  BY <1>1, EmptyIdle, IdleFlusher
<1>4. OneAtATime
  BY <1>1, <1>3 DEF OneAtATime, Flushers
<1>5. ASSUME NEW i \in Plain PROVE PlainOk(i)
  <2>1. CASE i = Meta
    BY <1>1, <1>3, <2>1, PlainPaths DEF PlainOk, Fresh
  <2>2. CASE i # Meta /\ i[1] = "node" /\ i \in Nodes
    <3>1. db[i] = NoNode /\ Word(i) = NoNode
      BY <1>1, <2>2, PlainPaths DEF Word, EmptyDb
    <3> QED BY <1>3, <2>2, <3>1, PlainPaths, <1>1 DEF PlainOk, Fresh
  <2>3. CASE i # Meta /\ i[1] = "event" /\ i \in Events
    <3>1. i \notin Nodes /\ i \notin {Meta, Ops} /\ i[2] \in Nat /\ ~(i[2] <= 0)
      BY <2>3, PlainPaths, MirrorBounds DEF Nodes, Events
    <3>2. db[i] = None /\ Word(i) = None
      BY <1>1, <2>3, <3>1, PlainPaths DEF Word, InRing, EmptyDb
    <3>3. mark[i] = 0
      BY <1>1, <3>1, PlainPaths
    <3> QED BY <1>3, <3>2, <3>3 DEF PlainOk, Fresh
  <2> QED BY <2>1, <2>2, <2>3, PlainPaths
<1>6. ASSUME NEW p \in Panes PROVE FrameOk(p)
  <2>1. \A f \in Flushers : ~Whole(f, p) /\ Part(f, p) = {}
    BY <1>3 DEF Whole, Part
  <2>2. \A f \in Flushers : Waits(f, p) /\ ~Fresh(f, FrameOf(p))
    BY <1>3, <2>1 DEF Waits, Fresh
  <2>3. ASSUME NEW y \in Rows PROVE screen[p][y] = Shows(p, y)
    <3>1. db[RowOf(p, y)] = None
      <4>1. RowOf(p, y) \notin Nodes
        BY RowPath DEF Items
      <4> QED BY <1>1, <4>1, RowPath DEF EmptyDb
    <3> QED BY <1>1, <3>1 DEF Shows, NoLines, NoFrame
  <2>4. Showing(p)
    BY <2>3 DEF Showing
  <2> QED BY <1>1, <1>3, <2>2, <2>4 DEF FrameOk
<1>7. LastFlush
  BY <1>1 DEF LastFlush
<1>8. Window(db)
  <2>1. ASSUME NEW s \in 1..MaxEvents PROVE db[<<"event", s>>] = None /\ ~(s <= 0)
    <3>1. <<"event", s>> \in Leaves /\ <<"event", s>> \notin Nodes /\ <<"event", s>>[1] = "event"
      BY DEF Leaves, Extras, Nodes
    <3>2. ~(s <= 0)
      BY MirrorBounds
    <3> QED BY <1>1, <3>1, <3>2 DEF EmptyDb
  <2> QED BY <2>1 DEF Window
<1>9. RingOk
  BY <1>3, <1>8 DEF RingOk, Window
<1> QED BY <1>2, <1>4, <1>5, <1>6, <1>7, <1>9 DEF Picture, Mirrored

LEMMA StartNext == Started' => Picture'
BY StartPicture, PTL

LEMMA InitPicture == Init => Picture
<1>1. Init => Started
  BY DEF Init, MirrorInit, Started
<1> QED BY <1>1, StartPicture

LEMMA RestartKeepsPicture ==
  ASSUME Picture, Restart
  PROVE  Picture'
<1>1. Started'
  <2>1. bad' \subseteq Bad
    BY DEF Restart, Picture, Values
  <2> QED BY <2>1 DEF Restart, Started
<1>2. Started' => Picture'
  BY StartNext
<1> QED BY <1>1, <1>2

LEMMA NextPicture == IInv /\ Picture /\ [Next]_vars => Picture'
<1> SUFFICES ASSUME IInv, Picture, [Next]_vars PROVE Picture'
  OBVIOUS
<1>1. Shape /\ CommandTypes
  BY DEF IInv
<1>2. CASE UNCHANGED vars \/ Connect \/ Disconnect \/ Handle \/ Quiesce
  BY <1>2, StillPicture DEF vars, Connect, Disconnect, Handle, Quiesce, Quiet
<1>3. CASE MirrorNext
  BY <1>1, <1>3, MirrorKeepsPicture
<1>4. CASE Restart
  BY <1>4, RestartKeepsPicture
<1>5. ASSUME NEW c \in Commands, Post(c) \/ Execute(c) PROVE Picture'
  BY <1>1, <1>5, ExecuteKeepsPicture
<1> QED BY <1>2, <1>3, <1>4, <1>5 DEF Next

\* A window holds eventRing events at most.
LEMMA WindowBounds ==
  ASSUME NEW d, Window(d)
  PROVE  Cardinality({s \in 1..MaxEvents : d[<<"event", s>>] # None}) <= eventRing
<1> DEFINE S == {s \in 1..MaxEvents : d[<<"event", s>>] # None}
<1>1. PICK k \in Nat : \A s \in 1..MaxEvents : d[<<"event", s>>] # None <=> s <= k /\ s > k - eventRing
  BY DEF Window
<1>2. eventRing \in Nat \ {0} /\ MaxEvents \in Nat
  BY MirrorBounds
<1>3. k - eventRing + 1 \in Int /\ k \in Int
  BY <1>2
<1>4. S \subseteq (k - eventRing + 1)..k
  BY <1>1, <1>2
<1>5. IsFiniteSet((k - eventRing + 1)..k) /\ Cardinality((k - eventRing + 1)..k) = eventRing
  <2>1. k - eventRing + 1 <= k /\ k - (k - eventRing + 1) + 1 = eventRing
    BY <1>2
  <2> QED BY <1>3, <2>1, FS_Interval
<1>6. Cardinality(S) <= Cardinality((k - eventRing + 1)..k)
  BY <1>4, <1>5, FS_Subset
<1> QED BY <1>5, <1>6

\* mirror.go, 23-28, 290-296 and 409-411: whatever is written while a batch is on its
\* way, however often a batch fails, lands without an answer or is sent path by path,
\* and whoever flushes, what is not marked is in the database; the last flush leaves
\* the end state there; and the ring of events never grows past its bound.
THEOREM PictureStays == Spec => []PictureIsCurrent
<1>1. Picture => CleanIsCurrent
  <2> SUFFICES ASSUME Picture, NEW i \in Told, mark[i] = 0, ~GivenUp(i) PROVE Current(i)
    BY DEF CleanIsCurrent
  <2>1. CASE i \in Plain
    BY <2>1, CurrentPlain DEF Picture, Mirrored, PlainOk
  <2>2. ASSUME NEW p \in Panes, i = FrameOf(p) PROVE Current(i)
    <3>1. Showing(p) /\ pending[p] = NoFrame
      BY <2>2 DEF Picture, Mirrored, FrameOk
    <3>2. \A y \in Rows : db[RowOf(p, y)] = screen[p][y]
      BY <3>1 DEF Showing, Shows, NoFrame, NoLines
    <3> QED BY <2>2, <3>2, CurrentFrame
  <2> QED BY <2>1, <2>2, ToldItems
<1>2. Picture => FinalPicture
  BY DEF Picture, LastFlush, Settles, FinalPicture
<1>3. Picture => RingBounded
  <2> SUFFICES ASSUME Picture, \A s \in 1..MaxEvents : ~GivenUp(<<"event", s>>),
                      \A f \in Flushers : fl[f].pc # "each"
               PROVE  Cardinality({s \in 1..MaxEvents : db[<<"event", s>>] # None}) <= eventRing
    BY DEF RingBounded
  <2>1. CASE MaxEvents = 0
    <3>1. {s \in 1..MaxEvents : db[<<"event", s>>] # None} \subseteq 1..MaxEvents
      OBVIOUS
    <3>2. IsFiniteSet(1..MaxEvents) /\ Cardinality(1..MaxEvents) = 0
      BY <2>1, FS_Interval
    <3>3. Cardinality({s \in 1..MaxEvents : db[<<"event", s>>] # None}) <= 0
      BY <3>1, <3>2, FS_Subset
    <3>4. Cardinality({s \in 1..MaxEvents : db[<<"event", s>>] # None}) \in Nat
      BY <3>1, <3>2, FS_Subset, FS_CardinalityType
    <3> QED BY <3>3, <3>4, MirrorBounds
  <2>2. CASE MaxEvents # 0
    <3>1. 1 \in 1..MaxEvents
      BY <2>2, MirrorBounds
    <3>2. ~swept /\ ~left /\ ~closed
      BY <3>1 DEF GivenUp
    <3>3. Ringing
      BY <3>2 DEF Ringing, Events, GivenUp
    <3>4. Window(db)
      BY <3>3 DEF Picture, RingOk
    <3> QED BY <3>4, WindowBounds
  <2> QED BY <2>1, <2>2
<1>4. Picture => PictureIsCurrent
  BY <1>1, <1>2, <1>3 DEF PictureIsCurrent
<1>5. Init => Picture
  BY InitPicture
<1>6. IInv /\ Picture /\ [Next]_vars => Picture'
  BY NextPicture
<1> QED BY <1>4, <1>5, <1>6, Invariant, PTL DEF Spec
=============================================================================
