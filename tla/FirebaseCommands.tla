-------------------------- MODULE FirebaseCommands --------------------------
(***************************************************************************)
(* Commands through the database (transport/firebase/commands.go), beside  *)
(* the mirror whose batches carry their answers.  A command is claimed in  *)
(* the database before its op runs; the stream may show it again; the      *)
(* process may die and another one start in its place.                     *)
(***************************************************************************)
EXTENDS FirebaseMirror, Sequences, SequencesExt

CONSTANTS
    KindOf,         \* command -> "lane", "plain", "read" or "bad" (it fails a check)
    executors,      \* ops run at once that are not delivered to a pane
    resultRing,     \* completed results kept
    MaxStarts       \* bound: processes started

ASSUME CommandBounds ==
    /\ IsFiniteSet(Commands)
    /\ None \notin Nat \cup {"posted", "claimed", "refused", "done"}
    /\ KindOf \in [Commands -> {"lane", "plain", "read", "bad"}]
    /\ executors \in Nat \ {0} /\ resultRing \in Nat \ {0} /\ MaxStarts \in Nat

VARIABLES
    start,      \* the second at which the process started
    home,       \* command -> the session node it was written to
    stream,     \* commands the open stream still has to show, in order
    open,       \* the stream is open
    handled,    \* commands this process has taken
    cmd,        \* command -> how far this process is with it
    lane,       \* the pane's lane
    verdict,    \* command -> the answer to give
    claims,     \* claims on their way to the database
    completed,  \* answered commands, in order
    quiesced,   \* the hub takes and runs nothing more on lanes
    ran,        \* history: command -> how often its op ran
    trimmed     \* history: commands whose result was taken off the ring

cmdVars == <<start, home, stream, open, handled, cmd, lane, verdict, claims, completed, quiesced, ran, trimmed>>
vars == <<mirrorVars, cmdVars>>

Result(c) == <<"result", c>>
Command(c) == <<"command", c>>

\* MakeSID: the session node carries the second the process started in.
MakeSID(second) == second

CommandsInit ==
    /\ stream = <<>> /\ open = FALSE /\ handled = {}
    /\ cmd = [c \in Commands |-> "no"] /\ verdict = [c \in Commands |-> None]
    /\ lane = <<>> /\ completed = <<>> /\ quiesced = FALSE
    /\ start = 0 /\ home = [c \in Commands |-> None] /\ claims = {}
    /\ ran = [c \in Commands |-> 0] /\ trimmed = {}

Init == MirrorInit /\ CommandsInit

\* The mirror as SetPath sees it.
unwritten == <<bad, hubOps, opsNews, node, pending, alive, eventSeq, flow, fl, screen, swept, news>>
Quiet == UNCHANGED mirrorVars

------------------------------------------------------------------------------
(* The client and the stream.                                              *)

\* A client writes a command under the session it knows.
Post(c) ==
    /\ home[c] = None
    /\ home' = [home EXCEPT ![c] = MakeSID(start)]
    /\ db' = [db EXCEPT ![Command(c)] = "posted"]
    /\ stream' = IF open THEN Append(stream, c) ELSE stream
    /\ UNCHANGED <<unwritten, extra, mark, start, open, handled, cmd, lane,
                   verdict, claims, completed, quiesced, ran, trimmed>>

\* In the order of their ids, which are the clients' own.
Backlog == SetToSeq({c \in Commands : home[c] = MakeSID(start) /\ db[Command(c)] # None})

\* listenOnce: the first put is everything that is there.
Connect ==
    /\ ~open /\ open' = TRUE
    /\ stream' = Backlog
    /\ UNCHANGED <<mirrorVars, start, home, handled, cmd, lane, verdict, claims, completed,
                   quiesced, ran, trimmed>>

\* The stream ends, or is cancelled; listen reconnects.
Disconnect ==
    /\ open /\ open' = FALSE /\ stream' = <<>>
    /\ UNCHANGED <<mirrorVars, start, home, handled, cmd, lane, verdict, claims, completed,
                   quiesced, ran, trimmed>>

\* Mutant: a command the stream shows again is taken again.
HandleAgain ==
    LET c == Head(stream)
    IN /\ stream # <<>>
       /\ stream' = Tail(stream) /\ handled' = handled \cup {c}
       /\ cmd' = [cmd EXCEPT ![c] = "waiting"]
       /\ lane' = IF KindOf[c] = "lane" THEN Append(lane, c) ELSE lane
       /\ UNCHANGED <<mirrorVars, start, home, open, verdict, claims, completed, quiesced, ran, trimmed>>

\* Mutant: a command that is refused is not answered.
HandleSilently ==
    LET c == Head(stream)
        refused == KindOf[c] = "bad" \/ (KindOf[c] = "lane" /\ quiesced)
    IN /\ stream # <<>>
       /\ stream' = Tail(stream) /\ handled' = handled \cup {c}
       /\ IF c \in handled
          THEN UNCHANGED <<cmd, lane>>
          ELSE /\ cmd' = [cmd EXCEPT ![c] = IF refused THEN "over" ELSE "waiting"]
               /\ lane' = IF refused THEN lane ELSE Append(lane, c)
       /\ UNCHANGED <<mirrorVars, start, home, open, verdict, claims, completed, quiesced, ran, trimmed>>

\* handle: taken once by this process, checked, and placed.
Handle ==
    LET c == Head(stream)
        refused == KindOf[c] = "bad" \/ (KindOf[c] = "lane" /\ quiesced)
    IN /\ stream # <<>>
       /\ stream' = Tail(stream)
       /\ handled' = handled \cup {c}
       /\ IF c \in handled
          THEN UNCHANGED <<cmd, lane, verdict>>
          ELSE /\ cmd' = [cmd EXCEPT ![c] = IF refused THEN "answer" ELSE "waiting"]
               /\ verdict' = [verdict EXCEPT ![c] = IF refused THEN "refused" ELSE @]
               /\ lane' = IF KindOf[c] = "lane" /\ ~refused THEN Append(lane, c) ELSE lane
       /\ UNCHANGED <<mirrorVars, start, home, open, claims, completed, quiesced, ran, trimmed>>

------------------------------------------------------------------------------
(* Running a command.                                                      *)

Goes(c, to) == cmd' = [cmd EXCEPT ![c] = to]
Answers(c, what) == Goes(c, "answer") /\ verdict' = [verdict EXCEPT ![c] = what]

Busy == {c \in Commands : KindOf[c] # "lane" /\ cmd[c] \in {"claim", "run", "answer", "delete", "trim"}}
MayBegin(c) ==
    /\ cmd[c] = "waiting"
    /\ IF KindOf[c] = "lane" THEN lane # <<>> /\ Head(lane) = c ELSE Cardinality(Busy) < executors

\* run: anything but a read is claimed first.
Begin(c) ==
    /\ MayBegin(c)
    /\ IF KindOf[c] = "read"
       THEN Goes(c, "run") /\ UNCHANGED claims
       ELSE Goes(c, "claim") /\ claims' = claims \cup {c}
    /\ UNCHANGED <<mirrorVars, start, home, stream, open, handled, lane, verdict, completed,
                   quiesced, ran, trimmed>>

\* The claim reaches the database, perhaps after claim has given up on it.
ClaimLands(c) ==
    /\ c \in claims
    /\ claims' = claims \ {c}
    /\ db' = [db EXCEPT ![Result(c)] = "claimed"]
    /\ IF cmd[c] = "claim" THEN \E to \in {"run", "claim"} : Goes(c, to) ELSE UNCHANGED cmd
    /\ UNCHANGED <<unwritten, extra, mark, start, home, stream, open, handled,
                   lane, verdict, completed, quiesced, ran, trimmed>>

\* Mutant: an error of the claim is only logged, and the caller told of it.
ClaimIgnored(c) ==
    /\ cmd[c] = "claim"
    /\ cmd' = [cmd EXCEPT ![c] = "answer"] /\ verdict' = [verdict EXCEPT ![c] = "refused"]
    /\ ran' = [ran EXCEPT ![c] = @ + 1]
    /\ UNCHANGED <<mirrorVars, start, home, stream, open, handled, lane, claims, completed,
                   quiesced, trimmed>>

\* claim returns an error: refused, out of time, its answer lost, or cancelled.
ClaimFails(c) ==
    /\ cmd[c] = "claim"
    /\ Answers(c, "refused")
    /\ \/ claims' = claims \ {c}
       \/ UNCHANGED claims
    /\ UNCHANGED <<mirrorVars, start, home, stream, open, handled, lane, completed, quiesced, ran, trimmed>>

\* hub.Call, and what it returned.
RunOp(c) ==
    /\ cmd[c] = "run"
    /\ ran' = [ran EXCEPT ![c] = @ + 1]
    /\ Answers(c, "done")
    /\ UNCHANGED <<mirrorVars, start, home, stream, open, handled, lane, claims, completed, quiesced, trimmed>>

\* SetPath does nothing once the flusher is stopped.
SetPath(q, v) ==
    IF stopped
    THEN UNCHANGED <<extra, mark>>
    ELSE SetPaths([e \in {q} |-> v])

\* writeResult: the answer, ...
WriteResult(c) ==
    /\ cmd[c] = "answer"
    /\ SetPath(Result(c), verdict[c])
    /\ Goes(c, "delete")
    /\ UNCHANGED <<unwritten, db, start, home, stream, open, handled, lane, verdict, claims,
                   completed, quiesced, ran, trimmed>>

\* ... the deletion of the command, ...
DeleteCommand(c) ==
    /\ cmd[c] = "delete"
    /\ SetPath(Command(c), None)
    /\ Goes(c, "trim")
    /\ UNCHANGED <<unwritten, db, start, home, stream, open, handled, lane, verdict, claims,
                   completed, quiesced, ran, trimmed>>

\* ... and trimResults; then the lane or the executor is free.
Trim(c) ==
    /\ cmd[c] = "trim"
    /\ IF Len(completed) < resultRing
       THEN completed' = Append(completed, c) /\ UNCHANGED <<extra, mark, trimmed>>
       ELSE /\ completed' = Tail(Append(completed, c))
            /\ SetPath(Result(Head(Append(completed, c))), None)
            /\ trimmed' = trimmed \cup {Head(Append(completed, c))}
    /\ lane' = IF lane # <<>> /\ Head(lane) = c THEN Tail(lane) ELSE lane
    /\ Goes(c, "over")
    /\ UNCHANGED <<unwritten, db, start, home, stream, open, handled, verdict, claims, quiesced, ran>>

\* Hub.Quiesce: what waits on a lane is discarded, the claim of what runs is aborted.
Quiesce ==
    /\ ~quiesced /\ final = "no"
    /\ quiesced' = TRUE
    /\ LET thrown == {c \in Commands : KindOf[c] = "lane" /\ cmd[c] = "waiting"}
       IN /\ cmd' = [c \in Commands |-> IF c \in thrown THEN "answer" ELSE cmd[c]]
          /\ verdict' = [c \in Commands |-> IF c \in thrown THEN "refused" ELSE verdict[c]]
          /\ lane' = SelectSeq(lane, LAMBDA c : c \notin thrown)
    /\ UNCHANGED <<mirrorVars, start, home, stream, open, handled, claims, completed, ran, trimmed>>

\* The process dies and is started again a second or more later, with the same id: it
\* mirrors to a node of its own, and knows nothing of the old one.
Restart ==
    /\ start < MaxStarts
    /\ start' = start + 1
    /\ stream' = <<>> /\ open' = FALSE /\ handled' = {}
    /\ cmd' = [c \in Commands |-> "no"] /\ verdict' = [c \in Commands |-> None]
    /\ lane' = <<>> /\ completed' = <<>> /\ quiesced' = FALSE
    /\ hubOps' = 0 /\ opsNews' = FALSE
    /\ node' = [p \in Panes |-> NoNode]
    /\ pending' = [p \in Panes |-> NoFrame] /\ extra' = [e \in Extras |-> None]
    /\ alive' = TRUE
    /\ mark' = [i \in Items |-> IF i \in {Meta, Ops} THEN 1 ELSE 0]
    /\ eventSeq' = 0 /\ dropped' = {} /\ closed' = FALSE /\ stopped' = FALSE /\ writing' = FALSE
    /\ fl' = [f \in Flushers |-> Idle] /\ final' = "no"
    /\ screen' = [p \in Panes |-> NoLines] /\ left' = FALSE
    /\ db' = [l \in Leaves |-> IF l[1] \in {"result", "command"} THEN db[l] ELSE EmptyDb[l]]
    /\ UNCHANGED <<bad, swept, home, claims, ran, trimmed, news>>

Execute(c) ==
    \/ Begin(c) \/ ClaimLands(c) \/ ClaimFails(c) \/ RunOp(c)
    \/ WriteResult(c) \/ DeleteCommand(c) \/ Trim(c)

Next ==
    \/ MirrorNext /\ UNCHANGED cmdVars
    \/ Connect \/ Disconnect \/ Handle \/ Quiesce \/ Restart
    \/ \E c \in Commands : Post(c) \/ Execute(c)

\* Goroutines that can run do, and nobody need post, publish or crash.
FlusherRuns(f) ==
    \/ BuildOps(f) \/ Take(f) \/ PatchRefused(f) \/ AloneOver(f)
    \/ \E q \in fl[f].todo : AloneLands(f, q) \/ AloneFails(f, q) \/ Drop(f, q)
FirebaseFair ==
    /\ WF_vars((OpsEvent \/ RecordEvent) /\ UNCHANGED cmdVars)
    /\ WF_vars(FlusherRuns("run") /\ UNCHANGED cmdVars)
    /\ WF_vars(Connect)
    /\ \A c \in Commands :
        WF_vars(Begin(c) \/ RunOp(c) \/ ClaimFails(c) \/ WriteResult(c) \/ DeleteCommand(c) \/ Trim(c))

Spec == Init /\ [][Next]_vars /\ FirebaseFair

\* The database answers now and then; a stream lives to show what is there.
DatabaseFair ==
    /\ SF_vars((PatchLands("run") \/ PatchRefused("run")) /\ UNCHANGED cmdVars)
    /\ SF_vars((\E q \in fl["run"].todo : AloneLands("run", q) \/ Drop("run", q))
               /\ UNCHANGED cmdVars)
StreamFair == SF_vars(Handle)

\* commands.go, 17-20: "Across a restart nothing replays at all"; nor does a stream
\* that shows a command again (claimHandled).
AtMostOnce == \A c \in Commands : ran[c] <= 1

\* commands.go, 8-14: "there is no state in which magmux runs an op and no durable
\* record of it exists", whenever the process dies and whichever answer is lost.
RunIsOnRecord ==
    \A c \in Commands :
        ran[c] > 0 /\ KindOf[c] # "read" /\ c \notin trimmed => db[Result(c)] # None

\* commands.go, 269 ("NOTHING ran") and 303: what a client reads as refused was not
\* run, and what it reads as done was.
NoFalseAnswer ==
    \A c \in Commands :
        /\ db[Result(c)] = "refused" => ran[c] = 0
        /\ db[Result(c)] = "done" => ran[c] > 0

\* commands.go, 303-305: the answer and the deletion of the command "land together or
\* not at all", so a command that is gone has its answer until the ring takes it off.
\* (Where the database refuses a path, the paths of its batch are sent one by one.)
GoneIsAnswered ==
    bad = {} =>
        \A c \in Commands :
            home[c] # None /\ db[Command(c)] = None => db[Result(c)] # None \/ c \in trimmed

\* What a client reads in the database is true, and there when it looks.
AnswersAreTrue == NoFalseAnswer /\ GoneIsAnswered

\* While the database answers, what it holds catches up with the session...
CatchesUp ==
    DatabaseFair /\ [](~stopped) => <>[](\A i \in Told : Current(i) \/ GivenUp(i))

\* ... and every command posted to this process is answered and deleted.
EveryCommandAnswered ==
    DatabaseFair /\ StreamFair /\ [](~stopped /\ start = 0) =>
        \A c \in Commands : home[c] # None ~> db[Command(c)] = None \/ GivenUp(Command(c))
\* A command runs once at most, and never without a durable record.
RunsOnceOnRecord == AtMostOnce /\ RunIsOnRecord
==============================================================================
