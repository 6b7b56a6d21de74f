------------------------------- MODULE Turns -------------------------------
(* One turn of an agent, from the instruction a client sends to the answer *)
(* it is given: the pane's own idle signals (Pane, VTParser, renderLocked),*)
(* the controller that watches the tool (the Claude transcript or a        *)
(* plugin's pushes), pollControllers, the events a connection receives in  *)
(* order, and client.RunInstruction with the wait it parks in.             *)
(* A turn is named by its number, and so is the answer it gives; 0 is no   *)
(* answer.  Instants are not kept: what mergeTerminalIdle compares is kept *)
(* as one bit, whether the pane went idle after the controller's freshest  *)
(* evidence.                                                               *)
EXTENDS Naturals, Sequences

CONSTANTS
    GridMode,   \* renderLocked runs its idle clocks
    MaxTurns,   \* bound: turns the tool takes
    MaxSends    \* bound: instructions the client sends

ASSUME TurnBounds == GridMode \in BOOLEAN /\ MaxTurns \in Nat /\ MaxSends \in Nat

VARIABLES
    cfg,      \* the controller: is the record found, is there a Stop hook
    tool,     \* the program in the pane
    record,   \* the transcript on disk
    plug,     \* the plugin: what it last saw, and whether it is connected
    pane,     \* Pane: inputReady, inputSignal, the idle clocks
    ctrl,     \* the controller's snapshot, injected, fileSize
    pub,      \* Pane.controllerSnap
    poll,     \* pollControllers, on the render goroutine
    send,     \* the delivery of one instruction
    wire,     \* what the connection will read, in order
    view,     \* SessionState: the client's picture of the pane
    turn,     \* RunInstruction
    over      \* magmux has ended

turnVars == <<cfg, tool, record, plug, pane, ctrl, pub, poll, send, wire,
          view, turn, over>>
toolVars == <<tool, record, plug>>
muxVars == <<pane, ctrl, pub, poll, send>>
clientVars == <<view, turn>>

Settled == {"awaiting_input", "awaiting_permission", "error", "gone"}
Claude == cfg.kind = "claude"

Snap(s, r) == [state |-> s, resp |-> r]
NoSnap == Snap("unknown", 0)
Message(kind, snap) == [kind |-> kind, at |-> snap]
NoResult == [how |-> "none", state |-> "unknown", resp |-> 0]

TurnInit ==
    /\ cfg \in [kind : {"claude", "plugin"}, found : BOOLEAN, hook : BOOLEAN]
    /\ IF Claude THEN cfg.hook => cfg.found ELSE ~cfg.found /\ ~cfg.hook
    /\ tool = [phase |-> "idle", turn |-> 0, said |-> 0, told |-> TRUE]
    /\ record = <<>>
    /\ plug = [saw |-> "idle", up |-> TRUE]
    /\ pane = [ready |-> FALSE, signal |-> "", newer |-> FALSE, clock |-> TRUE]
    /\ ctrl = [state |-> "starting", resp |-> 0, injected |-> FALSE, read |-> 0]
    /\ pub = NoSnap
    /\ poll = [pc |-> "wait", size |-> 0, idle |-> FALSE, ev |-> NoSnap]
    /\ send = "none"
    /\ wire = <<>>
    /\ view = [state |-> "working", resp |-> 0, closed |-> FALSE, ended |-> FALSE]
    /\ turn = [pc |-> "rest", phase |-> "start", sends |-> 0, before |-> 0, mine |-> 0,
               result |-> NoResult]
    /\ over = FALSE

-----------------------------------------------------------------------------
(* The tool, and what the terminal makes of its output.                    *)
Writes(kind, n) == record' = Append(record, [kind |-> kind, turn |-> n])

\* Text on the screen arms the text clock; a working title clears a pane that
\* only the title had called idle.  Bracketed paste going off clears any.
Output(off) ==
    pane' = [pane EXCEPT !.clock = TRUE,
                         !.ready = @ /\ pane.signal # "title" /\ ~off]

\* OSC 9, 777 or 633;B; or bracketed paste coming back on.
Notices(signal) ==
    pane' = [pane EXCEPT !.ready = TRUE, !.signal = signal, !.newer = TRUE,
                         !.clock = TRUE]

\* A poll's look at the pane and the paint of its verdict are microseconds
\* apart: the tool does not take a step of its own between them.
Brief == poll.pc \notin {"merge", "apply"}

ToolBegins ==
    /\ tool.phase = "entered" /\ Brief
    /\ tool' = [tool EXCEPT !.phase = "busy"]
    /\ Writes("user", tool.turn)
    /\ \E off \in BOOLEAN : Output(off)
    /\ UNCHANGED <<cfg, plug, ctrl, pub, poll, send, wire, clientVars>>

\* Assistant text; a turn may be tool calls alone.
ToolSays ==
    /\ tool.phase = "busy" /\ Brief
    /\ \E a \in {0, tool.turn} :
         /\ tool' = [tool EXCEPT !.phase = "said", !.said = a]
         /\ Writes(IF a = 0 THEN "tool" ELSE "assistant", tool.turn)
    /\ Output(FALSE)
    /\ UNCHANGED <<cfg, plug, ctrl, pub, poll, send, wire, clientVars>>

ToolAsks ==
    /\ tool.phase = "busy" /\ Brief
    /\ tool' = [tool EXCEPT !.phase = "asking", !.told = FALSE]
    /\ Output(FALSE)
    /\ UNCHANGED <<cfg, record, plug, ctrl, pub, poll, send, wire, clientVars>>

ToolStops ==
    /\ tool.phase = "said" /\ Brief
    /\ tool' = [tool EXCEPT !.phase = "stopped"]
    /\ IF cfg.hook THEN Writes("stop", tool.turn) ELSE UNCHANGED record
    /\ UNCHANGED <<cfg, plug, pane, ctrl, pub, poll, send, wire, clientVars>>

\* The prompt is back.
ToolRests ==
    /\ tool.phase = "stopped" /\ Brief
    /\ tool' = [tool EXCEPT !.phase = "idle", !.told = FALSE]
    /\ UNCHANGED <<cfg, record, plug, pane, ctrl, pub, poll, send, wire, clientVars>>

\* What the controller watches already says so.
Recorded == Claude \/ plug.saw = tool.phase \/ ~plug.up

\* No poll has measured the record too early and not looked at the pane yet.
Measured == cfg.found /\ poll.pc = "merge" => poll.size = Len(record)

\* The terminal shows it: a notification, bracketed paste, or only the title.
ToolTells ==
    /\ ~tool.told /\ tool.phase \in {"idle", "asking"}
    /\ Recorded /\ Measured
    /\ tool' = [tool EXCEPT !.told = TRUE]
    /\ \/ \E signal \in {"osc", "2004"} : Notices(signal)
       \/ Output(FALSE)
    /\ UNCHANGED <<cfg, record, plug, ctrl, pub, poll, send, wire, clientVars>>

\* writePTY: what is typed takes the pane's readiness with it.
Cleared ==
    IF pane.ready THEN [pane EXCEPT !.ready = FALSE, !.signal = "", !.clock = FALSE]
    ELSE pane
\* What paneTerminalIdle reports that counts as evidence: not magmux's own
\* reading of a controller, and nothing older than the controller's.
PaneIdle == pane.ready /\ pane.signal \notin {"ctrl", "perm"} /\ pane.newer

\* Nothing is on its way that would move the pane.
AtRest ==
    /\ tool.phase \in {"idle", "asking"} /\ tool.told /\ Recorded
    /\ poll.pc = "wait" /\ wire = <<>> /\ send = "none" /\ ~ctrl.injected
    /\ cfg.found => ctrl.read = Len(record)
    /\ pub = Snap(ctrl.state, ctrl.resp) /\ (PaneIdle => ctrl.state \in Settled)
    /\ GridMode => pane.ready \/ ~pane.clock

\* A person answers the permission dialog, in seconds.
PersonAnswers ==
    /\ tool.phase = "asking" /\ AtRest
    /\ turn.pc = "rest" \/ (turn.pc = "park" /\ ~view.closed)
    /\ tool' = [tool EXCEPT !.phase = "busy"]
    /\ pane' = Cleared
    /\ UNCHANGED <<cfg, record, plug, ctrl, pub, poll, send, wire, clientVars>>

\* renderLocked: the title or the text has been at rest for long enough.  The
\* clocks (2 s, 5 s) outlast the gaps in a delivery and in a tool at work.
IdleFires ==
    /\ GridMode /\ ~pane.ready /\ pane.clock /\ poll.pc \in {"wait", "publish"}
    /\ tool.phase \in {"idle", "asking"} /\ tool.told /\ send \notin {"typed", "entered"}
    /\ \E signal \in {"title", "idle"} :
         pane' = [pane EXCEPT !.ready = TRUE, !.signal = signal, !.newer = TRUE]
    /\ UNCHANGED <<cfg, toolVars, ctrl, pub, poll, send, wire, clientVars>>

-----------------------------------------------------------------------------
(* The controller.                                                         *)
\* demoteSettled.
Demoted(c) ==
    IF c.state \in Settled \ {"gone"} THEN [c EXCEPT !.state = "working", !.resp = 0] ELSE c
\* consumeInjected.
Consumed(c) == [(IF c.injected THEN Demoted(c) ELSE c) EXCEPT !.injected = FALSE]

\* applyLine.
Apply(c, line) ==
    CASE line.kind = "user" -> [c EXCEPT !.state = "working", !.resp = 0]
      [] line.kind = "assistant" -> [c EXCEPT !.resp = line.turn]
      [] line.kind = "stop" -> [c EXCEPT !.state = "awaiting_input"]
      [] OTHER -> c
\* scan: the lines of the record after the ones read, up to the last, in order.
Scanned(c, last) ==
    LET after[n \in c.read .. last] ==
          IF n = c.read THEN c ELSE Apply(after[n - 1], record[n])
    IN after[last]
\* mergeTerminalIdle.
Merged(c, idle) ==
    IF c.state \notin Settled /\ idle THEN [c EXCEPT !.state = "awaiting_input"] ELSE c

\* An admitted instruction is being typed before a second poll comes round.
Prompt == send = "admitted" => ctrl.injected

PollBegin ==
    /\ Claude /\ poll.pc = "wait" /\ Prompt
    /\ ctrl' = Consumed(ctrl)
    /\ poll' = [poll EXCEPT !.size = Len(record),
                            !.pc = IF cfg.found /\ Len(record) > ctrl.read
                                   THEN "read" ELSE "merge"]
    /\ UNCHANGED <<cfg, toolVars, pane, pub, send, wire, clientVars>>

\* Everything from the last offset to the end of the file, which may have grown
\* since it was measured; the offset kept is the one measured.
PollRead ==
    /\ poll.pc = "read"
    /\ ctrl' = [Scanned(ctrl, Len(record)) EXCEPT !.read = poll.size]
    /\ pane' = [pane EXCEPT !.newer = FALSE]
    /\ poll' = [poll EXCEPT !.pc = "merge"]
    /\ UNCHANGED <<cfg, toolVars, pub, send, wire, clientVars>>

PollMerge ==
    /\ Claude /\ poll.pc = "merge"
    /\ ctrl' = Merged(ctrl, PaneIdle)
    /\ poll' = [poll EXCEPT !.pc = "apply", !.ev = Snap(ctrl'.state, ctrl'.resp)]
    /\ UNCHANGED <<cfg, toolVars, pane, pub, send, wire, clientVars>>

\* A plugin's controller reads the pane first and takes its own lock after.
PollPaneIdle ==
    /\ ~Claude /\ poll.pc = "wait" /\ Prompt
    /\ poll' = [poll EXCEPT !.pc = "merge", !.idle = PaneIdle]
    /\ UNCHANGED <<cfg, toolVars, pane, ctrl, pub, send, wire, clientVars>>

PollPlugin ==
    /\ ~Claude /\ poll.pc = "merge"
    /\ ctrl' = Merged(Consumed(ctrl), poll.idle)
    /\ poll' = [poll EXCEPT !.pc = "apply", !.ev = Snap(ctrl'.state, ctrl'.resp)]
    /\ UNCHANGED <<cfg, toolVars, pane, pub, send, wire, clientVars>>

\* controller.snapshot: the plugin reports what it sees the tool doing, in
\* order, sooner or later.
Reported ==
    CASE tool.phase \in {"entered", "busy", "said", "stopped"} -> "working"
      [] tool.phase = "asking" -> "awaiting_permission"
      [] OTHER -> "awaiting_input"

Push ==
    /\ ~Claude /\ plug.up /\ plug.saw # tool.phase
    /\ plug' = [plug EXCEPT !.saw = tool.phase]
    /\ ctrl' = [ctrl EXCEPT !.state = Reported, !.injected = FALSE,
                            !.resp = IF tool.phase = "idle" THEN tool.said ELSE 0]
    /\ pane' = [pane EXCEPT !.newer = FALSE]
    /\ poll' = [poll EXCEPT !.idle = FALSE]
    /\ UNCHANGED <<cfg, tool, record, pub, send, wire, clientVars>>

\* markGone.
PluginLeaves ==
    /\ ~Claude /\ plug.up
    /\ plug' = [plug EXCEPT !.up = FALSE]
    /\ UNCHANGED <<cfg, tool, record, muxVars, wire, clientVars>>

\* applyControllerSnapshot.
Painted(p, state) ==
    CASE state = "awaiting_input" /\ ~p.ready ->
           [p EXCEPT !.ready = TRUE, !.signal = "ctrl", !.newer = TRUE]
      [] state = "awaiting_permission" /\ (~p.ready \/ p.signal # "perm") ->
           [p EXCEPT !.ready = TRUE, !.signal = "perm", !.newer = TRUE]
      [] state \in {"working", "starting"} /\ p.ready /\ p.signal # "perm" ->
           [p EXCEPT !.ready = FALSE]
      [] OTHER -> p

PollApply ==
    /\ poll.pc = "apply"
    /\ pub' = poll.ev
    /\ pane' = Painted(pane, poll.ev.state)
    /\ poll' = [poll EXCEPT !.pc = IF poll.ev # pub THEN "publish" ELSE "wait"]
    /\ UNCHANGED <<cfg, toolVars, ctrl, send, wire, clientVars>>

\* The events go out when the frame has been built.
PollPublish ==
    /\ poll.pc = "publish"
    /\ wire' = Append(wire, Message("snapshot", poll.ev))
    /\ poll' = [poll EXCEPT !.pc = "wait"]
    /\ UNCHANGED <<cfg, toolVars, pane, ctrl, pub, send, clientVars>>

-----------------------------------------------------------------------------
(* send: admitted on the connection's reader, typed on its lane.           *)
Admit ==
    /\ send = "asked"
    /\ send' = "admitted"
    /\ ctrl' = [ctrl EXCEPT !.injected = TRUE]
    /\ UNCHANGED <<cfg, toolVars, pane, pub, poll, wire, clientVars>>

Type ==
    /\ send = "admitted"
    /\ send' = "typed"
    /\ pane' = [Cleared EXCEPT !.clock = TRUE]
    /\ UNCHANGED <<cfg, toolVars, ctrl, pub, poll, wire, clientVars>>

\* Enter: the tool takes the instruction, or drops it.
Enter ==
    /\ send = "typed"
    /\ send' = "entered"
    /\ pane' = Cleared
    /\ \/ /\ tool.phase = "idle" /\ tool.turn < MaxTurns
          /\ tool' = [tool EXCEPT !.phase = "entered", !.turn = @ + 1, !.said = 0,
                                !.told = TRUE]
          /\ turn' = [turn EXCEPT !.mine = tool.turn + 1]
       \/ /\ tool' = tool
          /\ turn' = [turn EXCEPT !.mine = 0]
    /\ UNCHANGED <<cfg, record, plug, ctrl, pub, poll, wire, view>>

Answer ==
    /\ send = "entered"
    /\ send' = "none"
    /\ wire' = Append(wire, Message("reply", NoSnap))
    /\ UNCHANGED <<cfg, toolVars, pane, ctrl, pub, poll, clientVars>>

\* buildPaneResults.
Entry == Snap(IF pane.ready THEN "awaiting_input" ELSE "working", pub.resp)

-----------------------------------------------------------------------------
(* The client.                                                             *)
\* bumpLocked: the channel a waiter holds is closed.
Bump(v) == [v EXCEPT !.closed = TRUE]

ApplyPane(v, s) == Bump([v EXCEPT !.state = s.state, !.resp = s.resp])

\* SeedAggregate: an empty answer leaves the one that was there.
Seed(v, s) == Bump([v EXCEPT !.state = s.state, !.resp = IF s.resp = 0 THEN @ ELSE s.resp])

Ingest ==
    /\ wire # <<>> /\ wire' = Tail(wire)
    /\ LET m == Head(wire) IN
       \/ /\ m.kind = "snapshot" /\ view' = ApplyPane(view, m.at)
          /\ UNCHANGED turn
       \/ /\ m.kind = "reply"
          /\ turn' = [turn EXCEPT !.pc = "look", !.phase = "start"]
          /\ UNCHANGED view
       \/ /\ m.kind = "results" /\ view' = Seed(view, m.at)
          /\ UNCHANGED turn
       \/ /\ m.kind = "end" /\ view' = Bump([view EXCEPT !.ended = TRUE])
          /\ UNCHANGED turn
    /\ UNCHANGED <<cfg, toolVars, muxVars, over>>

\* The client speaks when it sees the pane at rest and the last turn's signs
\* are all out.
RunBegin ==
    /\ turn.pc = "rest" /\ turn.sends < MaxSends /\ send = "none"
    /\ view.state \in Settled /\ view.state = ctrl.state
    /\ tool.phase = "idle" /\ tool.told /\ Recorded
    /\ turn' = [turn EXCEPT !.pc = "sent", !.sends = @ + 1, !.before = view.resp,
                            !.mine = 0, !.result = NoResult]
    /\ send' = "asked"
    /\ UNCHANGED <<cfg, toolVars, pane, ctrl, pub, poll, wire, view, over>>

\* Mutant: one wait, for a pane that has settled.
PredSettled == view.state \in Settled

\* The predicate of the phase: left the settled set, and then back in it.
Pred == IF turn.phase = "start" THEN view.state \notin Settled
        ELSE view.state \in Settled

Ended(t, how) ==
    [t EXCEPT !.pc = "rest", !.before = 0,
              !.result = [how |-> how, state |-> view.state, resp |-> view.resp]]

\* wait has returned true.
Holds(t) == IF t.phase = "start" THEN [t EXCEPT !.pc = "look", !.phase = "settle"]
            ELSE [t EXCEPT !.pc = "take"]

\* wait has returned false.  A turn too short to be seen may still have left
\* its answer.
Fails(t) ==
    Ended(t, IF t.phase = "start" /\ view.resp # t.before THEN "unseen" ELSE "stalled")

\* wait: look, subscribe, look again, park.
WaitLooks ==
    /\ turn.pc = "look"
    /\ turn' = IF Pred THEN Holds(turn) ELSE [turn EXCEPT !.pc = "sub"]
    /\ UNCHANGED <<cfg, toolVars, muxVars, wire, view, over>>

WaitSubscribes ==
    /\ turn.pc = "sub"
    /\ turn' = [turn EXCEPT !.pc = "again"]
    /\ view' = [view EXCEPT !.closed = FALSE]
    /\ UNCHANGED <<cfg, toolVars, muxVars, wire, over>>

\* Mutant: parked without a second look.
WaitParks ==
    /\ turn.pc = "again"
    /\ turn' = [turn EXCEPT !.pc = "park"]
    /\ UNCHANGED <<cfg, toolVars, muxVars, wire, view, over>>

WaitLooksAgain ==
    /\ turn.pc = "again"
    /\ turn' = IF Pred THEN Holds(turn)
               ELSE IF view.ended THEN Fails(turn) ELSE [turn EXCEPT !.pc = "park"]
    /\ UNCHANGED <<cfg, toolVars, muxVars, wire, view, over>>

WaitWakes ==
    /\ turn.pc = "park" /\ view.closed
    /\ turn' = [turn EXCEPT !.pc = "look"]
    /\ UNCHANGED <<cfg, toolVars, muxVars, wire, view, over>>

\* The start and turn budgets (45 s, 15 min) outlast everything on its way.
WaitTimesOut ==
    /\ turn.pc = "park" /\ ~view.closed /\ AtRest
    /\ turn' = Fails(turn)
    /\ UNCHANGED <<cfg, toolVars, muxVars, wire, view, over>>

\* The pane as it is by then.
TurnTakes ==
    /\ turn.pc = "take"
    /\ turn' = Ended(turn, "turn")
    /\ UNCHANGED <<cfg, toolVars, muxVars, wire, view, over>>

\* The connection ended before the answer to the send.
SendFails ==
    /\ turn.pc = "sent" /\ view.ended /\ wire = <<>>
    /\ turn' = Ended(turn, "error")
    /\ UNCHANGED <<cfg, toolVars, muxVars, wire, view, over>>

\* Quit: every pane's last state, and the end of the stream.
Quit ==
    /\ ~over /\ turn.pc # "rest" /\ over' = TRUE
    /\ wire' = wire \o <<Message("results", Entry), Message("end", NoSnap)>>
    /\ UNCHANGED <<cfg, toolVars, muxVars, clientVars>>

-----------------------------------------------------------------------------
Tool == ToolBegins \/ ToolSays \/ ToolStops \/ ToolRests \/ ToolTells
Poll == \/ PollBegin \/ PollRead \/ PollMerge \/ PollPaneIdle \/ PollPlugin
        \/ PollApply \/ PollPublish
Deliver == Admit \/ Type \/ Enter \/ Answer
Waiter == WaitLooks \/ WaitSubscribes \/ WaitLooksAgain \/ WaitWakes
          \/ TurnTakes \/ SendFails

Alive(A) == ~over /\ A /\ UNCHANGED over

TurnNext ==
    \/ Alive(Tool \/ ToolAsks \/ PersonAnswers \/ Push \/ PluginLeaves)
    \/ Alive(Poll) \/ Alive(IdleFires) \/ Alive(Deliver)
    \/ Quit \/ Ingest \/ Waiter \/ WaitTimesOut \/ RunBegin

TurnSpec == TurnInit /\ [][TurnNext]_turnVars

-----------------------------------------------------------------------------
\* What a client is told is the answer to an instruction the tool took is the
\* answer of that turn, or empty; never an earlier turn's, though the record,
\* the terminal and the pushes overlap with the next instruction
\* (RunInstruction, ApplyPane, demoteSettled).
NoStaleAnswer ==
    turn.result.how \in {"turn", "unseen"} /\ turn.mine # 0 /\ ~over =>
       turn.result.resp \in {0, turn.mine}

\* A turn reported as over is over: the tool is not at work on it, whatever
\* order the idle signs and the polls came in, while magmux goes on
\* (RunInstruction's two waits, mergeTerminalIdle).
TurnIsOver ==
    [][turn.pc = "take" /\ turn'.result.how = "turn" /\ ~over /\ tool.turn = turn.mine =>
         tool.phase \in {"stopped", "idle", "asking"}]_turnVars

\* A parked wait whose condition already holds, or whose session has ended, has
\* been woken: no change falls between the look and the subscription
\* (SessionState.wait, bumpLocked).
WaiterIsTold ==
    turn.pc = "park" /\ (Pred \/ view.ended) => view.closed

\* When the tool rests and everything about it has been read, polled and
\* delivered, nobody is still parked waiting for its turn to end: the controller
\* has settled on one of its signs.  A pane left painted as awaiting permission
\* by a plugin that has gone keeps its readiness and is excepted
\* (mergeTerminalIdle, applyControllerSnapshot, renderLocked).
NobodyWaitsForNothing ==
    turn.pc = "park" /\ turn.phase = "settle" /\ turn.mine # 0 /\ ~view.closed =>
       ~AtRest \/ pane.signal = "perm"

\* Whoever waits for a turn is told: neither a wake that was missed nor a sign that
\* was not understood leaves it waiting (SessionState.wait, mergeTerminalIdle).
NobodyIsKeptWaiting == WaiterIsTold /\ NobodyWaitsForNothing
=============================================================================
