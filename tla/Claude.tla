------------------------------- MODULE Claude -------------------------------
(***************************************************************************)
(* The tool at the other end of a gated pane's PTY, as far as the input    *)
(* gate of mux/inputgate_send.go reads it: Claude Code.  It is not part of *)
(* the repository; everything here is what controller_claude_input.go and  *)
(* the comments on its measurements (F3, F11, V1, H3) take it to do.       *)
(*                                                                         *)
(* What is written waits in pend until the tool reads it.  Text goes into  *)
(* the input box; Enter moves the box, whole, to the conversation; a late  *)
(* reset of the terminal (F3) drops what was not read, and now and then    *)
(* the tool drops a write without any sign (V1).  The screen lags behind,  *)
(* and the transcript behind it.                                           *)
(***************************************************************************)
EXTENDS Naturals, Sequences, SequencesExt, FiniteSetsExt

CONSTANTS Sends,        \* the deliveries to this pane
          Nobody,       \* whoever is not a delivery: the person at the keyboard
          Text,         \* Text[d]: what d types, a sequence of writes
          Before,       \* the conversation before: a sequence of texts
          Troubles,     \* what may happen: "enter", "reset", "drop", "dialog", "exit", "shutdown"
          MaxTroubles,  \* and how often, all together
          Heights       \* how many rows the box and the conversation may have

Escape == <<Nobody, 1>>
Chunk(d, i) == <<d, i>>

VARIABLES
  pend,     \* written and not read: chunks, <<"enter", who>>, Escape
  box,      \* the input box: chunks
  conv,     \* the user prompts of the conversation, [says, from, by]
  height,   \* the rows of the viewport
  shown,    \* the screen: box, the entries up to n of which those from `top' show
  logged,   \* how many of conv the transcript has, as far as magmux has read it
  dialog,   \* a dialog is open
  settled,  \* the box and the terminal have been still for inputSettle
  resets, troubles

claudeVars == <<pend, box, conv, height, shown, logged, dialog, settled, resets, troubles>>

(***************************************************************************)
(* Chunks are compared by what they say, never by who wrote them.          *)
(***************************************************************************)
Says(chunks) == [i \in 1..Len(chunks) |-> Text[chunks[i][1]][chunks[i][2]]]

Old(says) == [says |-> says, from |-> {}, whole |-> FALSE, by |-> Nobody]
Taken(chunks, who) ==
  [says |-> Says(chunks), from |-> {chunks[i][1] : i \in 1..Len(chunks)},
   whole |-> \E d \in Sends : chunks = [i \in 1..Len(Text[d]) |-> Chunk(d, i)],
   by |-> who]

\* A frame draws the box, the dialog and the conversation at once.  An entry has two
\* rows, and the conversation the rows the box leaves it: older entries scroll off the
\* top, row by row, and come back when the box empties.
Frame(b, c, dlg) ==
  LET hidden == Max({0, 2 * Len(c) - (height - Len(b))}) IN
  [box |-> Says(b), n |-> Len(c), dialog |-> dlg,
   top |-> (hidden + 1) \div 2 + 1, tail |-> hidden % 2 = 1]

ClaudeInit ==
  /\ pend = <<>> /\ box = <<>>
  /\ conv = [i \in 1..Len(Before) |-> Old(Before[i])]
  /\ height \in Heights
  /\ shown = Frame(<<>>, conv, FALSE)
  /\ logged = Len(Before) /\ dialog = FALSE /\ settled = TRUE
  /\ resets = 0 /\ troubles = 0

Current == shown.box = Says(box) /\ shown.n = Len(conv) /\ shown.dialog = dialog
Quiet == pend = <<>> /\ Current

IsEnter(w) == w[1] = "enter"

ReadChunk ==
  /\ pend # <<>> /\ ~IsEnter(Head(pend)) /\ Head(pend) # Escape
  /\ box' = IF dialog THEN box ELSE Append(box, Head(pend))
  /\ pend' = Tail(pend)
  /\ UNCHANGED <<conv, height, shown, logged, dialog, settled, resets, troubles>>

\* In a dialog Enter answers it; on an empty box it does nothing.
ReadEnter ==
  /\ pend # <<>> /\ IsEnter(Head(pend))
  /\ pend' = Tail(pend)
  /\ IF dialog THEN dialog' = FALSE /\ settled' = FALSE /\ UNCHANGED <<box, conv>>
     ELSE /\ box' = <<>>
          /\ conv' = IF box = <<>> THEN conv ELSE Append(conv, Taken(box, Head(pend)[2]))
          /\ UNCHANGED <<dialog, settled>>
  /\ UNCHANGED <<height, shown, logged, resets, troubles>>

ReadEscape ==
  /\ pend # <<>> /\ Head(pend) = Escape
  /\ pend' = Tail(pend) /\ dialog' = FALSE
  /\ settled' = (settled /\ ~dialog)
  /\ UNCHANGED <<box, conv, height, shown, logged, resets, troubles>>

Draw ==
  /\ ~Current
  /\ shown' = Frame(box, conv, dialog)
  /\ UNCHANGED <<pend, box, conv, height, logged, dialog, settled, resets, troubles>>

\* The transcript is written and read.
LogEntry ==
  /\ logged < Len(conv) /\ logged' = logged + 1
  /\ UNCHANGED <<pend, box, conv, height, shown, dialog, settled, resets, troubles>>

\* A second without a change: by then the tool has drawn what it was sent.
Settle ==
  /\ ~settled /\ ~dialog /\ Quiet /\ settled' = TRUE
  /\ UNCHANGED <<pend, box, conv, height, shown, logged, dialog, resets, troubles>>

\* One thing more goes wrong.
Trouble(kind) == kind \in Troubles /\ troubles < MaxTroubles /\ troubles' = troubles + 1

Reset ==
  /\ Trouble("reset") /\ resets' = resets + 1
  /\ pend' = <<>> /\ settled' = FALSE
  /\ UNCHANGED <<box, conv, height, shown, logged, dialog>>

Drop ==
  /\ Trouble("drop") /\ pend # <<>> /\ pend' = Tail(pend)
  /\ UNCHANGED <<box, conv, height, shown, logged, dialog, settled, resets>>

DialogOpens ==
  /\ Trouble("dialog") /\ ~dialog /\ dialog' = TRUE
  /\ UNCHANGED <<pend, box, conv, height, shown, logged, settled, resets>>

\* A human keystroke takes no typing token.
PersonEnters ==
  /\ Trouble("enter") /\ pend' = Append(pend, <<"enter", Nobody>>)
  /\ UNCHANGED <<box, conv, height, shown, logged, dialog, settled, resets>>

Reads == ReadChunk \/ ReadEnter \/ ReadEscape
ClaudeStep ==
  \/ Reads \/ Draw \/ LogEntry \/ Settle
  \/ Reset \/ Drop \/ DialogOpens \/ PersonEnters

(***************************************************************************)
(* What a read of the screen says: parseClaudeScreen over tailView, and    *)
(* the entries in view.                                                    *)
(***************************************************************************)
InView == [i \in 1..(shown.n + 1 - shown.top) |-> conv[shown.top + i - 1].says]
=============================================================================
