------------------------------ MODULE InputGate ------------------------------
(***************************************************************************)
(* The gated send of mux/inputgate_send.go: it types nothing before the    *)
(* tool can take it, presses Enter only on a box that holds exactly what   *)
(* it typed, and answers ok only on evidence that the prompt was taken.    *)
(* One action is one pass of a loop between two pauses.  Time is dropped:  *)
(* a deadline may pass at any look, but a wait that concludes from a still *)
(* box does so on a screen that has caught up (Quiet): render lag is under *)
(* verifySettle, as inputgate_send.go takes it to be.                      *)
(***************************************************************************)
EXTENDS Claude, FiniteSets, TLC

CONSTANTS
  Submits,     \* class SUBMIT; the others are TYPE
  Pasted,      \* may collapse into a paste token
  Keyed,       \* no text: the writes are printable keys
  Editing,     \* with editing keys: the content is not knowable
  Dismissing,  \* asked for dismissal
  DismissMax

VARIABLES send,    \* send[d]: the delivery, as the locals of deliverGated
          holder,  \* the typing token
          alive,   \* the pane can be written to
          ending   \* Quiesce has cancelled the deliveries

vars == <<claudeVars, send, holder, alive, ending>>

NoBase == [made |-> FALSE, at |-> 0, seq |-> 0, entries |-> <<>>, top |-> FALSE, n |-> 0, key |-> <<>>]
NoReply == [is |-> "none", typed |-> FALSE, maybe |-> FALSE]

Types(d) == Text[d] # <<>>
Knowable(d) == Types(d) /\ d \notin Editing

Fresh == [pc |-> "gate", why |-> "first", attempt |-> 0, next |-> 1, wrote |-> FALSE,
          this |-> FALSE, typed |-> FALSE, typedAt |-> 0, wasEmpty |-> TRUE, pre |-> NoBase,
          first |-> FALSE, allEmpty |-> TRUE, sawText |-> FALSE, excess |-> FALSE,
          convMoved |-> FALSE, reset |-> FALSE, emptyHeld |-> FALSE, neverDrawn |-> FALSE,
          verdict |-> "none", last |-> <<>>, moved |-> FALSE, base |-> NoBase, window |-> 1, resent |-> FALSE,
          resentEnter |-> FALSE, dismissed |-> 0, reply |-> NoReply]

Init ==
  /\ ClaudeInit
  /\ send = [d \in Sends |-> Fresh]
  /\ holder = Nobody /\ alive = TRUE /\ ending = FALSE

At(d, pc) == send[d].pc = pc
Becomes(d, f) == send' = [send EXCEPT ![d] = f @@ @]
Writes(w) == pend' = Append(pend, w)
screenVars == <<box, conv, height, shown, logged, dialog, settled, resets, troubles>>

\* finish: the token goes back, the answer goes out.
Answer(d, is, typed, maybe) ==
  /\ Becomes(d, [pc |-> "done", base |-> NoBase, pre |-> NoBase,
                 reply |-> [is |-> is, typed |-> typed, maybe |-> maybe]])
  /\ holder' = IF holder = d THEN Nobody ELSE holder
  /\ UNCHANGED <<alive, ending>>
Refuse(d, is, typed) == Answer(d, is, typed, FALSE) /\ UNCHANGED claudeVars

(***************************************************************************)
(* Readiness (decideReadiness) and the baseline of the same read.          *)
(***************************************************************************)
Ready(types) == settled /\ ~shown.dialog /\ (types => shown.box = <<>>)
DismissDue(d) == d \in Dismissing /\ shown.dialog /\ send[d].dismissed < DismissMax
Baseline(key) ==
  [made |-> TRUE, at |-> Len(conv), seq |-> logged, entries |-> InView,
   top |-> shown.top = 1 /\ ~shown.tail, n |-> shown.n, key |-> key]
Sent(d) == Text[d]
PreOf(d) == IF Knowable(d) THEN Baseline(Sent(d)) ELSE NoBase

(***************************************************************************)
(* Evidence: newEntriesFrom places the baseline's entries in the screen's, *)
(* and acceptVerdict looks past them, and in the transcript.               *)
(***************************************************************************)
Places(b) ==
  LET n == Len(b.entries)
      ends == {e \in 1..Len(InView) :
                 /\ n > 0
                 /\ LET l == Min({n, e})
                    IN SubSeq(InView, e - l + 1, e) = SubSeq(b.entries, n - l + 1, n)
                 /\ b.top => e <= n}
      above == IF n = 0 THEN b.top
               ELSE shown.tail /\ conv[shown.top - 1].says = Last(b.entries)
  IN ends \cup (IF above THEN {0} ELSE {})

\* Mutant: any entry in view that carries the text, new or old.
InHistoryAnywhere(b) == \E i \in 1..Len(InView) : InView[i] = b.key
InHistory(b) ==
  /\ Cardinality(Places(b)) = 1
  /\ \E i \in 1..Len(InView) : (\A p \in Places(b) : i > p) /\ InView[i] = b.key
InTranscript(b) == \E k \in (b.seq + 1)..logged : k > b.at /\ conv[k].says = b.key
Accepted(b) == b.made /\ (InHistory(b) \/ InTranscript(b))
InBox(b) == ~shown.dialog /\ shown.box = b.key

(***************************************************************************)
(* Steps 1 and 2: the gate, the token, and the re-ask that authorises the  *)
(* first byte.                                                             *)
(***************************************************************************)
\* The gate's own error says nothing was typed; around a retype that is put right.
GateRefuses(d, is) ==
  IF send[d].why = "retype"
  THEN Refuse(d, IF is = "busy" THEN "text_mismatch" ELSE is, TRUE)
  ELSE Refuse(d, is, FALSE)

WaitReady(d) ==
  /\ At(d, "gate") /\ alive
  /\ IF Ready(Types(d)) \/ DismissDue(d)
     THEN Becomes(d, [pc |-> "token"]) /\ UNCHANGED <<claudeVars, holder, alive, ending>>
     ELSE GateRefuses(d, "busy")
GateDead(d) == At(d, "gate") /\ ~alive /\ GateRefuses(d, "pane_dead")

AcquireToken(d) ==
  /\ At(d, "token")
  /\ IF holder = Nobody
     THEN holder' = d /\ Becomes(d, [pc |-> "ask"]) /\ UNCHANGED <<claudeVars, alive, ending>>
     ELSE GateRefuses(d, "busy")

Attempt(d) ==
  [pc |-> IF Types(d) THEN "type" ELSE "check", next |-> 1, this |-> FALSE, typed |-> FALSE,
   typedAt |-> resets, wasEmpty |-> shown.box = <<>>, pre |-> PreOf(d), first |-> FALSE,
   allEmpty |-> TRUE, sawText |-> FALSE, convMoved |-> FALSE, reset |-> FALSE,
   emptyHeld |-> FALSE, neverDrawn |-> FALSE, verdict |-> "none", last |-> <<>>, moved |-> FALSE]

Ask(d) ==
  /\ At(d, "ask") /\ Ready(Types(d))
  /\ Becomes(d, Attempt(d))
  /\ UNCHANGED <<claudeVars, holder, alive, ending>>

\* Not ready after all: a due Escape, the token back, and round again.
AskAgain(d) ==
  /\ At(d, "ask") /\ ~Ready(Types(d))
  /\ IF DismissDue(d)
     THEN /\ alive /\ Writes(Escape)
          /\ Becomes(d, [pc |-> "gate", dismissed |-> send[d].dismissed + 1])
     ELSE Becomes(d, [pc |-> "gate"]) /\ UNCHANGED pend
  /\ holder' = Nobody
  /\ UNCHANGED <<screenVars, alive, ending>>
AskDead(d) == At(d, "ask") /\ ~alive /\ DismissDue(d) /\ GateRefuses(d, "pane_dead")

(***************************************************************************)
(* Step 4: typing.  Before every write after an attempt's first, a look: a *)
(* dialog stops the typing and the send, anything else only the typing.    *)
(***************************************************************************)
WriteNext(d, more) ==
  LET s == send[d] IN
  IF alive
  THEN /\ Writes(Chunk(d, s.next))
       /\ Becomes(d, more @@ [next |-> s.next + 1, wrote |-> TRUE, this |-> TRUE, typed |-> TRUE,
                              typedAt |-> IF s.this THEN s.typedAt ELSE resets,
                              pc |-> IF s.next = Len(Text[d]) THEN "check" ELSE "type"])
       /\ UNCHANGED <<screenVars, holder, alive, ending>>
  ELSE Refuse(d, "pane_dead", s.wrote)

TypeFirst(d) == At(d, "type") /\ ~send[d].this /\ d \notin Keyed /\ WriteNext(d, <<>>)

\* The first byte is a key: the readiness that allowed it is a keyGap old, so ask again.
TypeFirstKey(d) ==
  /\ At(d, "type") /\ ~send[d].this /\ d \in Keyed
  /\ IF Ready(TRUE)
     THEN WriteNext(d, [wasEmpty |-> shown.box = <<>>, pre |-> PreOf(d)])
     ELSE /\ Becomes(d, [pc |-> "gate", why |-> "key"]) /\ holder' = Nobody
          /\ UNCHANGED <<claudeVars, alive, ending>>

TypeMore(d) ==
  /\ At(d, "type") /\ send[d].this
  /\ IF Ready(FALSE) THEN WriteNext(d, <<>>)
     ELSE IF shown.dialog THEN Refuse(d, "busy", TRUE)
     ELSE Becomes(d, [pc |-> "check"]) /\ UNCHANGED <<claudeVars, holder, alive, ending>>

(***************************************************************************)
(* Step 6: the box check, a wait until the box is right or still.          *)
(***************************************************************************)
Exact(d) == Knowable(d) /\ send[d].wasEmpty
\* Mutant: any text in the box will do.
VerdictAnyText(d) == IF shown.box = <<>> THEN "empty" ELSE "verified"
Verdict(d) ==
  IF shown.box = <<>> THEN "empty"
  ELSE IF ~Exact(d) \/ shown.box = Sent(d) THEN "verified"
  ELSE "mismatch"
TermiosChanged(d) == send[d].reset \/ resets > send[d].typedAt

CheckDead(d) == At(d, "check") /\ ~alive /\ Refuse(d, "pane_dead", send[d].wrote)

\* Mutant: waits for the box past the deadline.
BlockedForGood(d) ==
  /\ At(d, "check") /\ alive /\ ~Ready(FALSE)
  /\ Becomes(d, [allEmpty |-> send[d].allEmpty /\ ~send[d].first])
  /\ UNCHANGED <<claudeVars, holder, alive, ending>>
\* A look that does not see the box: a due Escape, or the deadline.
LookBlocked(d) ==
  /\ At(d, "check") /\ alive /\ ~Ready(FALSE)
  /\ LET seen == [allEmpty |-> send[d].allEmpty /\ ~send[d].first, reset |-> TermiosChanged(d),
               moved |-> send[d].moved \/ send[d].first] IN
     \/ /\ DismissDue(d) /\ Writes(Escape)
        /\ Becomes(d, [dismissed |-> send[d].dismissed + 1] @@ seen)
        /\ UNCHANGED <<screenVars, holder, alive, ending>>
     \/ /\ ~DismissDue(d) /\ Becomes(d, seen)
        /\ UNCHANGED <<claudeVars, holder, alive, ending>>
     \/ ~DismissDue(d) /\ Refuse(d, "busy", send[d].wrote)

LookVerified(d) ==
  /\ At(d, "check") /\ alive /\ Ready(FALSE) /\ Verdict(d) = "verified"
  /\ IF d \in Submits
     THEN /\ Becomes(d, [pc |-> "enter", base |-> Baseline(shown.box), pre |-> NoBase])
          /\ UNCHANGED <<claudeVars, holder, alive, ending>>
     ELSE Answer(d, "in_box", TRUE, FALSE) /\ UNCHANGED claudeVars

Looked(d) ==
  [first |-> TRUE, reset |-> TermiosChanged(d), verdict |-> Verdict(d), last |-> shown.box,
   moved |-> send[d].moved \/ (send[d].first /\ send[d].last # shown.box),
   allEmpty |-> send[d].allEmpty /\ Verdict(d) = "empty",
   sawText |-> send[d].sawText \/ Verdict(d) # "empty",
   excess |-> send[d].excess \/ (Exact(d) /\ Len(shown.box) > Len(Sent(d))),
   convMoved |-> send[d].convMoved \/ (send[d].pre.made /\ shown.n # send[d].pre.n)]
Look(d) ==
  /\ At(d, "check") /\ alive /\ Ready(FALSE) /\ Verdict(d) # "verified"
  /\ Becomes(d, Looked(d))
  /\ UNCHANGED <<claudeVars, holder, alive, ending>>

\* The box was never drawn to and the terminal not reset: the wait runs on to
\* verifyMax, unless the deadline cuts it.
Blank(d) ==
  /\ Exact(d) /\ send[d].typed /\ d \notin Pasted
  /\ Looked(d).allEmpty /\ ~Looked(d).reset
Concludes(d, emptyHeld, neverDrawn) ==
  /\ At(d, "check") /\ alive /\ Ready(FALSE) /\ Verdict(d) # "verified" /\ Quiet
  /\ Becomes(d, [pc |-> "judge", emptyHeld |-> emptyHeld, neverDrawn |-> neverDrawn] @@ Looked(d))
  /\ UNCHANGED <<claudeVars, holder, alive, ending>>
NeverDrawn(d) == Blank(d) /\ Concludes(d, TRUE, TRUE)
Still(d) == Concludes(d, Verdict(d) = "empty", FALSE)    \* Blank: windowCut
Unsettled(d) == Looked(d).moved /\ Concludes(d, FALSE, FALSE)

(***************************************************************************)
(* What an unverified box comes to: another writer's Enter, one retype, or *)
(* a refusal.                                                              *)
(***************************************************************************)
ByOther(d) ==
  /\ send[d].verdict = "empty" /\ send[d].typed /\ Exact(d)
  /\ Accepted(send[d].pre)
Retypes(d) ==
  LET s == send[d] IN
  /\ s.attempt = 0 /\ s.emptyHeld /\ (s.reset \/ (s.neverDrawn /\ ~s.convMoved))
  /\ ~s.excess /\ ~s.sawText /\ d \notin Pasted /\ s.typed /\ Exact(d) /\ s.pre.made
\* Mutant: only a box seen with text in it raises the question.
MaybeIfSeen(d) == send[d].verdict = "empty" /\ send[d].typed /\ send[d].sawText
MaybeSubmitted(d) ==
  LET s == send[d] IN
  /\ s.verdict = "empty" /\ s.typed
  /\ \/ s.sawText
     \/ s.emptyHeld /\ s.attempt = 0 /\ d \notin Pasted /\ s.convMoved

Judge(d) ==
  /\ At(d, "judge")
  /\ \/ ByOther(d) /\ Answer(d, "submitted_by_other", TRUE, FALSE)
     \/ /\ ~ByOther(d) /\ Retypes(d)
        /\ Becomes(d, [pc |-> "gate", why |-> "retype", attempt |-> 1])
        /\ holder' = Nobody /\ UNCHANGED <<alive, ending>>
     \/ /\ ~ByOther(d) /\ ~Retypes(d)
        /\ IF send[d].verdict = "empty" /\ ~send[d].typed
           THEN Answer(d, "empty_box", send[d].wrote, FALSE)
           ELSE Answer(d, "text_mismatch", TRUE, MaybeSubmitted(d))
  /\ UNCHANGED claudeVars

(***************************************************************************)
(* Steps 7 and 8: Enter, and up to three windows of looking for evidence.  *)
(***************************************************************************)
PressEnter(d) ==
  /\ At(d, "enter")
  /\ IF alive THEN /\ Writes(<<"enter", d>>)
                   /\ Becomes(d, [pc |-> "accept", wrote |-> TRUE])
                   /\ UNCHANGED <<screenVars, holder, alive, ending>>
     ELSE Refuse(d, "pane_dead", TRUE)

AcceptDead(d) == At(d, "accept") /\ ~alive /\ Refuse(d, "pane_dead", TRUE)
Confirm(d) ==
  /\ At(d, "accept") /\ alive /\ Accepted(send[d].base)
  /\ Answer(d, IF send[d].resentEnter THEN "resent_enter" ELSE "confirmed", TRUE, FALSE)
  /\ UNCHANGED claudeVars

NextWindow(d, more) == Becomes(d, more @@ [window |-> send[d].window + 1])
\* Resent only into a box that is ready and verified now.
ResendEnter(d) ==
  /\ ~send[d].resent /\ InBox(send[d].base)
  /\ IF Ready(FALSE) /\ Verdict(d) = "verified"
     THEN Writes(<<"enter", d>>) /\ NextWindow(d, [resent |-> TRUE, resentEnter |-> TRUE])
     ELSE UNCHANGED pend /\ NextWindow(d, [resent |-> TRUE])
  /\ UNCHANGED <<screenVars, holder, alive, ending>>
WindowEnds(d) ==
  /\ At(d, "accept") /\ alive /\ ~Accepted(send[d].base)
  /\ LET s == send[d]  inBox == InBox(s.base) IN
     \/ ResendEnter(d)
     \/ /\ ~inBox /\ s.window = 1
        /\ NextWindow(d, <<>>) /\ UNCHANGED <<claudeVars, holder, alive, ending>>
     \/ inBox /\ s.resent /\ Refuse(d, "still_in_box", TRUE)
     \/ ~inBox /\ s.window > 1 /\ Refuse(d, "unconfirmed", TRUE)

\* Quiesce ends a delivery at its next pause.
Cancelled(d) ==
  /\ ending
  /\ \/ (At(d, "gate") \/ At(d, "token")) /\ GateRefuses(d, "cancelled")
     \/ At(d, "type") /\ (send[d].this \/ d \in Keyed) /\ Refuse(d, "cancelled", send[d].wrote)
     \/ At(d, "check") /\ Refuse(d, "cancelled", send[d].wrote)
     \/ At(d, "accept") /\ Refuse(d, "unconfirmed", TRUE)

Deliver(d) ==
  \/ WaitReady(d) \/ GateDead(d) \/ AcquireToken(d) \/ Ask(d) \/ AskAgain(d) \/ AskDead(d)
  \/ TypeFirst(d) \/ TypeFirstKey(d) \/ TypeMore(d)
  \/ CheckDead(d) \/ LookBlocked(d) \/ LookVerified(d) \/ Look(d)
  \/ NeverDrawn(d) \/ Still(d) \/ Unsettled(d) \/ Judge(d)
  \/ PressEnter(d) \/ AcceptDead(d) \/ Confirm(d) \/ WindowEnds(d) \/ Cancelled(d)

\* The pane's child exits; magmux shuts down.
Happens(kind) ==
  /\ Trouble(kind)
  /\ UNCHANGED <<pend, box, conv, height, shown, logged, dialog, settled, resets, send, holder>>
Die == alive /\ alive' = FALSE /\ Happens("exit") /\ UNCHANGED ending
Quiesce == ~ending /\ ending' = TRUE /\ Happens("shutdown") /\ UNCHANGED alive

Next ==
  \/ \E d \in Sends : Deliver(d)
  \/ ClaudeStep /\ UNCHANGED <<send, holder, alive, ending>>
  \/ Die \/ Quiesce

Spec == Init /\ [][Next]_vars
Fair ==
  /\ \A d \in Sends : WF_vars(Deliver(d))
  /\ WF_vars((Reads \/ Draw) /\ UNCHANGED <<send, holder, alive, ending>>)
FairSpec == Spec /\ Fair

(***************************************************************************)
(* Properties.                                                             *)
(***************************************************************************)
Reply(d) == send[d].reply
Ok(d) == Reply(d).is \in {"confirmed", "resent_enter", "submitted_by_other"}
Entries(d) == {k \in 1..Len(conv) : d \in conv[k].from}
WholeEntries(d) == {k \in Entries(d) : conv[k].whole}

\* An answer of ok means that this send's own text is in the conversation, whatever
\* identical prompts are there, and a refusal says whether anything was typed.
ConfirmedIsTaken == \A d \in Sends : Ok(d) /\ Knowable(d) => WholeEntries(d) # {}
TypedIsTold == \A d \in Sends : At(d, "done") /\ send[d].wrote => Reply(d).typed
AnswersHold == ConfirmedIsTaken /\ TypedIsTold

TakenByOther(d) == \E k \in WholeEntries(d) : conv[k].by = Nobody
TwiceOnlyAfterReset ==
  \A d \in Sends : Cardinality(WholeEntries(d)) > 1 => resets > 0 /\ TakenByOther(d)
EntriesWhole == \A k \in 1..Len(conv) : conv[k].by \in Sends /\ Knowable(conv[k].by) => conv[k].whole
SubmittedOnce == TwiceOnlyAfterReset /\ EntriesWhole

\* A refusal that does not say the text may be submitted is right, when another writer's
\* Enter is all that went wrong.
HonestRefusal ==
  [][\A d \in Sends :
       /\ Knowable(d) /\ Reply(d)' # Reply(d) /\ Reply(d)'.is \in {"text_mismatch", "empty_box"}
       /\ ~Reply(d)'.maybe /\ troubles <= 1
       => WholeEntries(d) = {}]_vars
\* Every send is answered, whatever the tool, the person and the pane do, while the
\* goroutine of the delivery runs and the tool goes on reading and drawing.
EverySendAnswered == \A d \in Sends : <>At(d, "done")
=============================================================================
