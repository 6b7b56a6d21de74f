\* A typed submission and a keys-only send to one pane, with two things going wrong.
SPECIFICATION FairSpec
CONSTANTS
  d1 = d1
  d2 = d2
  Sends = {d1, d2}
  Nobody = Nobody
  Text <- TextAndKeys
  Before <- SaidBefore
  Troubles = {"enter", "reset", "drop", "dialog", "exit", "shutdown"}
  MaxTroubles = 2
  Heights = {3}
  Submits = {d1}
  Pasted = {}
  Keyed = {d2}
  Editing = {d2}
  Dismissing = {d1}
  DismissMax = 1
INVARIANTS  SubmittedOnce
PROPERTIES HonestRefusal EverySendAnswered
CHECK_DEADLOCK FALSE
