\* One command, a stream that reconnects, and a process that may die and start again.
SPECIFICATION Spec
CONSTANTS
  p1 = p1 c1 = c1 c2 = c2 a = a b = b
  Panes = {} Fields = {"f"} Vals = {a} Rows = {1}
  Commands = {c1} MaxNews = 0 MaxOps = 0 MaxEvents = 0
  eventRing = 1 PerSec = 1 Bad <- RefusedPath None = None
  KindOf <- OneKind executors = 1 resultRing = 1 MaxStarts = 1
INVARIANTS RunsOnceOnRecord AnswersAreTrue
PROPERTIES EveryCommandAnswered
CHECK_DEADLOCK FALSE
