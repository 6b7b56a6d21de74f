\* One pane, one bus, a database that answers, refuses a path or fails: the flusher.
SPECIFICATION Spec
CONSTANTS
  p1 = p1 c1 = c1 c2 = c2 a = a b = b
  Panes = {p1} Fields = {"f"} Vals = {a, b} Rows = {1}
  Commands = {} MaxNews = 2 MaxOps = 1 MaxEvents = 2
  eventRing = 1 PerSec = 1 Bad = {} None = None
  KindOf <- NoKinds executors = 1 resultRing = 1 MaxStarts = 0
INVARIANTS PictureIsCurrent
PROPERTIES CatchesUp
CHECK_DEADLOCK FALSE
