\* One subscriber, one pane of two rows: watches, frames, resync, ClosePane.
SPECIFICATION Spec
CONSTANTS
  NoPane = NoPane
  NoCell = NoCell
  Subs = {s1}
  Publishers = {}
  Panes = {p1}
  Rows = {r1, r2}
  Cells = {c1, c2}
  Reliable = {s1}
  Silent = {}
  Leaving = {}
  Closable = {p1}
  Ends = FALSE
  FifoMax = 2
  BytesMax = 4
  NFinals = 1
  MaxEvents = 0
  MaxRequests = 3
INVARIANTS FramesKeepTheirPlace ScreenCoherent RotationWhole
CHECK_DEADLOCK FALSE
SYMMETRY ScreenSymmetry
