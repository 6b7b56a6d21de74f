\* Deliveries of one connection to one pane beside its ordinary requests, with
\* callers that give up, lanes that retire, a connection that goes, and Quiesce.
SPECIFICATION Spec
CONSTANTS
  r1 = r1
  r2 = r2
  r3 = r3
  s1 = s1
  p1 = p1
  NoPane = NoPane
  NoLane = NoLane
  NoReq = NoReq
  Subs = {s1}
  Panes = {p1}
  Reqs = {r1, r2, r3}
  Lanes = {l1, l2}
  SubOf <- OneSub
  PaneOf <- Mixed
  LaneMax = 1
  InFlightMax = 1
  TriesMax = 1
  Impatient = {r1, r2}
  Leaving = {s1}
  Ends = TRUE
INVARIANTS LanesSerial EndsExactly QuiescedIsQuiet NothingIsStranded
SYMMETRY MixedSymmetry
CHECK_DEADLOCK FALSE
