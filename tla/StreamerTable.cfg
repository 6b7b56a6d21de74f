\* One subscriber asks for a pane and lets it go, one asks for every pane and may be
\* killed; the pane opens and closes and the session ends, in every order.
SPECIFICATION Spec
CONSTANTS
  Subs = {s1, s2}
  Panes = {p1}
  Framers = {f1, f2, f3}
  NoFramer = NoFramer
  Closable = {p1}
  Asking = {s1}
  Unwatching = {s1}
  Mortal = {s2}
  Everything = {s2}
  Ends = TRUE
INVARIANTS OneFramerEach AllMeansAll
SYMMETRY FramerSymmetry
CHECK_DEADLOCK FALSE
