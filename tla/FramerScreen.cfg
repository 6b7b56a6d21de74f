\* Two watchers of one pane, in either mode, each at its own rate, while it paints
\* and is resized.
SPECIFICATION Spec
CONSTANTS
  Subs = {s1, s2}
  Rows = {y1}
  Cells = {c1, c2}
  Heads = {h1, h2}
  Shapes = {g1, g2}
  Modes = {"frames", "notify"}
  Blank = Blank
  MaxPaints = 2
  MaxAdds = 2
INVARIANTS NobodyIsLeftBehind DeltasFitTheKeyframe
SYMMETRY FramerSymmetry
CHECK_DEADLOCK FALSE
