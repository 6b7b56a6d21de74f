\* A pane's terminal: its child, the person who scrolls back, and its size.
SPECIFICATION TermSpec
CONSTANTS
    Sizes <- MCSizes
    Cap = 3
    MaxRows = 3
    Counts = {1, 2}
    Places = {1, 2, 4}
    MaxParams = 2
    Scenes <- MCScenes
INVARIANTS ViewIsAWindow  ReadsDoNotMatter
PROPERTIES WhatIsHiddenIsKept
\* A behaviour ends with its steps, or with the program.
CHECK_DEADLOCK FALSE
