\* Panes opened, closed, hidden, resized and left; children collected.
SPECIFICATION TreeSpec
CONSTANTS
    Openers = {"a", "b"}
    Closers = {"k", "l"}
    Layouts <- MCLayouts
    Windows <- MCWindows
    Requests <- MCRequests
    Scenes <- MCScenes
    Headless = FALSE
    Splits = {"n1", "n2", "n3", "n4"}
INVARIANTS ScreenIsThePlan EndsAreClean
PROPERTIES PanelComesBack NobodyJoinsTheWait
\* magmux ends.
CHECK_DEADLOCK FALSE
