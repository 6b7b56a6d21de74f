----------------------------- MODULE MCPaneTree -----------------------------
(* What TLC checks PaneTree with: a bare session with the panel hidden, or *)
(* the panel as a column beside it; terminals that can be split once, twice *)
(* and not at all.                                                         *)
EXTENDS PaneTree

Bare == [hidden |-> TRUE, root |-> Session, kids |-> <<>>]
Column ==
    [hidden |-> FALSE, root |-> "n1",
     kids |-> "n1" :> [type |-> "horizontal", percent |-> 60, first |-> Session, second |-> Panel]]
MCLayouts == {Bare, Column}

Asks(target, type, percent, focused) ==
    [target |-> target, type |-> type, percent |-> percent, focus |-> focused]
MCRequests ==
    {Asks("focused", "auto", 50, TRUE), Asks("largest", "vertical", 30, FALSE),
     Asks(Panel, "auto", 50, FALSE)}
Scene(openers, closers, mortal, changes, quits) ==
    [openers |-> openers, closers |-> closers, mortal |-> mortal, changes |-> changes,
     quits |-> quits]

\* The shape of the layout: splits, a collapse, the panel and the terminal.
SceneA == {Scene({"a", "b"}, {"k"}, {}, 2, FALSE)}
\* The processes: an open and two closes, children that end or do not, and a quit.
SceneB == {Scene({"a"}, {"k", "l"}, Panes, 0, TRUE)}
\* Who is last: two opens and two closes.
SceneC == {Scene({"a", "b"}, {"k", "l"}, {}, 0, FALSE)}
MCScenes == SceneA \cup SceneB \cup SceneC
MCWindows == {<<24, 90>>, <<10, 44>>}
=============================================================================
