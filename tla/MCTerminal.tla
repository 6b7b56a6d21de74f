----------------------------- MODULE MCTerminal -----------------------------
(* What TLC checks Terminal with: screens of two and three rows and columns, *)
(* a ring of three rows, and a few operations at a time.                     *)
EXTENDS Terminal

MCSizes == {<<2, 2>>, <<3, 2>>, <<2, 3>>, <<3, 3>>}
Scene(size, steps, chars, ops) == [size |-> size, steps |-> steps, chars |-> chars, ops |-> ops]

\* Output that scrolls while the person reads back.
History == Scene(<<2, 2>>, 7, {"a"}, {"print", "newline", "person", "resize"})
\* Everything that scrolls, on both screens.
Scrolls == Scene(<<3, 2>>, 5, {"a"}, {"print", "newline", "lineup", "scroll", "lines", "margins", "switch", "person", "position"})
\* The line editor: wide characters, insert mode, the pending wrap.
Line == Scene(<<2, 3>>, 5, {"a", "W"}, {"print", "repeat", "control", "horizontal", "column", "erase", "characters", "modes"})
\* The cursor: margins, origin mode, saved positions and sizes that change.
Cursor == Scene(<<3, 3>>, 5, {"a"}, {"print", "vertical", "line", "position", "origin", "margins", "save", "reset", "resize", "characters", "newline"})
\* A full-screen program entered and left, across a resize.
Screens == Scene(<<2, 2>>, 7, {"a"}, {"print", "switch", "save", "resize", "newline", "person"})
\* The child's bytes, in reads of one to three.
Sequences1 == Scene(<<2, 2>>, 5, {"a", "ESC", "[", "2", "D", "?", "CAN"}, {"read"})
Sequences2 == Scene(<<2, 2>>, 5, {"a", "ESC", "]", "E4", "B8", "BEL"}, {"read"})
MCScenes == {History, Scrolls, Line, Cursor, Screens, Sequences1, Sequences2}
=============================================================================
