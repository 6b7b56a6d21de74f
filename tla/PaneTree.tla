------------------------------ MODULE PaneTree ------------------------------
(* The panes of a magmux: the table of panes, the tree of splits and the   *)
(* place each node has on the screen, focus, the control panel that comes  *)
(* and goes, the children behind the panes, and what opening, closing,     *)
(* resizing and quitting do to all of it (dynpanes.go, chrome.go, size.go, *)
(* resize.go, grid.go).  Everything under treeMu is one action; a fork, a  *)
(* signal, a goroutine and an event are actions of their own.              *)
EXTENDS Integers, Sequences, SequencesExt, FiniteSets

CONSTANTS
    Openers,     \* open_pane requests, each naming the pane it would open
    Closers,     \* close_pane requests
    Layouts,     \* what the layout builders may have built
    Windows,     \* sizes of the terminal
    Requests,    \* what an opener may ask: a target, a split, its share, focus
    Scenes,      \* bounds: who opens, who closes, whose child ends, and how many
                 \* toggles, resizes and changes of focus there are
    Headless,    \* no terminal: its size never changes
    Splits       \* bound: names for the tree's inner nodes

Session == "session"
Panel == "panel"
Panes == {Session, Panel} \cup Openers
Nil == "nil"

minPaneRows == 3
minPaneCols == 20

Types == {"horizontal", "vertical"}
Sizes == Nat \X Nat

\* A layout is one pane, or a split that shows both.
ASSUME PaneTreeBounds ==
    /\ Openers \cap {Session, Panel, Nil} = {} /\ Splits \cap (Panes \cup {Nil}) = {}
    /\ IsFiniteSet(Openers) /\ IsFiniteSet(Splits)
    /\ Cardinality(Openers) + 2 <= Cardinality(Splits)
    /\ \A layout \in Layouts :
         IF layout.hidden THEN layout.root = Session /\ layout.kids = <<>>
         ELSE \E s \in Splits : \E first, second \in {Session, Panel} :
                \E type \in Types, percent \in 1 .. 99 :
                  /\ first # second /\ layout.root = s
                  /\ layout.kids = [n \in {s} |-> [type |-> type, percent |-> percent,
                                                  first |-> first, second |-> second]]
    /\ \A layout \in Layouts : layout.hidden \in BOOLEAN
    /\ Windows \subseteq Sizes /\ Headless \in BOOLEAN
    /\ \A asked \in Requests : asked.type \in Types \cup {"auto"} /\ asked.percent \in 1 .. 99
    /\ \A asked \in Requests : asked.focus \in BOOLEAN

VARIABLES
    table,     \* allPanes
    closed,    \* panes that are tombstones
    hidden,    \* the panel is out of the tree
    tree,      \* root, the splits' children, and every node's box
    anchor,    \* panelAnchor, panelSplit, panelRatio, panelFirst
    focus,     \* m.focused
    screen,    \* rows and cols, the manual and the automatic size, the status row
    opens,     \* OpenPane, per request
    closes,    \* ClosePane, per request
    child,     \* the process behind a pane
    reader,    \* readLoop: what the WaitGroup counts
    waiter,    \* the goroutine that calls cmd.Wait
    quit,      \* m.quit is closed
    teardown,  \* cleanup
    scene,     \* bound: what is left of it
    before     \* ghost: the layout the panel was taken from, while nothing else changed

treeVars == <<table, closed, hidden, tree, anchor, focus, screen>>
childVars == <<child, reader, waiter>>
paneVars == <<treeVars, opens, closes, childVars, quit, teardown, scene, before>>

-----------------------------------------------------------------------------
(* The tree.                                                               *)
Live == {table[i] : i \in DOMAIN table} \ closed
OnScreen == IF hidden THEN Live \ {Panel} ELSE Live

Box(y, x, h, w) == [y |-> y, x |-> x, h |-> h, w |-> w]
Above0(n) == IF n > 0 THEN n ELSE 0
Share(n, percent) == (n * percent) \div 100

\* splitBoxes: the two halves and the border between them.
SplitBoxes(node, b) ==
    LET w1 == Share(b.w, node.percent)
        h1 == Share(b.h, node.percent)
    IN IF node.type = "horizontal"
       THEN << Box(b.y, b.x, b.h, w1), Box(b.y, b.x + w1 + 1, b.h, Above0(b.w - w1 - 1)) >>
       ELSE << Box(b.y, b.x, h1, b.w), Box(b.y + h1 + 1, b.x, Above0(b.h - h1 - 1), b.w) >>

Above(kids, n) == {s \in DOMAIN kids : n \in {kids[s].first, kids[s].second}}

\* n and the nodes under it.
Under(kids, n) ==
    LET below[m \in Panes \cup DOMAIN kids] == m = n \/ \E p \in Above(kids, m) : below[p]
    IN {m \in Panes \cup DOMAIN kids : below[m]}

\* resize, reshapeChildren, planLayoutLocked: where n and all under it land.
Plan(kids, n, b) ==
    LET place[m \in Under(kids, n)] ==
          IF m = n THEN b
          ELSE LET p == CHOOSE p \in Above(kids, m) : TRUE
               IN SplitBoxes(kids[p], place[p])[IF m = kids[p].first THEN 1 ELSE 2]
    IN place

\* The leaves under n, from first to last.
Leaves(kids, n) ==
    LET leaves[m \in Panes \cup DOMAIN kids] ==
          IF m \in Panes THEN <<m>> ELSE leaves[kids[m].first] \o leaves[kids[m].second]
    IN IF n = Nil THEN <<>> ELSE leaves[n]

\* What the layout looks like, whatever its nodes are called: each split, then what
\* is in its first half, then the second.
Shape(kids, n) ==
    LET shape[m \in Panes \cup DOMAIN kids] ==
          IF m \in Panes THEN <<<<m>>>>
          ELSE <<<<kids[m].type, kids[m].percent>>>>
                 \o shape[kids[m].first] \o shape[kids[m].second]
    IN IF n = Nil THEN <<>> ELSE shape[n]

Parent(n) == Above(tree.kids, n)
Sibling(n) ==
    LET p == CHOOSE p \in Parent(n) : TRUE
    IN IF tree.kids[p].first = n THEN tree.kids[p].second ELSE tree.kids[p].first

\* kids with node `with` where `old` was.
Replaced(kids, old, with) ==
    [s \in DOMAIN kids |->
        [kids[s] EXCEPT !.first = IF @ = old THEN with ELSE @,
                        !.second = IF @ = old THEN with ELSE @]]

\* The boxes, with those of a part of the tree planned anew.
Redrawn(plan, box) ==
    [n \in DOMAIN plan \cup DOMAIN box |-> IF n \in DOMAIN plan THEN plan[n] ELSE box[n]]

\* splitNodeLocked: a fresh node in t's place, t and np its halves.
Spliced(t, np, node, npFirst) ==
    LET id == CHOOSE s \in Splits \ {anchor.node} : s \notin DOMAIN tree.kids
        par == [type |-> node.type, percent |-> node.percent,
                first |-> IF npFirst THEN np ELSE t, second |-> IF npFirst THEN t ELSE np]
        kids == [s \in DOMAIN tree.kids \cup {id} |->
                   IF s = id THEN par ELSE Replaced(tree.kids, t, id)[s]]
    IN [root |-> IF tree.root = t THEN id ELSE tree.root, kids |-> kids,
        box |-> Redrawn(Plan(kids, id, tree.box[t]), tree.box)]

\* removeLeafLocked: the sibling inherits the parent's box.
Inherited(kids, sib, par, box) == Redrawn(Plan(kids, sib, tree.box[par]), box)

Removed(t) ==
    IF Parent(t) = {}
    THEN IF tree.root = t THEN [root |-> Nil, kids |-> <<>>, box |-> <<>>] ELSE tree
    ELSE LET par == CHOOSE p \in Parent(t) : TRUE
             sib == Sibling(t)
             rest == [s \in DOMAIN tree.kids \ {par} |-> tree.kids[s]]
             kids == Replaced(rest, par, sib)
             box == [n \in DOMAIN tree.box \ {par, t} |-> tree.box[n]]
         IN [root |-> IF tree.root = par THEN sib ELSE tree.root, kids |-> kids,
             box |-> Inherited(kids, sib, par, box)]

\* firstLiveLeaf: a session before the panel.
FirstLiveLeaf(kids, n) ==
    LET all == Leaves(kids, n)
        sessions == {i \in DOMAIN all : all[i] # Panel}
    IN IF sessions # {} THEN all[CHOOSE i \in sessions : \A j \in sessions : i <= j]
       ELSE IF all # <<>> THEN Panel ELSE Nil

\* largestLiveLeafLocked.
Largest ==
    LET sessions == OnScreen \ {Panel}
        at(p) == CHOOSE i \in DOMAIN table : table[i] = p
        area(p) == tree.box[p].h * tree.box[p].w
    IN IF sessions = {} THEN IF Panel \in OnScreen THEN Panel ELSE Nil
       ELSE CHOOSE p \in sessions : \A q \in sessions :
              area(p) > area(q) \/ (area(p) = area(q) /\ at(p) <= at(q))

\* resolveSplitTargetLocked.
SplitTarget(want) ==
    IF want \in Panes THEN IF want \in OnScreen THEN want ELSE Nil
    ELSE IF want = "focused" /\ focus \in OnScreen \ {Panel} THEN focus
    ELSE Largest

\* splitFits, and step 2 of OpenPane.
SplitFits(b, node) ==
    LET half == SplitBoxes(node, b) IN
    \A i \in 1..2 : half[i].h >= minPaneRows /\ half[i].w >= minPaneCols

\* screenSizeLocked.
ScreenSize(s) ==
    IF s.manual = <<0, 0>> THEN s.auto
    ELSE IF Headless THEN s.manual
    ELSE << IF s.manual[1] < s.auto[1] THEN s.manual[1] ELSE s.auto[1],
            IF s.manual[2] < s.auto[2] THEN s.manual[2] ELSE s.auto[2] >>

\* What the root is given: the screen without the status row.
Canvas(s, size) == Box(0, 0, Above0(size[1] - (IF s.status THEN 1 ELSE 0)), size[2])

\* reflowLocked.
Reflowed(t, s) ==
    IF t.root = Nil THEN t ELSE [t EXCEPT !.box = Plan(t.kids, t.root, Canvas(s, s.size))]

\* treeFitsLocked: the dry run.
TreeFits(s, size) ==
    LET plan == Reflowed(tree, [s EXCEPT !.size = size]).box IN
    \A p \in (DOMAIN plan \cap Panes) \ {Panel} :
      plan[p].h >= minPaneRows /\ plan[p].w >= minPaneCols

-----------------------------------------------------------------------------
NoOpen == [pc |-> "start", target |-> Nil, type |-> "", percent |-> 0, focus |-> FALSE]
NoAnchor == [node |-> Nil, type |-> "horizontal", percent |-> 50, first |-> FALSE]
NoClose == [pc |-> "start", pane |-> Nil, last |-> FALSE]

TreeInit ==
    /\ table = <<Session, Panel>> /\ closed = {}
    /\ \E layout \in Layouts, window \in Windows :
         /\ hidden = layout.hidden
         /\ screen = [size |-> window, manual |-> <<0, 0>>, auto |-> window, status |-> TRUE]
         /\ tree = Reflowed([root |-> layout.root, kids |-> layout.kids, box |-> <<>>], screen)
         /\ focus = FirstLiveLeaf(layout.kids, layout.root)
    /\ anchor = NoAnchor
    /\ opens = [o \in Openers |-> NoOpen]
    /\ closes = [k \in Closers |-> NoClose]
    /\ child = [p \in Panes |-> IF p = Session THEN "running" ELSE "none"]
    /\ reader = [p \in Panes |-> IF p = Session THEN "reading" ELSE "none"]
    /\ waiter = {Session}
    /\ quit = FALSE /\ teardown = "no" /\ scene \in Scenes
    /\ before = <<>>

-----------------------------------------------------------------------------
(* OpenPane.                                                               *)
\* Steps 1 and 2: the target's geometry, and the refusals.
OpenReads(o) ==
    /\ o \in scene.openers /\ opens[o].pc = "start" /\ teardown = "no"
    /\ \E asked \in Requests :
         LET t == SplitTarget(asked.target)
             b == tree.box[t]
             type == IF asked.type # "auto" THEN asked.type
                     ELSE IF b.w >= 2 * b.h THEN "horizontal" ELSE "vertical"
         IN /\ t # Nil
            /\ SplitFits(b, [type |-> type, percent |-> asked.percent])
            /\ opens' = [opens EXCEPT ![o] =
                 [pc |-> "fork", target |-> t, type |-> type,
                  percent |-> asked.percent, focus |-> asked.focus]]
    /\ UNCHANGED <<treeVars, closes, childVars, quit, teardown, scene, before>>

\* Step 3: the child, with no lock held.
OpenForks(o) ==
    /\ opens[o].pc = "fork"
    /\ \/ /\ child' = [child EXCEPT ![o] = "running"]
          /\ opens' = [opens EXCEPT ![o].pc = "publish"]
       \/ /\ opens' = [opens EXCEPT ![o].pc = "done"]
          /\ UNCHANGED child
    /\ UNCHANGED <<treeVars, closes, reader, waiter, quit, teardown, scene, before>>

\* splitTargetIntactLocked.
Intact(t) == t \in OnScreen

\* Mutant: not asked again under the lock.
AdmitsAlways(o) == Intact(opens[o].target)

Admits(o) == teardown = "no" /\ Intact(opens[o].target)

\* Step 5: into the table and the tree.
OpenPublishes(o) ==
    /\ opens[o].pc = "publish" /\ Admits(o)
    /\ table' = Append(table, o)
    /\ tree' = Spliced(opens[o].target, o, opens[o], FALSE)
    /\ focus' = IF opens[o].focus THEN o ELSE focus
    /\ reader' = [reader EXCEPT ![o] = "owed"]
    /\ opens' = [opens EXCEPT ![o].pc = "run"]
    /\ before' = <<>>
    /\ UNCHANGED <<closed, hidden, anchor, screen, closes, child, waiter, quit, teardown, scene>>

\* Mutant: signalled and closed, never collected.
UnwoundUncollected(o) == waiter

\* unwindPane's own reapChild.
Unwound(o) == waiter \cup {o}

Hung(p) == IF child[p] \in {"running", "eof"} THEN "hung" ELSE child[p]

OpenUnwinds(o) ==
    /\ opens[o].pc = "publish" /\ ~Admits(o)
    /\ child' = [child EXCEPT ![o] = Hung(o)]
    /\ waiter' = Unwound(o)
    /\ opens' = [opens EXCEPT ![o].pc = "done"]
    /\ UNCHANGED <<treeVars, closes, reader, quit, teardown, scene, before>>

\* Steps 6 to 8: the pane's goroutines, and the news.
OpenRuns(o) ==
    /\ opens[o].pc = "run"
    /\ reader' = [reader EXCEPT ![o] = "reading"]
    /\ waiter' = waiter \cup {o}
    /\ opens' = [opens EXCEPT ![o].pc = "done"]
    /\ UNCHANGED <<treeVars, closes, child, quit, teardown, scene, before>>

-----------------------------------------------------------------------------
(* ClosePane.                                                              *)
\* Mutant: counted before the pane is marked.
LastOneBefore(shut) == Live \ {Panel} = {}

\* There was a session from the start, so the panel alone is nothing to show.
LastOne(shut) ==
    LET left == {table[i] : i \in DOMAIN table} \ shut IN
    left \ {Panel} = {}

\* The lock section.
CloseDetaches(k, p) ==
    /\ k \in scene.closers /\ closes[k].pc = "start" /\ p \in Live
    /\ closed' = closed \cup {p}
    /\ tree' = Removed(p)
    /\ focus' = IF focus \notin Live \ {p}
                THEN LET near == IF Parent(p) = {} THEN Nil
                                 ELSE FirstLiveLeaf(tree'.kids, Sibling(p))
                     IN IF near # Nil THEN near ELSE FirstLiveLeaf(tree'.kids, tree'.root)
                ELSE focus
    /\ closes' = [closes EXCEPT ![k] =
                    [pc |-> "reap", pane |-> p, last |-> LastOne(closed')]]
    /\ before' = <<>>
    /\ UNCHANGED <<table, hidden, anchor, screen, opens, childVars, quit, teardown, scene>>

\* reapPane: SIGHUP, and the PTY closes under readLoop.
CloseReaps(k) ==
    /\ closes[k].pc = "reap"
    /\ child' = [child EXCEPT ![closes[k].pane] = Hung(closes[k].pane)]
    /\ closes' = [closes EXCEPT ![k].pc = "tell"]
    /\ UNCHANGED <<treeVars, opens, reader, waiter, quit, teardown, scene, before>>

\* pane_closed, and the end of a magmux with nothing left to show.
CloseTells(k) ==
    /\ closes[k].pc = "tell"
    /\ closes' = [closes EXCEPT ![k].pc = "done"]
    /\ quit' = (quit \/ closes[k].last)
    /\ UNCHANGED <<treeVars, opens, childVars, teardown, scene, before>>

-----------------------------------------------------------------------------
(* The person, the terminal, and the resize op.                            *)
Changes ==
    /\ scene.changes > 0 /\ ~quit /\ scene' = [scene EXCEPT !.changes = @ - 1]
    /\ UNCHANGED <<table, closed, opens, closes, childVars, quit, teardown>>

\* Mutant: the side is the sibling's.
AnchorFlipped(par) ==
    [node |-> Sibling(Panel), type |-> par.type, percent |-> par.percent,
     first |-> par.first = Sibling(Panel)]

\* hidePanelLocked: beside what, on which side, and how much of it.
AnchorIn(par) ==
    [node |-> Sibling(Panel), type |-> par.type, percent |-> par.percent,
     first |-> par.first = Panel]

\* Mutant: only a close moves focus.
FocusStays(t) == focus

FocusWithoutPanel(t) == IF focus = Panel THEN FirstLiveLeaf(t.kids, t.root) ELSE focus

HidePanel ==
    /\ Changes /\ Panel \in OnScreen
    /\ anchor' = IF Parent(Panel) = {} THEN NoAnchor
                 ELSE AnchorIn(tree.kids[CHOOSE s \in Parent(Panel) : TRUE])
    /\ tree' = Removed(Panel)
    /\ hidden' = TRUE
    /\ focus' = FocusWithoutPanel(tree')
    /\ before' = Shape(tree.kids, tree.root)
    /\ UNCHANGED screen

\* nodeInTreeLocked, and the root when the anchor is gone.
PanelPlace == IF anchor.node \in DOMAIN tree.box THEN anchor.node ELSE tree.root

\* showPanelLocked.
ShowPanel ==
    /\ Changes /\ Panel \in Live /\ hidden
    /\ LET t == PanelPlace IN
       \/ /\ t = Nil
          /\ tree' = Reflowed([root |-> Panel, kids |-> <<>>, box |-> <<>>], screen)
       \/ /\ t # Nil /\ SplitFits(tree.box[t], anchor)
          /\ tree' = Spliced(t, Panel, anchor, anchor.first)
    /\ hidden' = FALSE
    /\ before' = <<>>
    /\ UNCHANGED <<anchor, focus, screen>>

\* toggleStatusBar.
ToggleStatus ==
    /\ Changes
    /\ screen' = [screen EXCEPT !.status = ~@]
    /\ tree' = Reflowed(tree, screen')
    /\ UNCHANGED <<hidden, anchor, focus, before>>

\* focusNext, and focus by mouse or by the focus op.
MoveFocus ==
    /\ Changes
    /\ \E p \in OnScreen \ {focus} : focus' = p
    /\ UNCHANGED <<hidden, anchor, tree, screen, before>>

\* applySizeLocked.
Sized(s) ==
    /\ screen' = [s EXCEPT !.size = ScreenSize(s)]
    /\ tree' = Reflowed(tree, screen')
    /\ UNCHANGED <<hidden, anchor, focus, before>>

\* setAutoSize: SIGWINCH.
WindowChanges ==
    /\ ~Headless /\ Changes
    /\ \E w \in Windows : w # screen.auto /\ Sized([screen EXCEPT !.auto = w])

\* resizeLocked, sized for the whole screen or for the one session on it.
Resize ==
    /\ Changes
    /\ \E w \in Windows, one \in BOOLEAN :
         LET size == IF one /\ screen.status THEN <<w[1] + 1, w[2]>> ELSE w IN
         /\ one => tree.root \in Panes \ {Panel}
         /\ ~Headless => size[1] <= screen.auto[1] /\ size[2] <= screen.auto[2]
         /\ TreeFits(screen, size)
         /\ Sized([screen EXCEPT !.manual = size])

\* releaseManualLocked.
Release ==
    /\ Changes /\ screen.manual # <<0, 0>>
    /\ Sized([screen EXCEPT !.manual = <<0, 0>>])

-----------------------------------------------------------------------------
(* The children, their goroutines, and the end.                            *)
\* A child lets go of its terminal, or ends; one hung up on may not care, unless
\* it is killed (force).
ChildEnds(p) ==
    /\ p \in scene.mortal
    /\ \/ /\ child[p] = "running" /\ child' = [child EXCEPT ![p] = "eof"]
       \/ /\ child[p] \in {"running", "eof", "hung"} /\ child' = [child EXCEPT ![p] = "exited"]
    /\ UNCHANGED <<treeVars, opens, closes, reader, waiter, quit, teardown, scene, before>>

\* readLoop: end of file.
ReaderEnds(p) ==
    /\ reader[p] = "reading" /\ child[p] # "running"
    /\ reader' = [reader EXCEPT ![p] = "done"]
    /\ UNCHANGED <<treeVars, opens, closes, child, waiter, quit, teardown, scene, before>>

\* reapChild.
Reap(p) ==
    /\ p \in waiter /\ child[p] = "exited"
    /\ child' = [child EXCEPT ![p] = "reaped"]
    /\ UNCHANGED <<treeVars, opens, closes, reader, waiter, quit, teardown, scene, before>>

\* Ctrl-G q, -w, a signal.
Quits ==
    /\ scene.quits /\ ~quit /\ quit' = TRUE
    /\ UNCHANGED <<treeVars, opens, closes, childVars, teardown, scene, before>>

\* cleanup: nothing opens from here on, and every child is hung up on.
CleanupBegins ==
    /\ quit /\ teardown = "no" /\ teardown' = "closing"
    /\ UNCHANGED <<treeVars, opens, closes, childVars, quit, scene, before>>

Cleanup ==
    /\ teardown = "closing" /\ teardown' = "waiting"
    /\ child' = [p \in Panes |-> IF p \in Live THEN Hung(p) ELSE child[p]]
    /\ UNCHANGED <<treeVars, opens, closes, reader, waiter, quit, scene, before>>

Counted == {p \in Panes : reader[p] \in {"owed", "reading"}}

CleanupReturns ==
    /\ teardown = "waiting" /\ Counted = {} /\ teardown' = "over"
    /\ UNCHANGED <<treeVars, opens, closes, childVars, quit, scene, before>>

-----------------------------------------------------------------------------
Open(o) == OpenReads(o) \/ OpenForks(o) \/ OpenPublishes(o) \/ OpenUnwinds(o) \/ OpenRuns(o)
OpenGoesOn(o) == OpenForks(o) \/ OpenPublishes(o) \/ OpenUnwinds(o) \/ OpenRuns(o)
Detaches(k) == \E p \in Panes : CloseDetaches(k, p)
CloseGoesOn(k) == CloseReaps(k) \/ CloseTells(k)
Goroutine(p) == ReaderEnds(p) \/ Reap(p)
Ending == CleanupBegins \/ Cleanup \/ CleanupReturns

TreeNext ==
    /\ teardown # "over"
    /\ \/ \E o \in Openers : Open(o)
       \/ \E k \in Closers : Detaches(k) \/ CloseGoesOn(k)
       \/ HidePanel \/ ShowPanel \/ ToggleStatus \/ MoveFocus
       \/ WindowChanges \/ Resize \/ Release
       \/ \E p \in Panes : ChildEnds(p) \/ Goroutine(p)
       \/ Quits \/ Ending

TreeSpec == TreeInit /\ [][TreeNext]_paneVars

\* What runs by itself.
Running ==
    \/ \E o \in Openers : OpenGoesOn(o)
    \/ \E k \in Closers : CloseGoesOn(k)
    \/ \E p \in Panes : Goroutine(p)
    \/ Ending

\* None of it can: the guards of these actions, each denied.
AtRest ==
    /\ \A o \in Openers : opens[o].pc \notin {"fork", "publish", "run"}
    /\ \A k \in Closers : closes[k].pc \notin {"reap", "tell"}
    /\ \A p \in Panes : /\ ~(reader[p] = "reading" /\ child[p] # "running")
                        /\ ~(p \in waiter /\ child[p] = "exited")
    /\ ~(teardown = "no" /\ quit) /\ teardown # "closing"
    /\ ~(teardown = "waiting" /\ Counted = {})

-----------------------------------------------------------------------------
\* The leaves of the tree are the live panes that are not hidden, each once,
\* and every node is where a layout from scratch would put it: what splits,
\* collapses, the panel's coming and going and resizes do to parts of the tree
\* adds up (splitNodeLocked, removeLeafLocked, reflowLocked; planLayoutLocked's
\* dry run answers for it).
LayoutIsThePlan ==
    LET leaves == Leaves(tree.kids, tree.root) IN
    /\ ToSet(leaves) = OnScreen /\ IsInjective(leaves)
    /\ IF tree.root = Nil THEN tree.box = <<>>
       ELSE tree.box = Plan(tree.kids, tree.root, Canvas(screen, screen.size))

\* Keys go to a pane that is on screen, or nowhere: no close, hide or open
\* leaves focus on a pane nobody sees (ClosePane, hidePanelLocked, sockFocus).
FocusIsOnScreen == focus = Nil \/ focus \in OnScreen

\* A panel that comes back after nothing but resizes is back where it was
\* (hidePanelLocked's anchor, showPanelLocked).
PanelComesBack ==
    [][ShowPanel /\ before # <<>> => Shape(tree'.kids, tree'.root) = before]_paneVars

\* A magmux that has lost its last session quits, however its closes overlap
\* (ClosePane's lastOne).
LastOneQuits ==
    Live \subseteq {Panel} /\ (\A k \in Closers : closes[k].pc \in {"start", "done"}) => quit

\* The WaitGroup is not added to while cleanup waits on it
\* (OpenPane's second look at m.closing; cleanup).
NobodyJoinsTheWait ==
    [][teardown = "waiting" => Counted' \subseteq Counted]_paneVars

\* When no goroutine has anything left to do, every child that has ended has been
\* collected, be its pane open, closed or never published, and a cleanup that
\* began has returned: no read loop it waits for keeps its terminal.  Each
\* goroutine has few steps, so this is what becomes of every run (waitForChild,
\* unwindPane, reapPane, cleanup).
NothingIsLeftOver ==
    AtRest =>
      /\ teardown \in {"no", "over"}
      /\ teardown = "no" => \A p \in Panes : child[p] # "exited"

\* What is on screen is what the layout says, and keys go there.
ScreenIsThePlan == LayoutIsThePlan /\ FocusIsOnScreen

\* Sessions end whole: the last one takes magmux with it, and nothing of any of them
\* is left behind (ClosePane, unwindPane, cleanup).
EndsAreClean == LastOneQuits /\ NothingIsLeftOver
=============================================================================
