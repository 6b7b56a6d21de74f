------------------------------ MODULE Terminal ------------------------------
(* The terminal a pane's child writes to (mux/vt.go, mux/screen.go): two      *)
(* screens, the primary one with its scrollback, the cursor and the margins   *)
(* the child moves, the person who scrolls back through it and the window     *)
(* that changes size under it.                                                *)
(*                                                                            *)
(* Rows are names into `heap`, because scrollUp, scrollDown and the ring swap *)
(* rows instead of copying them. A cell is blank, a narrow character, or one  *)
(* half of a wide one; colours and attributes are left out, and so are the    *)
(* replies to queries, character sets and modes kept for others (the frame    *)
(* streamer's and the readiness signals have modules of their own).           *)
EXTENDS Scrollback, VTParser, FiniteSets

CONSTANTS
    Sizes,      \* the <<rows, cols>> a pane may have
    Cap,        \* scrollbackLimit
    Counts,     \* how often, or how far, a control sequence may ask for
    Places,     \* the rows and columns it may name
    MaxRows,    \* bound: the most rows of any of them
    Scenes      \* which operations a behaviour may use, how many, and the first size

ASSUME TerminalAssumption ==
    /\ Cap \in Nat /\ MaxRows \in Nat
    /\ Counts \subseteq Nat \ {0} /\ Places \subseteq Nat \ {0}
    /\ Sizes \subseteq (1 .. MaxRows) \X (Nat \ {0})
    /\ \A sc \in Scenes : sc.size \in Sizes /\ sc.steps \in Nat

VARIABLES
    t,          \* the pane's terminal, a record:
                \*   heap (what each row says), scr (the two screens), on (the one
                \*   in use), altMode, lastChar, and two facts of the model's own:
                \*   gone (the last Cap rows that scrolled off the primary screen)
                \*   and down (an index ran out of its row: the program dies)
    scene, left,\* which operations, and how many more
    who,        \* whose step it was last
    vt,         \* the parser
    sent        \* what the child has written, where its bytes are modelled
termVars == <<t, scene, left, who, vt, sent>>

----------------------------------------------------------------------------
(* Cells, rows and screens.                                                   *)
Space == " "
Wide == WideRune
Cont == "c"
runeWidth(ch) == IF ch = Wide THEN 2 ELSE IF ch = "none" THEN 0 ELSE 1

Names == 1 .. 3 * MaxRows + Cap
NoAlt == [rows |-> 0]
Live(u) == {k \in {"prim", "alt"} : u.scr[k] # NoAlt}
Upto(n) == 0 .. n - 1

Used(u) ==
    (UNION {{u.scr[k].cells[y] : y \in Upto(u.scr[k].rows)} : k \in Live(u)})
        \cup {u.scr["prim"].ring.sb[k] : k \in Upto(Cap)}
\* The n-th row nothing holds: what an allocation returns.
Unused(u, n) ==
    LET free == Names \ Used(u)
    IN CHOOSE id \in free : Cardinality({k \in free : k <= id}) = n

Blanked(row) == [c \in DOMAIN row |-> Space]
BlankRow(cols) == [c \in Upto(cols) |-> Space]
makeGrid(u, rows) == [y \in Upto(rows) |-> Unused(u, y + 1)]

newScreen(rows, cols, cells, cap) ==
    [rows |-> rows, cols |-> cols, cells |-> cells, curY |-> 0, curX |-> 0,
     savedY |-> 0, savedX |-> 0, scrollTop |-> 0, scrollBot |-> rows,
     originMode |-> FALSE, autoWrap |-> TRUE, insert |-> FALSE, xenl |-> FALSE,
     ring |-> newRing(cap)]

S(u) == u.scr[u.on]
WithS(u, s) == [u EXCEPT !.scr[u.on] = s]
Move(u, y, x) == WithS(u, [S(u) EXCEPT !.curY = y, !.curX = x])
\* Move, and the pending wrap is dropped.
MoveOff(u, y, x) == WithS(u, [S(u) EXCEPT !.curY = y, !.curX = x, !.xenl = FALSE])
Row(u, y) == u.heap[S(u).cells[y]]
Write(u, y, row) == [u EXCEPT !.heap[S(u).cells[y]] = row]
Die(u) == [u EXCEPT !.down = TRUE]
Min2(a, b) == IF a < b THEN a ELSE b
Max2(a, b) == IF a > b THEN a ELSE b

----------------------------------------------------------------------------
(* screen.go                                                                  *)
clearLine(u, y, from, to) ==
    IF y \notin Upto(S(u).rows) THEN u
    ELSE Write(u, y, [c \in DOMAIN Row(u, y) |->
                         IF from <= c /\ c < to THEN Space ELSE Row(u, y)[c]])

Remember(u, row) ==
    LET all == Append(u.gone, row)
    IN [u EXCEPT !.gone = SubSeq(all, Len(all) - Min2(Cap, Len(all)) + 1, Len(all))]

\* Mutant: the evicted row is recycled although the ring keeps it.
RecycledMut_Aliased(u) ==
    LET row == S(u).cells[0] IN [row |-> row, cells |-> u.heap[row]]
\* Mutant: a row left over from another width is recycled as it is.
RecycledMut_AnyWidth(u) ==
    LET old == Dropped(S(u).ring)
    IN IF old # NoRow THEN [row |-> old, cells |-> u.heap[old]]
       ELSE [row |-> Unused(u, 1), cells |-> BlankRow(S(u).cols)]
\* What the ring hands back for the row it takes: the one it drops, where that
\* has the width of the screen, and a new one otherwise.
Recycled(u) ==
    LET old == Dropped(S(u).ring)
    IN IF old # NoRow /\ DOMAIN u.heap[old] = Upto(S(u).cols) THEN [row |-> old, cells |-> u.heap[old]]
       ELSE [row |-> Unused(u, 1), cells |-> BlankRow(S(u).cols)]

\* The evicted row is swapped in as the new bottom one, through the ring when
\* the whole screen scrolls: what the ring drops is reused if its width fits.
scrollUp(u, top, bot) ==
    LET s == S(u)
        save == s.cells[top]
        whole == top = 0 /\ bot = s.rows
        kept == s.ring.cap > 0 /\ whole
        spare == IF kept THEN Recycled(u) ELSE [row |-> save, cells |-> u.heap[save]]
        cells == [y \in Upto(s.rows) |->
                     IF y = bot - 1 THEN spare.row
                     ELSE IF top <= y /\ y < bot THEN s.cells[y + 1] ELSE s.cells[y]]
        moved == WithS(u, [s EXCEPT !.cells = cells,
                                    !.ring = IF kept THEN pushScrollback(@, save) ELSE @])
        noted == IF u.on = "prim" /\ whole THEN Remember(moved, u.heap[save]) ELSE moved
    IN IF top >= bot \/ top < 0 \/ bot > s.rows THEN u
       ELSE [noted EXCEPT !.heap[spare.row] = Blanked(spare.cells)]

scrollDown(u, top, bot) ==
    LET s == S(u)
        save == s.cells[bot - 1]
        cells == [y \in Upto(s.rows) |->
                     IF y = top THEN save
                     ELSE IF top < y /\ y < bot THEN s.cells[y - 1] ELSE s.cells[y]]
    IN IF top >= bot \/ top < 0 \/ bot > s.rows THEN u
       ELSE [WithS(u, [s EXCEPT !.cells = cells]) EXCEPT !.heap[save] = Blanked(@)]

\* New cells, what fits copied into them; the margins are reset and the cursor
\* is brought in. The saved cursor and the scrollback are left as they are.
resizeScreen(u, k, rows, cols) ==
    LET s == u.scr[k]
        cells == makeGrid(u, rows)
        was == [y \in Upto(rows) |-> IF y < s.rows THEN u.heap[s.cells[y]] ELSE BlankRow(0)]
        fits(y) == [c \in Upto(cols) |-> IF c \in DOMAIN was[y] THEN was[y][c] ELSE Space]
        row(id) == CHOOSE y \in Upto(rows) : cells[y] = id
    IN [u EXCEPT
          !.heap = [id \in Names |-> IF id \in {cells[y] : y \in Upto(rows)} THEN fits(row(id)) ELSE @[id]],
          !.scr[k] = [s EXCEPT !.rows = rows, !.cols = cols, !.cells = cells,
                               !.scrollTop = 0, !.scrollBot = rows,
                               !.curY = Min2(@, rows - 1), !.curX = Min2(@, cols - 1)]]

\* Pane.resize: both screens, whichever is in use.
resizePane(u, rows, cols) ==
    LET prim == resizeScreen(u, "prim", rows, cols)
    IN IF u.scr["alt"] = NoAlt THEN prim ELSE resizeScreen(prim, "alt", rows, cols)

----------------------------------------------------------------------------
(* vt.go: printing and the C0 and ESC controls.                               *)
index(u) ==
    LET s == S(u) IN
    IF s.curY = s.scrollBot - 1 THEN scrollUp(u, s.scrollTop, s.scrollBot)
    ELSE IF s.curY < s.rows - 1 THEN Move(u, s.curY + 1, s.curX) ELSE u

reverseIndex(u) ==
    LET s == S(u) IN
    IF s.curY = s.scrollTop THEN scrollDown(u, s.scrollTop, s.scrollBot)
    ELSE IF s.curY > 0 THEN Move(u, s.curY - 1, s.curX) ELSE u

\* Insert mode moves the rest of the row right before anything is checked.
Shifted(u, cw) ==
    LET s == S(u) IN
    IF s.curY >= s.rows \/ s.curX + cw > s.cols THEN Die(u)
    ELSE Write(u, s.curY, [c \in Upto(s.cols) |->
             IF c < s.curX + cw THEN Row(u, s.curY)[c] ELSE Row(u, s.curY)[c - cw]])

NextLine(u) == index(Move(u, S(u).curY, 0))

\* A pending wrap is taken, then one is made if the character does not fit.
Wrapped(u, cw) ==
    LET s == S(u)
        off == WithS(u, [s EXCEPT !.xenl = FALSE])
        due == IF ~s.xenl THEN u ELSE IF s.autoWrap THEN NextLine(off) ELSE off
    IN IF S(due).curX + cw > s.cols /\ s.autoWrap THEN NextLine(due) ELSE due

Put(u, ch, cw) ==
    LET s == S(u)
        x == s.curX
        row == [Row(u, s.curY) EXCEPT ![x] = ch]
        both == IF cw > 1 /\ x + 1 < s.cols THEN [row EXCEPT ![x + 1] = Cont] ELSE row
        last == x + cw >= s.cols
    IN WithS(Write(u, s.curY, both),
             [s EXCEPT !.xenl = last, !.curX = IF last THEN @ ELSE @ + cw])

\* The character goes in the cell the cursor is on, if it fits and there is one.
Placing(u, ch, cw) ==
    LET s == S(u) IN
    IF s.curX + cw > s.cols /\ ~s.autoWrap THEN u
    ELSE IF s.curY >= s.rows \/ s.curX >= s.cols THEN u
    ELSE Put(u, ch, cw)

doPrint(u0, ch) ==
    LET cw == runeWidth(ch)
        u == [u0 EXCEPT !.lastChar = ch]
        v == IF S(u).insert THEN Shifted(u, cw) ELSE u
    IN IF cw = 0 THEN u
       ELSE IF v.down THEN v
       ELSE Placing(Wrapped(v, cw), ch, cw)

BS(u) == MoveOff(u, S(u).curY, Max2(S(u).curX - 1, 0))
HT(u) == Move(u, S(u).curY, Min2((S(u).curX \div 8 + 1) * 8, S(u).cols - 1))
CR(u) == MoveOff(u, S(u).curY, 0)
NEL(u) == NextLine(u)
DECSC(u) == WithS(u, [S(u) EXCEPT !.savedY = S(u).curY, !.savedX = S(u).curX])
DECRC(u) == Move(u, S(u).savedY, S(u).savedX)
RIS(u) ==
    WithS(u, [S(u) EXCEPT !.curY = 0, !.curX = 0, !.scrollTop = 0, !.scrollBot = S(u).rows,
                          !.originMode = FALSE, !.autoWrap = TRUE])

\* Mutant: the screen in use is asked for the one to return to.
setAltScreenMut_Anchor(u, on) ==
    LET s == S(u)
        blank == newScreen(s.rows, s.cols, makeGrid(u, s.rows), 0)
        made == [u EXCEPT !.scr["alt"] = blank,
                          !.heap = [id \in Names |-> IF \E y \in Upto(s.rows) : blank.cells[y] = id
                                                    THEN BlankRow(s.cols) ELSE @[id]]]
    IN IF ~on THEN [u EXCEPT !.altMode = FALSE]
       ELSE [(IF u.scr["alt"] = NoAlt THEN made ELSE u) EXCEPT !.on = "alt", !.altMode = TRUE]
\* Anchored on the primary screen, whichever is in use.
setAltScreen(u, on) ==
    LET prim == u.scr["prim"]
        blank == newScreen(prim.rows, prim.cols, makeGrid(u, prim.rows), 0)
        made == [u EXCEPT !.scr["alt"] = blank,
                          !.heap = [id \in Names |-> IF \E y \in Upto(prim.rows) : blank.cells[y] = id
                                                    THEN BlankRow(prim.cols) ELSE @[id]]]
    IN IF ~on THEN [u EXCEPT !.on = "prim", !.altMode = FALSE]
       ELSE [(IF u.scr["alt"] = NoAlt THEN made ELSE u) EXCEPT !.on = "alt", !.altMode = TRUE]

----------------------------------------------------------------------------
(* vt.go: the control sequences.                                              *)
CUU(u, n) == MoveOff(u, Max2(S(u).scrollTop, S(u).curY - n), S(u).curX)
CUD(u, n) == MoveOff(u, Min2(S(u).scrollBot - 1, S(u).curY + n), S(u).curX)
CUF(u, n) == MoveOff(u, S(u).curY, Min2(S(u).cols - 1, S(u).curX + n))
CUB(u, n) == MoveOff(u, S(u).curY, Max2(0, S(u).curX - n))
CNL(u, n) == MoveOff(u, Min2(S(u).scrollBot - 1, S(u).curY + n), 0)
CPL(u, n) == MoveOff(u, Max2(S(u).scrollTop, S(u).curY - n), 0)
CHA(u, n) == MoveOff(u, S(u).curY, clamp(n - 1, 0, S(u).cols - 1))
VPA(u, n) == MoveOff(u, clamp(n - 1, 0, S(u).rows - 1), S(u).curX)
CBT(u) == MoveOff(u, S(u).curY, Max2(0, ((S(u).curX - 1) \div 8) * 8))
CUP(u, row, col) ==
    LET top == IF S(u).originMode THEN S(u).scrollTop ELSE 0
    IN MoveOff(u, clamp(row - 1 + top, 0, S(u).rows - 1), clamp(col - 1, 0, S(u).cols - 1))

EL(u, how) ==
    LET s == S(u) IN
    clearLine(u, s.curY, IF how = 0 THEN s.curX ELSE 0, IF how = 1 THEN s.curX + 1 ELSE s.cols)
ED(u, how) ==
    LET s == S(u)
        whole == CASE how = 0 -> {y \in Upto(s.rows) : y > s.curY}
                   [] how = 1 -> {y \in Upto(s.rows) : y < s.curY}
                   [] how = 2 -> Upto(s.rows)
        swept == [u EXCEPT !.heap = [id \in Names |-> IF \E y \in whole : s.cells[y] = id
                                                     THEN BlankRow(s.cols) ELSE @[id]]]
    IN IF how = 2 THEN swept ELSE EL(swept, how)

\* One time of what is done several times over.
Once(op, u) ==
    LET s == S(u) IN
    CASE op = "IL" -> scrollDown(u, s.curY, s.scrollBot)
      [] op = "DL" -> scrollUp(u, s.curY, s.scrollBot)
      [] op = "SU" -> scrollUp(u, s.scrollTop, s.scrollBot)
      [] op = "SD" -> scrollDown(u, s.scrollTop, s.scrollBot)
      [] op = "REP" -> IF u.down THEN u ELSE doPrint(u, u.lastChar)
Times(op, n, u) ==
    LET after[k \in 0 .. n] == IF k = 0 THEN u ELSE Once(op, after[k - 1]) IN after[n]
IL(u, n) == Times("IL", n, u)
DL(u, n) == Times("DL", n, u)
SU(u, n) == Times("SU", n, u)
SD(u, n) == Times("SD", n, u)
REP(u, n) == Times("REP", n, u)

\* DCH and ICH slice the cursor's row from the cursor on, wherever that is.
Sliced(u, row) ==
    IF S(u).curY >= S(u).rows \/ S(u).curX > S(u).cols THEN Die(u) ELSE Write(u, S(u).curY, row)
DCH(u, k) ==
    LET s == S(u)
        n == Min2(k, s.cols - s.curX)
    IN Sliced(u, [c \in Upto(s.cols) |->
                    IF c >= s.cols - n THEN Space
                    ELSE IF c >= s.curX THEN Row(u, s.curY)[c + n] ELSE Row(u, s.curY)[c]])
ICH(u, k) ==
    LET s == S(u)
        n == Min2(k, s.cols - s.curX)
    IN Sliced(u, [c \in Upto(s.cols) |->
                    IF c >= s.curX + n THEN Row(u, s.curY)[c - n]
                    ELSE IF c >= s.curX THEN Space ELSE Row(u, s.curY)[c]])
ECH(u, k) ==
    LET s == S(u) IN
    IF s.curX >= s.cols THEN u
    ELSE IF s.curY >= s.rows THEN Die(u)
    ELSE clearLine(u, s.curY, s.curX, s.curX + Min2(k, s.cols - s.curX))

DECSTBM(u, top, bot0) ==
    LET s == S(u)
        bot == IF bot0 = 0 \/ bot0 > s.rows THEN s.rows ELSE bot0
    IN IF top >= bot THEN u
       ELSE WithS(u, [s EXCEPT !.scrollTop = top - 1, !.scrollBot = bot, !.curX = 0,
                               !.curY = IF s.originMode THEN top - 1 ELSE 0, !.xenl = FALSE])
DECOM(u, on) == WithS(u, [S(u) EXCEPT !.originMode = on, !.curY = 0, !.curX = 0])
DECAWM(u, on) == WithS(u, [S(u) EXCEPT !.autoWrap = on])
IRM(u, on) == WithS(u, [S(u) EXCEPT !.insert = on])

----------------------------------------------------------------------------
(* Who acts.                                                                  *)
First ==
    LET z == scene.size
        cells == [y \in Upto(z[1]) |-> y + 1]
    IN [heap |-> [id \in Names |-> IF id <= z[1] THEN BlankRow(z[2]) ELSE BlankRow(0)],
        scr |-> [k \in {"prim", "alt"} |-> IF k = "prim" THEN newScreen(z[1], z[2], cells, Cap) ELSE NoAlt],
        on |-> "prim", altMode |-> FALSE, lastChar |-> "none", gone |-> <<>>, down |-> FALSE]

TermInit ==
    /\ scene \in Scenes
    /\ left = scene.steps
    /\ who = "child"
    /\ vt = NewParser
    /\ sent = <<>>
    /\ t = First

\* What no screen and no ring holds any more is not remembered.
Tidy(u) == [u EXCEPT !.heap = [id \in Names |-> IF id \in Used(u) THEN @[id] ELSE BlankRow(0)]]

Step(name, by, news) ==
    /\ name \in scene.ops
    /\ left > 0
    /\ ~t.down
    /\ \E u \in news : t' = Tidy(u)
    /\ left' = left - 1
    /\ who' = by
    /\ UNCHANGED <<scene, vt, sent>>

\* The read loop: one parsed sequence, under the pane's lock.
PrintChar == Step("print", "child", {doPrint(t, ch) : ch \in scene.chars})
Repeat == Step("repeat", "child", {REP(t, n) : n \in Counts})
Control == Step("control", "child", {BS(t), HT(t), CR(t), CBT(t)})
Newline == Step("newline", "child", {index(t), NEL(t)})
LineUp == Step("lineup", "child", {reverseIndex(t)})
Scroll == Step("scroll", "child", UNION {{SU(t, n), SD(t, n)} : n \in Counts})
Lines == Step("lines", "child", UNION {{IL(t, n), DL(t, n)} : n \in Counts})
Margins == Step("margins", "child", {DECSTBM(t, top, bot) : top \in Places, bot \in Places \cup {0}})
Origin == Step("origin", "child", {DECOM(t, on) : on \in BOOLEAN})
Vertical == Step("vertical", "child", UNION {{CUU(t, n), CUD(t, n), CNL(t, n), CPL(t, n)} : n \in Counts})
Horizontal == Step("horizontal", "child", UNION {{CUF(t, n), CUB(t, n)} : n \in Counts})
Position == Step("position", "child", {CUP(t, y, x) : y \in Places, x \in Places})
ToLine == Step("line", "child", {VPA(t, n) : n \in Places})
ToColumn == Step("column", "child", {CHA(t, n) : n \in Places})
Erase == Step("erase", "child", UNION {{EL(t, how), ED(t, how)} : how \in 0 .. 2})
Characters == Step("characters", "child", UNION {{DCH(t, n), ICH(t, n), ECH(t, n)} : n \in Counts})
SetModes == Step("modes", "child", UNION {{DECAWM(t, on), IRM(t, on)} : on \in BOOLEAN})
Save == Step("save", "child", {DECSC(t), DECRC(t)})
Reset == Step("reset", "child", {RIS(t)})
SwitchScreen == Step("switch", "child", {setAltScreen(t, on) : on \in BOOLEAN})

\* A read of whatever has arrived of the child's bytes, and what it dispatches:
\* here the sequences the alphabet can spell.
Dispatch(u, e) ==
    CASE u.down -> u
      [] e.what = "print" -> doPrint(u, e.w)
      [] e.what = "control" /\ e.w = "LF" -> index(u)
      [] e.what = "escape" /\ e.w = "D" -> index(u)
      [] e.what = "csi" /\ e.w = "D" /\ e.inter = "" -> CUB(u, p1(e, 1))
      [] OTHER -> u
Dispatched(u, out) ==
    LET after[k \in 0 .. Len(out)] == IF k = 0 THEN u ELSE Dispatch(after[k - 1], out[k])
    IN after[Len(out)]
Read(u, p, data) ==
    LET r == write(p, data) IN [u |-> Dispatched(u, r.out), p |-> r.p]
ReadOutput ==
    /\ "read" \in scene.ops
    /\ ~t.down
    /\ \E n \in 1 .. Min2(left, 3) : \E data \in [1 .. n -> scene.chars] :
         LET r == Read(t, vt, data)
         IN /\ t' = Tidy(r.u)
            /\ vt' = r.p
            /\ sent' = sent \o data
            /\ left' = left - n
    /\ who' = "child"
    /\ UNCHANGED scene

\* The window, or a split beside the pane.
PaneResizes == Step("resize", "size", {resizePane(t, z[1], z[2]) : z \in Sizes})

\* The person: Ctrl-G [ and the wheel, by some rows; then the keys of the scroll
\* mode, which is on while `off` is not 0. The wheel is the child's in altMode.
scrollFocusedBy(delta) ==
    LET r == S(t).ring IN
    /\ r.len > 0 \/ r.off > 0
    /\ Step("person", "person", {WithS(t, [S(t) EXCEPT !.ring = scrollBackBy(r, delta)])})
scrollFocusedTo(off) ==
    Step("person", "person", {WithS(t, [S(t) EXCEPT !.ring = scrollTo(@, off)])})
ScrollKey ==
    /\ S(t).ring.off > 0
    /\ \/ \E d \in {1, -1, Max2(1, S(t).rows - 2), -Max2(1, S(t).rows - 2)} : scrollFocusedBy(d)
       \/ \E off \in {0, 1000} : scrollFocusedTo(off)
EnterScroll == scrollFocusedBy(Max2(1, S(t).rows - 2))
Wheel == ~t.altMode /\ \E d \in {3, -3} : scrollFocusedBy(d)

TermNext ==
    \/ PrintChar \/ Repeat \/ Control \/ Newline \/ LineUp \/ Scroll \/ Lines \/ Margins \/ Origin
    \/ Vertical \/ Horizontal \/ ToLine \/ ToColumn \/ Position \/ Erase \/ Characters \/ SetModes \/ Save \/ Reset
    \/ SwitchScreen \/ ReadOutput \/ PaneResizes \/ ScrollKey \/ EnterScroll \/ Wheel

TermSpec == TermInit /\ [][TermNext]_termVars

----------------------------------------------------------------------------
(* viewRow and captureAt: what is shown i rows down, scrolled back by `off`.  *)
viewRow(s, off, i) ==
    IF i >= off THEN (IF i - off < s.rows THEN s.cells[i - off] ELSE NoRow)
    ELSE sbRow(s.ring, s.ring.len + i - off)
captureAt(u, s, offset) ==
    LET off == clamp(offset, 0, s.ring.len)
    IN [i \in 1 .. s.rows |-> IF viewRow(s, off, i - 1) = NoRow THEN BlankRow(0)
                               ELSE u.heap[viewRow(s, off, i - 1)]]

\* The history and the screen as one document, by what really scrolled off.
Document(u, k) ==
    (IF k = "prim" THEN u.gone ELSE <<>>)
        \o [i \in 1 .. u.scr[k].rows |-> u.heap[u.scr[k].cells[i - 1]]]

\* A screenful at any offset is a window on the rows that scrolled off the top,
\* in order and unaltered, followed by the screen: the ring's arithmetic, the
\* rows it recycles and the mapping shared by the painter, the scroll keys and
\* capture agree, and nothing drawn on the alternate screen enters history.
ViewIsAWindow ==
    \A k \in Live(t) :
        LET s == t.scr[k]
            doc == Document(t, k)
        IN \A off \in 0 .. Cap + 1 :
             LET from == Len(doc) - s.rows - Min2(off, Len(doc) - s.rows)
             IN captureAt(t, s, off) = SubSeq(doc, from + 1, from + s.rows)

\* The rows of the history in view, oldest first.
Parked(u) ==
    LET s == u.scr["prim"]
    IN [i \in 1 .. Min2(s.ring.off, s.rows) |-> sbRow(s.ring, s.ring.len - s.ring.off + i - 1)]

\* While the person reads the history nothing the child prints moves it: the
\* rows of history in view stay where they are, and say what they said, until
\* the ring is full and the one at the top is the one it drops.
HistoryHeldStill ==
    [][who' = "child" /\ t'.scr["prim"].ring.off < Cap
        => \A i \in DOMAIN Parked(t) :
             t'.heap[Parked(t)'[i]] = t.heap[Parked(t)[i]]]_termVars

\* The child that leaves a full-screen program finds the shell's screen: while
\* the alternate screen is in use only a resize touches the primary one, and
\* the screen in use is the alternate one exactly in altMode.
Shell(u) == [s |-> u.scr["prim"], says |-> [y \in Upto(u.scr["prim"].rows) |-> u.heap[u.scr["prim"].cells[y]]]]
PrimaryComesBack ==
    [][/\ t'.altMode <=> t'.on = "alt"
       /\ t.on = "alt" /\ Shell(t)' # Shell(t) => who' = "size"
       /\ t.on = "alt" /\ t'.on = "prim" => Shell(t)' = Shell(t)]_termVars

\* What is not on show is kept: the history the person has scrolled back to, and the
\* shell's screen under a full-screen program (pushScrollback, setAltScreen).
WhatIsHiddenIsKept == HistoryHeldStill /\ PrimaryComesBack

\* What the painter and the streamer index without looking: a screen has `rows`
\* rows of exactly `cols` cells, whatever row the ring handed back; the margins
\* lie in it; the viewport within the history; and the cursor is off the screen
\* only where a position saved before a shrink was restored.
PainterInBounds ==
    \A k \in Live(t) :
        LET s == t.scr[k] IN
        /\ DOMAIN s.cells = Upto(s.rows)
        /\ \A y \in Upto(s.rows) : DOMAIN t.heap[s.cells[y]] = Upto(s.cols)
        /\ 0 <= s.scrollTop /\ s.scrollTop < s.scrollBot /\ s.scrollBot <= s.rows
        /\ 0 <= s.ring.off /\ s.ring.off <= s.ring.len /\ s.ring.len <= s.ring.cap
        /\ 0 <= s.curY /\ (s.curY < s.rows \/ s.savedY >= s.rows)
        /\ 0 <= s.curX /\ (s.curX < s.cols \/ s.savedX >= s.cols)

\* How the child's output is cut into reads does not matter: a character or a
\* sequence split between two of them is recognised as it is in one.
ReadsDoNotMatter ==
    sent # <<>> /\ ~t.down =>
        LET whole == Read(First, NewParser, sent) IN vt = whole.p /\ t = Tidy(whole.u)
=============================================================================
