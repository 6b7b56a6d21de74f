----------------------------- MODULE Scrollback -----------------------------
(* The scrollback of a screen (mux/scrollback.go): a bounded ring of the rows *)
(* that scrolled off its top, and the viewport's offset into it. A ring is a  *)
(* value: `sb` holds row names, `head` is the slot written next, `len` how    *)
(* many rows are kept, `cap` the bound (0 on an alternate screen) and `off`   *)
(* how far back the person has scrolled. A row is a name: the program hands   *)
(* rows from the screen to the ring and back without copying them.            *)
EXTENDS Integers

NoRow == 0

newRing(cap) ==
    [sb |-> [k \in 0 .. cap - 1 |-> NoRow], head |-> 0, len |-> 0, cap |-> cap, off |-> 0]

AtCap(r) == r.len = r.cap

\* The row the ring gives up when it takes another: the oldest one, once it is full.
Dropped(r) == IF AtCap(r) THEN r.sb[r.head] ELSE NoRow

\* Mutant: the viewport keeps its offset while rows arrive.
pushScrollbackMut_Drift(r, row) ==
    [sb |-> [r.sb EXCEPT ![r.head] = row],
     head |-> IF r.head + 1 = r.cap THEN 0 ELSE r.head + 1,
     len |-> IF AtCap(r) THEN r.len ELSE r.len + 1,
     cap |-> r.cap,
     off |-> r.off]
\* `row` becomes the newest; a viewport parked in the history stays on its rows.
pushScrollback(r, row) ==
    LET len == IF AtCap(r) THEN r.len ELSE r.len + 1
    IN [sb |-> [r.sb EXCEPT ![r.head] = row],
        head |-> IF r.head + 1 = r.cap THEN 0 ELSE r.head + 1,
        len |-> len,
        cap |-> r.cap,
        off |-> IF r.off > 0 /\ r.off < len THEN r.off + 1 ELSE r.off]

\* The i-th oldest row kept, counting from 0.
sbRow(r, i) ==
    IF i < 0 \/ i >= r.len THEN NoRow
    ELSE r.sb[(r.head - r.len + i + r.cap) % r.cap]

clamp(v, low, high) == IF v < low THEN low ELSE IF v > high THEN high ELSE v

scrollBackBy(r, delta) == [r EXCEPT !.off = clamp(r.off + delta, 0, r.len)]
scrollTo(r, off) == [r EXCEPT !.off = clamp(off, 0, r.len)]
=============================================================================
