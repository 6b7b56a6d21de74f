------------------------------ MODULE VTParser ------------------------------
(* The parser between a child's output and its terminal (mux/vt.go): bytes    *)
(* arrive in reads of any size; characters are decoded from them and control  *)
(* sequences recognised. What it recognises is a sequence of dispatches, in   *)
(* order. A byte is named by what it is; the alphabet stands for its classes: *)
(* ESC, CAN, BEL, LF and the characters with a meaning of their own are       *)
(* themselves, E4 leads a character of three bytes and B8 continues one.      *)
EXTENDS Naturals, Sequences

CONSTANT MaxParams      \* maxParams

Digit == [d \in {"1", "2"} |-> IF d = "1" THEN 1 ELSE 2]
Intermediate == {" ", "!", "("}
Private == {"<", "?"}
C0 == {"LF", "BEL"}
WideRune == "W"

NewParser == [state |-> "ground", inter |-> "", args |-> <<>>, nosc |-> 0, partial |-> <<>>]

Go(p, state) == [p EXCEPT !.state = state]
Clear(p) == [p EXCEPT !.inter = "", !.args = <<>>, !.nosc = 0]
Quiet(p) == [p |-> p, out |-> <<>>]
Tell(p, what, ch) == [p |-> p, out |-> <<[what |-> what, inter |-> p.inter, args |-> p.args, w |-> ch]>>]

\* The parameter past the last is read into the last.
param(p, ch) ==
    LET args == IF p.args = <<>> THEN <<0>> ELSE p.args
        n == Len(args)
    IN [p EXCEPT !.args = IF ch # ";" THEN [args EXCEPT ![n] = @ * 10 + Digit[ch]]
                          ELSE IF n < MaxParams THEN Append(args, 0) ELSE args]

p1(e, i) == IF i > Len(e.args) \/ e.args[i] = 0 THEN 1 ELSE e.args[i]

ground(p, ch) == IF ch \in C0 THEN Tell(p, "control", ch) ELSE Tell(p, "print", ch)

escape(p, ch) ==
    CASE ch = "!" \/ ch \in Intermediate ->
            Quiet(Go([p EXCEPT !.inter = ch], "escapeIntermediate"))
      [] ch = "[" -> Quiet(Go(Clear(p), "csiEntry"))
      [] ch \in {"]", "P"} -> Quiet(Go(Clear(p), "osc"))
      [] OTHER -> Tell(Go(p, "ground"), "escape", ch)

escapeIntermediate(p, ch) ==
    IF ch \in Intermediate THEN Quiet([p EXCEPT !.inter = ch])
    ELSE IF ch \in C0 \cup {WideRune} THEN Quiet(p)
    ELSE Tell(Go(p, "ground"), "escape", ch)

\* The states after ESC [.
csi(p, ch) ==
    CASE ch \in C0 \cup {WideRune} -> Quiet(p)
      [] ch \in DOMAIN Digit \cup {";"} ->
            IF p.state = "csiIntermediate" THEN Quiet(Go(p, "csiIgnore"))
            ELSE Quiet(Go(param(p, ch), "csiParam"))
      [] ch \in Private ->
            IF p.state = "csiEntry" THEN Quiet(Go([p EXCEPT !.inter = ch], "csiParam"))
            ELSE Quiet(Go(p, "csiIgnore"))
      [] ch = ":" -> Quiet(Go(p, "csiIgnore"))
      [] ch \in Intermediate -> Quiet(Go([p EXCEPT !.inter = ch], "csiIntermediate"))
      [] OTHER -> Tell(Go(p, "ground"), "csi", ch)

csiIgnore(p, ch) ==
    IF ch \in C0 \cup {WideRune, ";", ":"} \cup DOMAIN Digit \cup Private \cup Intermediate
    THEN Quiet(p) ELSE Quiet(Go(p, "ground"))

osc(p, ch) ==
    IF ch \in {"BEL", "\\"} THEN Tell(Go(p, "ground"), "osc", ch)
    ELSE IF ch \in C0 THEN Quiet(p)
    ELSE Quiet([p EXCEPT !.nosc = 1])

\* ESC and CAN work in every state; ESC ends a string without clearing it.
handleChar(p, ch) ==
    CASE ch = "ESC" -> IF p.state = "osc" THEN Tell(Go(p, "escape"), "osc", ch)
                      ELSE Quiet(Go(Clear(p), "escape"))
      [] ch = "CAN" -> Quiet(Go(p, "ground"))
      [] OTHER -> CASE p.state = "ground" -> ground(p, ch)
                    [] p.state = "escape" -> escape(p, ch)
                    [] p.state = "escapeIntermediate" -> escapeIntermediate(p, ch)
                    [] p.state \in {"csiEntry", "csiParam", "csiIntermediate"} -> csi(p, ch)
                    [] p.state = "csiIgnore" -> csiIgnore(p, ch)
                    [] p.state = "osc" -> osc(p, ch)

\* Whether the first character of `data` is there in full, or cannot be.
FullRune(data) == data[1] # "E4" \/ (Len(data) > 1 /\ data[2] # "B8") \/ Len(data) > 2
DecodeRune(data) ==
    IF data[1] = "E4" /\ Len(data) > 2 /\ data[2] = "B8" /\ data[3] = "B8"
    THEN [rune |-> WideRune, size |-> 3]
    ELSE [rune |-> IF data[1] \in {"E4", "B8"} THEN "?" ELSE data[1], size |-> 1]

\* One character of what is left to read. What is incomplete waits.
DecodeOne(d) ==
    IF d.data = <<>> THEN d
    ELSE IF Len(d.data) < 4 /\ ~FullRune(d.data)
    THEN [p |-> [d.p EXCEPT !.partial = d.data], out |-> d.out, data |-> <<>>]
    ELSE LET r == DecodeRune(d.data)
             one == handleChar(d.p, r.rune)
         IN [p |-> one.p, out |-> d.out \o one.out,
             data |-> SubSeq(d.data, r.size + 1, Len(d.data))]
\* Nothing is left after as many characters as there are bytes.
Decode(p, data) ==
    LET after[n \in 0 .. Len(data)] ==
          IF n = 0 THEN [p |-> p, out |-> <<>>, data |-> data] ELSE DecodeOne(after[n - 1])
    IN [p |-> after[Len(data)].p, out |-> after[Len(data)].out]
\* One read: what an earlier one left incomplete comes first.
\* Mutant: what the last read left incomplete is lost.
writeMut_Forgets(p, data) == Decode([p EXCEPT !.partial = <<>>], data)
write(p, data) == Decode([p EXCEPT !.partial = <<>>], p.partial \o data)
=============================================================================
