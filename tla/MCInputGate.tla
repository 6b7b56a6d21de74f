----------------------------- MODULE MCInputGate -----------------------------
EXTENDS InputGate
CONSTANTS d1, d2
\* d1 types a text in two writes, d2 a key and an editing key.
TextAndKeys == d1 :> <<"a", "b">> @@ d2 :> <<"c">>
SaidBefore == <<<<"a", "b">>>>
=============================================================================
