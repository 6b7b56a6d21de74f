----------------------------- MODULE MCClients -----------------------------
(* What a client has on magmux's side, for TLC: its connection, and the turn  *)
(* it waits for. A behaviour plays one of the two scenes; they share no state *)
(* but the order of what is on the wire, which each has for itself.           *)
EXTENDS Connection, Turns

VARIABLE scene

\* The scene that is not played starts in one way only.
EitherInit ==
    /\ Init /\ TurnInit
    /\ \/ scene = "connection" /\ cfg = [kind |-> "claude", found |-> TRUE, hook |-> TRUE]
       \/ scene = "turn" /\ kind = "socket"
EitherNext ==
    \/ scene = "connection" /\ Next /\ UNCHANGED <<turnVars, scene>>
    \/ scene = "turn" /\ TurnNext /\ UNCHANGED <<vars, scene>>
EitherSpec == EitherInit /\ [][EitherNext]_<<vars, turnVars, scene>>
=============================================================================
