----------------------------- MODULE MCFirebase -----------------------------
(* Instances of FirebaseCommands: which command is of which kind.           *)
EXTENDS FirebaseCommands, TLC
CONSTANTS p1, c1, c2, a, b
NoKinds == <<>>
OneKind == c1 :> "lane"
RefusedPath == {<<"result", c1>>}
==============================================================================
