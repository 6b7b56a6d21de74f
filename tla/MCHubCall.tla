----------------------------- MODULE MCHubCall -----------------------------
(* Instances of HubCall for TLC: who makes which request, and to which pane. *)
EXTENDS HubCall, TLC

CONSTANTS r1, r2, r3, s1, p1

OneSub  == [r \in Reqs |-> s1]
Mixed   == [r \in Reqs |-> IF r = r3 THEN NoPane ELSE p1]

MixedSymmetry == Permutations(Lanes) \cup Permutations({r1, r2})
=============================================================================
