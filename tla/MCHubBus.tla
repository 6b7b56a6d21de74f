------------------------------ MODULE MCHubBus ------------------------------
(* Instances of HubBus for TLC: which constants each run uses is in its cfg. *)
EXTENDS HubStreams, TLC

ScreenSymmetry == Permutations(Rows) \cup Permutations(Cells)
=============================================================================
