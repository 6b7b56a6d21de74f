----------------------------- MODULE MCStreamer -----------------------------
(* Instances of Streamer for TLC: which constants each run uses is in its cfg. *)
EXTENDS Streamer, TLC

FramerSymmetry == Permutations(Framers)
=============================================================================
