----------------------------- MODULE MCFramer -----------------------------
(* Instances of Framer for TLC: which constants each run uses is in its cfg. *)
EXTENDS Framer, TLC

FramerSymmetry == Permutations(Subs) \cup Permutations(Rows) \cup Permutations(Cells)
                  \cup Permutations(Heads) \cup Permutations(Shapes)
=============================================================================
