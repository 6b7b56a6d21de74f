--------------------------- MODULE MCPluginHost ---------------------------
(* Instances of PluginHost for TLC: one name, registered by connections that
   offer the same ops, or others. *)
EXTENDS PluginHost, TLC

CONSTANTS c1, c2, n1, o1, o2

OneName  == [c \in Conns |-> n1]
SameOps  == [c \in Conns |-> {o1, o2}]
=============================================================================
