--------------------------- MODULE MCToolSession ---------------------------
(* Small instance of ToolSession for TLC. *)
EXTENDS ToolSession, TLC

Symmetry == Permutations(Calls) \cup Permutations(Requests) \cup Permutations(Answers)
=============================================================================
