--------------------------- MODULE MCToolRegistry ---------------------------
(***************************************************************************)
(* ToolRegistry for TLC: contents and goroutines are symmetric.            *)
(***************************************************************************)
EXTENDS ToolRegistry, TLC

Symmetry == Permutations(Procs) \cup Permutations(Contents)
=============================================================================
