------------------------------ MODULE MCProxy ------------------------------
(***************************************************************************)
(* Instances of Proxy for TLC: callers are model values and symmetric.     *)
(***************************************************************************)
EXTENDS Proxy, TLC

CallerSymmetry == Permutations(Callers)
=============================================================================
