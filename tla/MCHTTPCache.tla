---------------------------- MODULE MCHTTPCache ----------------------------
(***************************************************************************)
(* HTTPCache for TLC: keys and round trips are symmetric.                  *)
(***************************************************************************)
EXTENDS HTTPCache, TLC

Symmetry == Permutations(Keys) \cup Permutations(Trips)
=============================================================================
