-------------------------- MODULE MCDockerRuntimes --------------------------
(***************************************************************************)
(* DockerRuntimes for TLC: languages and callers are symmetric.            *)
(***************************************************************************)
EXTENDS DockerRuntimes, TLC

Symmetry == Permutations(Languages) \cup Permutations(Callers)
=============================================================================
