------------------------------ MODULE MCServer ------------------------------
(* ServerProperties for TLC. *)
EXTENDS ServerRefinement, TLC

CONSTANT NoFd    \* a descriptor that is not open: the garbage of a stale slot

(* The clients' descriptors are interchangeable. *)
Symmetry == Permutations(Fd)
=============================================================================
