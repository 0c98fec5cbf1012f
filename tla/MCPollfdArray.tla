--------------------------- MODULE MCPollfdArray ---------------------------
(* PollfdArraySpec for TLC. *)
EXTENDS PollfdArraySpec, TLC

Symmetry == Permutations(Descriptor)
=============================================================================
