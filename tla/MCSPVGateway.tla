----------------------------- MODULE MCSPVGateway -----------------------------
(* SPVGateway and the arithmetic of its retargets on a small instance. *)
EXTENDS Retarget, TLC

\* Nothing orders the hashes.
Symmetry == Permutations(Block)
=============================================================================
