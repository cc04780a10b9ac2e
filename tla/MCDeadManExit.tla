--------------------------- MODULE MCDeadManExit ----------------------------
(***************************************************************************)
(* DeadManExit for TLC: the channels are alike, and only invariants are    *)
(* checked.                                                                *)
(***************************************************************************)
EXTENDS DeadManExit, TLC

ChanSymmetry == Permutations(Chan)
==============================================================================
