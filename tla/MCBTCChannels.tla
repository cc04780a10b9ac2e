---------------------------- MODULE MCBTCChannels ----------------------------
(* BTCChannels on small instances. *)
EXTENDS BTCChannels, TLC

\* Nothing orders LPs, outpoints, keys or swapIds.
Symmetry == Permutations(LP) \cup Permutations(Outpoint) \cup Permutations(Key)
            \cup Permutations(Swap)
=============================================================================
