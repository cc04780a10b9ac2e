----------------------------- MODULE HeaderChain -----------------------------
(***************************************************************************)
(* What a Bitcoin light client promises: it learns headers one by one, in  *)
(* any order that respects parenthood, and reports one chain, the path     *)
(* from the checkpoint to the block with the most cumulative work it has   *)
(* learned (the first learned, among equals).  SPVGateway implements this  *)
(* with an index from heights to hashes that it patches on every reorg.    *)
(***************************************************************************)
EXTENDS Naturals, FiniteSets, Sequences

CONSTANTS Block, NoBlock

VARIABLES
    parent,   \* Block -> Block, NoBlock for the checkpoint and unknown blocks
    work,     \* Block -> cumulative work, 0 for unknown blocks
    chain     \* the reported chain, checkpoint first

vars == <<parent, work, chain>>

Tip == chain[Len(chain)]

Known == {b \in Block : work[b] > 0}

\* The path from the checkpoint to b; Up[n] is the block n steps below b.
PathTo(b, par) ==
    LET Up[n \in 0..Cardinality(Block)] ==
            IF n = 0 THEN b ELSE IF Up[n - 1] = NoBlock THEN NoBlock ELSE par[Up[n - 1]]
        depth == CHOOSE n \in 0..Cardinality(Block) : Up[n] # NoBlock /\ Up[n + 1] = NoBlock
    IN  [i \in 1..(depth + 1) |-> Up[depth + 1 - i]]

Init ==
    \E checkpoint \in Known :
        /\ Known = {checkpoint}
        /\ parent = [b \in Block |-> NoBlock]
        /\ chain = <<checkpoint>>

\* Some headers are learned, each with a known parent and more work than it;
\* what was known stays.
Learn ==
    /\ Known' # Known
    /\ \A b \in Known : parent'[b] = parent[b] /\ work'[b] = work[b]
    /\ \A b \in Known' \ Known : parent'[b] \in Known' /\ work'[b] > work'[parent'[b]]

\* No new header outweighs the tip.
Stay ==
    /\ Learn
    /\ \A b \in Known' : work'[b] <= work[Tip]
    /\ chain' = chain

\* A new header outweighs the tip: the chain is the path to the heaviest.
Switch ==
    /\ Learn
    /\ \E b \in Known' \ Known :
          /\ work'[b] > work[Tip]
          /\ \A d \in Known' : work'[d] <= work'[b]
          /\ chain' = PathTo(b, parent')

Next == Stay \/ Switch

Spec == Init /\ [][Next]_vars
=============================================================================
