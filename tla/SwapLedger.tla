----------------------------- MODULE SwapLedger ------------------------------
(***************************************************************************)
(* What BTCChannels.sol promises about on-chain swap-outs: a request is    *)
(* settled once, by returning the dollars or by a delivery, and a delivery *)
(* is proved by an outpoint nothing was ever proved by before.             *)
(* BTCChannels implements this with its mappings, and SwapOut with the     *)
(* contract its driver talks to.                                           *)
(***************************************************************************)
CONSTANTS Swap, Outpoint

VARIABLES
    swapOut,   \* swap -> none, pending, delivered or returned
    used       \* outpoints of funding outputs and splices accepted so far

vars == <<swapOut, used>>

Init == swapOut = [s \in Swap |-> "none"] /\ used = {}

Becomes(s, from, to) ==
    /\ swapOut[s] = from
    /\ swapOut' = [swapOut EXCEPT ![s] = to]

Use(o) == o \notin used /\ used' = used \cup {o}

Request(s) == Becomes(s, "none", "pending") /\ UNCHANGED used

Return(s) == Becomes(s, "pending", "returned") /\ UNCHANGED used

Deliver(s, o) == Becomes(s, "pending", "delivered") /\ Use(o)

\* An open or an ordinary splice.
Fund(o) == Use(o) /\ UNCHANGED swapOut

Next ==
    \/ \E s \in Swap : Request(s) \/ Return(s) \/ \E o \in Outpoint : Deliver(s, o)
    \/ \E o \in Outpoint : Fund(o)

Spec == Init /\ [][Next]_vars
==============================================================================
