---------------------------- MODULE ChannelLedger ----------------------------
(***************************************************************************)
(* What the custody records of BTCChannels.sol promise to whoever reads    *)
(* them: a channel is opened once, moves from outpoint to outpoint while   *)
(* it is open, and is closed for good; an outpoint backs a channel at most *)
(* once.  BTCChannels implements this with its mappings, and ChannelMirror *)
(* with the record its drives write.                                       *)
(***************************************************************************)
CONSTANTS Channel, Outpoint, NoOutpoint

VARIABLES
    status,   \* channel -> none, open or closed
    at,       \* channel -> the outpoint it is recorded on
    used      \* outpoints that ever backed a channel

vars == <<status, at, used>>

Init ==
    /\ status = [c \in Channel |-> "none"]
    /\ at = [c \in Channel |-> NoOutpoint]
    /\ used = {}

\* A channel is recorded on an outpoint that never backed one.
Place(c, o) ==
    /\ o \notin used /\ used' = used \cup {o}
    /\ at' = [at EXCEPT ![c] = o]

Open(c, o) ==
    /\ status[c] = "none"
    /\ status' = [status EXCEPT ![c] = "open"]
    /\ Place(c, o)

Move(c, o) ==
    /\ status[c] = "open"
    /\ Place(c, o)
    /\ UNCHANGED status

Close(c) ==
    /\ status[c] = "open"
    /\ status' = [status EXCEPT ![c] = "closed"]
    /\ UNCHANGED <<at, used>>

Next == \E c \in Channel : Close(c) \/ \E o \in Outpoint : Open(c, o) \/ Move(c, o)

Spec == Init /\ [][Next]_vars
==============================================================================
