------------------------------ MODULE SPVRelayer ------------------------------
(***************************************************************************)
(* quid-ln/quid-bridge/src/relayer.rs: the daemon's loop that keeps the    *)
(* SPVGateway at the tip of a Bitcoin header source.  Every RPC of a round *)
(* is a step of its own: between two of them blocks are mined, the source  *)
(* switches branches and other submitters feed the gateway, so all that a  *)
(* round has read may be stale when it is used.                            *)
(*                                                                         *)
(* Bitcoin is a tree of mined blocks of equal difficulty; the source       *)
(* answers for the path to its best block.  A source behind a load         *)
(* balancer, or in the middle of a reorg, may report any mined block.      *)
(***************************************************************************)
EXTENDS SPVGateway

CONSTANTS
    RelayBatchMax,   \* relay_batch_max
    Lookback,        \* relay_reorg_lookback
    NoHeight,        \* None of find_fork_point
    MaxSwitches,     \* bound: times the source switches to another branch
    MaxFaults        \* bound: failed RPCs

ASSUME RelayerAssumption ==
    /\ RelayBatchMax \in Nat \ {0} /\ Lookback \in Nat /\ NoHeight \notin Nat
    /\ MaxSwitches \in Nat /\ MaxFaults \in Nat
    /\ Block # {} /\ Time # {} /\ HeaderTarget # {}
    \* Bounds: as many heights as blocks, and batches of the relayer's size.
    /\ IsFiniteSet(Block) /\ Cardinality(Block) <= MaxHeight + 1 - InitHeight
    /\ RelayBatchMax <= MaxBatch

VARIABLES
    prevOf,    \* Bitcoin: mined block -> its parent
    best,      \* the source's best block
    switches, faults,
    relay      \* the locals of the round in progress

relayVars == <<spv, prevOf, best, switches, faults, relay>>

Mined == DOMAIN prevOf

\* The header of a mined block: one time and one difficulty.
MinedHeader(b) ==
    [hash |-> b, prevBlockHash |-> prevOf[b], time |-> CHOOSE t \in Time : TRUE,
     target |-> CHOOSE t \in HeaderTarget : TRUE]

\* Blocks from b down to the checkpoint, b first.
PathDown(b) ==
    LET Up[i \in 0..Cardinality(Mined)] ==
            IF i = 0 THEN b
            ELSE IF Up[i - 1] \in Mined THEN prevOf[Up[i - 1]] ELSE Before
        depth == CHOOSE d \in 0..Cardinality(Mined) :
                    Up[d] = Before /\ \A i \in 0..(d - 1) : Up[i] # Before
    IN  [i \in 1..depth |-> Up[i - 1]]

HeightOf(b) == InitHeight + Len(PathDown(b)) - 1

\* BtcHeaderSource: tip_height, and the block at a height up to it.  Blocks
\* below the checkpoint exist and are not the gateway's.
TipHeight == HeightOf(best)
SourceBlock(h) ==
    IF h < InitHeight THEN Before ELSE PathDown(best)[TipHeight - h + 1]

-----------------------------------------------------------------------------
(* The relayer's round. *)

Idle == [pc |-> "idle", gh |-> 0, tip |-> 0, from |-> 0, to |-> 0, batch |-> <<>>,
         n |-> 0, lo |-> 0, hi |-> 0, found |-> NoHeight, hash |-> NoBlock,
         recovering |-> FALSE]

\* A round that ends, in success or not, leaves nothing behind.
EndRound == Idle

Lower(a, b) == IF a < b THEN a ELSE b

\* recover_reorg begins: the search covers the lookback below the gateway's
\* height, from the lower of the two heights.
RecoverReorg(r) ==
    [r EXCEPT !.pc = "search", !.recovering = TRUE, !.batch = <<>>, !.found = NoHeight,
              !.lo = IF r.gh > Lookback THEN r.gh - Lookback ELSE 0,
              !.hi = Lower(r.gh, r.tip)]

\* The headers from `from` on are fetched next; an empty range panics in
\* fit_batch and ends the round.
FetchFrom(r, from) ==
    LET to == Lower(from + RelayBatchMax - 1, r.tip)
    IN  IF from > to THEN EndRound
        ELSE [r EXCEPT !.pc = "fetch", !.from = from, !.to = to, !.batch = <<>>]

\* read_gateway_height
ReadGatewayHeight ==
    /\ relay.pc = "idle"
    /\ relay' = [relay EXCEPT !.pc = "tip", !.gh = GetMainchainHeight(spv)]

\* Mutant: a source no higher than the gateway is taken for caught up.
CaughtUpByHeight ==
    /\ relay.pc = "tip"
    /\ LET r == [relay EXCEPT !.tip = TipHeight]
       IN  relay' = IF r.tip > r.gh THEN FetchFrom(r, r.gh + 1) ELSE EndRound

\* tip_height, then relay_range: forward, or probe when caught up by height.
ReadTip ==
    /\ relay.pc = "tip"
    /\ LET r == [relay EXCEPT !.tip = TipHeight]
       IN  relay' = IF r.tip > r.gh THEN FetchFrom(r, r.gh + 1)
                    ELSE IF Lower(r.gh, r.tip) > 0 THEN [r EXCEPT !.pc = "probe"]
                    ELSE EndRound

\* block_hash_be at the lower of the two heights; the source answers an error
\* when its chain no longer reaches it.
ProbeSource ==
    /\ relay.pc = "probe"
    /\ relay' = IF Lower(relay.gh, relay.tip) > TipHeight THEN EndRound
                ELSE [relay EXCEPT !.pc = "probed",
                                   !.hash = SourceBlock(Lower(relay.gh, relay.tip))]

\* blockExists of that hash: an unknown block means the branches diverge.
ProbeGateway ==
    /\ relay.pc = "probed"
    /\ relay' = IF BlockExists(spv, relay.hash) THEN EndRound ELSE RecoverReorg(relay)

\* header_at, one height at a time.
FetchHeader ==
    /\ relay.pc = "fetch"
    /\ LET h == relay.from + Len(relay.batch)
       IN  relay' = IF h > TipHeight THEN EndRound
                    ELSE [relay EXCEPT !.batch = Append(@, MinedHeader(SourceBlock(h))),
                                       !.pc = IF h = relay.to THEN "fit" ELSE "fetch"]

\* fit_batch: the largest prefix within the gas budget, at least one header.
\* An estimate that reverts starts the recovery, or ends it.
FitBatch ==
    /\ relay.pc = "fit"
    /\ IF AcceptsBatch(spv, relay.batch)
       THEN \E n \in 1..Len(relay.batch) : relay' = [relay EXCEPT !.pc = "send", !.n = n]
       ELSE relay' = IF relay.recovering THEN EndRound ELSE RecoverReorg(relay)

\* send_tx: the transaction may revert where the estimate did not.
SendBatch ==
    LET headers == SubSeq(relay.batch, 1, relay.n)
        accepted == AcceptsBatch(spv, headers)
    IN  /\ relay.pc = "send"
        /\ spv' = IF accepted THEN BatchStates(spv, headers)[relay.n] ELSE spv
        /\ relay' = IF accepted \/ relay.recovering THEN EndRound ELSE RecoverReorg(relay)

\* find_fork_point: the middle of what is left, read from the source.
Middle == relay.lo + (relay.hi - relay.lo) \div 2

SearchSource ==
    /\ relay.pc = "search" /\ relay.lo <= relay.hi
    /\ relay' = IF Middle > TipHeight THEN EndRound
                ELSE [relay EXCEPT !.pc = "searched", !.hash = SourceBlock(Middle)]

\* Known: the boundary is here or above; unknown: below, if there is a below.
SearchGateway ==
    /\ relay.pc = "searched"
    /\ relay' =
         IF BlockExists(spv, relay.hash)
         THEN [relay EXCEPT !.pc = "search", !.found = Middle, !.lo = Middle + 1]
         ELSE IF Middle = 0 THEN [relay EXCEPT !.pc = "search", !.lo = 1, !.hi = 0]
         ELSE [relay EXCEPT !.pc = "search", !.hi = Middle - 1]

\* The branch above the fork is resubmitted; no fork in the lookback is left to
\* the operator.
SearchEnds ==
    /\ relay.pc = "search" /\ relay.lo > relay.hi
    /\ relay' = IF relay.found = NoHeight THEN EndRound
                ELSE FetchFrom(relay, relay.found + 1)

ReadsOnly ==
    \/ ReadGatewayHeight \/ ReadTip \/ ProbeSource \/ ProbeGateway \/ FetchHeader
    \/ FitBatch \/ SearchSource \/ SearchGateway \/ SearchEnds

\* run_spv_relayer: the next step of the loop.
RelayerStep ==
    /\ (ReadsOnly /\ UNCHANGED spv) \/ SendBatch
    /\ UNCHANGED <<prevOf, best, switches, faults>>

\* Any RPC of the round may fail; the loop starts over after the poll interval.
RpcFails ==
    /\ relay.pc # "idle" /\ faults < MaxFaults
    /\ faults' = faults + 1
    /\ relay' = EndRound
    /\ UNCHANGED <<spv, prevOf, best, switches>>

-----------------------------------------------------------------------------
(* The environment (external: Bitcoin, the header source, other submitters). *)

\* A block is mined on any block; the source follows its own branch.
Mine(p) ==
    /\ Block # Mined
    /\ LET b == CHOOSE c \in Block : c \notin Mined
       IN  /\ prevOf' = [c \in Mined \cup {b} |-> IF c = b THEN p ELSE prevOf[c]]
           /\ best' = IF p = best THEN b ELSE best
    /\ UNCHANGED <<spv, switches, faults, relay>>

\* The source reports another branch, of whatever height.
SourceSwitches(b) ==
    /\ switches < MaxSwitches /\ b # best
    /\ switches' = switches + 1
    /\ best' = b
    /\ UNCHANGED <<spv, prevOf, faults, relay>>

\* Anyone may submit a header.
SomeoneSubmits(b) ==
    /\ prevOf[b] \in Mined
    /\ AcceptsOne(spv, MinedHeader(b))
    /\ spv' = Added(spv, MinedHeader(b))
    /\ UNCHANGED <<prevOf, best, switches, faults, relay>>

RelayInit ==
    \E c \in {CHOOSE b \in Block : TRUE} :
        /\ prevOf = [b \in {c} |-> Before]
        /\ best = c
        /\ spv = AddBlock([blocksData |-> [b \in Block |-> ZeroBlock],
                           blocksHeightToBlockHash |-> [h \in Heights |-> NoBlock],
                           mainchainHead |-> NoBlock],
                          MinedHeader(c), InitHeight, CountBlockWork(MinedHeader(c).target))
        /\ switches = 0 /\ faults = 0
        /\ relay = Idle

RelayNext ==
    \/ RelayerStep
    \/ RpcFails
    \/ \E b \in Mined : Mine(b) \/ SourceSwitches(b) \/ SomeoneSubmits(b)

\* The loop never stops: rounds follow each other, and the settlements that may
\* defer one drain.
RelaySpec == RelayInit /\ [][RelayNext]_relayVars /\ WF_relayVars(RelayerStep)

-----------------------------------------------------------------------------
(* Properties. *)

\* Once Bitcoin and the source are quiet, the gateway comes to know the
\* source's best block, and its head has at least that block's work: no
\* combination of reorgs, failed calls, stale reads and foreign submissions
\* leaves the relayer stuck while the search stays above the checkpoint.
CatchesUp ==
    <>[](/\ BlockExists(spv, best)
         /\ Data(spv, spv.mainchainHead).cumulativeWork >= Data(spv, best).cumulativeWork)
=============================================================================
