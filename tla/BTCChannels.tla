----------------------------- MODULE BTCChannels -----------------------------
(***************************************************************************)
(* evm/src/BTCChannels.sol: custody records of the Bitcoin channels, their *)
(* exit ladders, and the on-chain swap-outs that are paid out of them,     *)
(* together with the share ledger of Vault.sol / BtcLib.sol and the two    *)
(* dollar counters of Core.sol that its calls move.                        *)
(*                                                                         *)
(* One action is one successful external call: the EVM rolls a reverted    *)
(* call back, so a revert is an action that is not enabled.  What a call   *)
(* is given (SPV-proved transactions, ladders, amounts) is chosen with \E: *)
(* the contract never sees Bitcoin except through those arguments.         *)
(*                                                                         *)
(*  - A channel id is keccak(lpPubkey, hopPubkey, fundingTxId, vout); an   *)
(*    outpoint is recorded once, so the id is the outpoint it was opened   *)
(*    on.                                                                  *)
(*  - Key stands for a (lpPubkey, hopPubkey) pair, NoKey for the zero      *)
(*    keysHash of a channel that was never opened.                         *)
(*  - Deployed without a leverage manager (LEV_MANAGER = 0): levPooled,    *)
(*    levBuf and delevUsd are zero.                                        *)
(***************************************************************************)
EXTENDS Totals

CONSTANTS
    LP,            \* Ethereum addresses of liquidity providers
    Outpoint,      \* Bitcoin outpoints (txid, vout) of 2-of-2 funding outputs
    Key,           \* pairs of funding keys
    Swap,          \* swapIds swappers may choose
    Deposit,       \* txids of swap-in deposits; they share swapInUsed with Swap
    Deadline,      \* CLTV heights an exit rung may carry
    NoLp, NoOutpoint, NoKey,   \* the zero values of the storage slots
    Checkpoint,    \* balances a ladder may attest (checkpointSats)
    MaxSats,       \* bound: sats of one funding output or payout
    MaxUsd,        \* bound: dollars of one swap-out
    MaxPoolUsd,    \* bound: dollars in the pool
    MaxTransfer,   \* bound: shares moved by one vBTC transfer (0: no transfers)
    MaxLadderRungs \* MAX_LADDER_RUNGS

ASSUME ConstantsAssumption ==
    /\ NoLp \notin LP /\ NoOutpoint \notin Outpoint /\ NoKey \notin Key
    /\ IsFiniteSet(LP) /\ IsFiniteSet(Outpoint) /\ IsFiniteSet(Swap)
    /\ Checkpoint \subseteq Nat /\ MaxSats \in Nat /\ MaxUsd \in Nat /\ MaxTransfer \in Nat
    /\ MaxLadderRungs \in Nat /\ MaxPoolUsd \in Nat

VARIABLES
    channels,               \* Outpoint -> custody record
    fundingOutpointUsed,    \* outpoints that ever backed a channel
    totalSatsLocked,
    hasOpenBtcChannel,      \* LPs with an open channel
    exitArmedOnOutpoint,    \* Outpoint -> deadlines of the armed exits
    checkpointOf,           \* channel -> balance the hop attested
    paidOutSinceCheckpoint,
    pendingClaimSats,       \* channel -> sats whose share credit was deferred
    swapInUsed, swapOutUsed,
    pendingOnchainSwapOut,  \* swapId -> obligation to the swapper
    pooled,                 \* Vault.autoManaged[account].pooled
    lpShares,               \* Vault.lpShares
    pendingSwapOutUsd,      \* Core.pendingSwapOutUsd
    pooledUsd,              \* Core.POOLED_USD
    discharged,             \* history: how often a swap-out was paid or refunded
    delivered,              \* history: swap-outs that were paid
    credited                \* history: how often a deposit was credited

custody == <<channels, fundingOutpointUsed, totalSatsLocked, hasOpenBtcChannel>>
ladders == <<exitArmedOnOutpoint, checkpointOf, paidOutSinceCheckpoint>>
swaps   == <<swapInUsed, swapOutUsed, pendingOnchainSwapOut, discharged, delivered,
             credited>>
shares  == <<pooled, lpShares>>
dollars == <<pendingSwapOutUsd, pooledUsd>>
vars    == <<custody, ladders, pendingClaimSats, swaps, shares, dollars>>

STATUS_OPEN   == 0
STATUS_CLOSED == 2

\* What Solidity returns for a mapping entry nobody wrote.  STATUS_OPEN is
\* zero, so an unknown channel passes _whenOpen.
ZeroChannel == [amountSats |-> 0, outpoint |-> NoOutpoint, lpEth |-> NoLp,
                status |-> STATUS_OPEN, keysHash |-> NoKey]

NoSwapOut == [sats |-> 0, usd |-> 0, expired |-> FALSE]

ChannelRecord ==
    [amountSats : 0..MaxSats, outpoint : Outpoint \cup {NoOutpoint},
     lpEth : LP \cup {NoLp}, status : {STATUS_OPEN, STATUS_CLOSED},
     keysHash : Key \cup {NoKey}]

SwapOutRecord == [sats : 0..MaxSats, usd : 0..MaxUsd, expired : BOOLEAN]

Ids == Swap \cup Deposit

\* Keys of the share ledger: address(0) is a slot like any other.
Account == LP \cup {NoLp}

Init ==
    /\ channels = [c \in Outpoint |-> ZeroChannel]
    /\ fundingOutpointUsed = {}
    /\ totalSatsLocked = 0
    /\ hasOpenBtcChannel = {}
    /\ exitArmedOnOutpoint = [o \in Outpoint |-> {}]
    /\ checkpointOf = [c \in Outpoint |-> 0]
    /\ paidOutSinceCheckpoint = [c \in Outpoint |-> 0]
    /\ pendingClaimSats = [c \in Outpoint |-> 0]
    /\ swapInUsed = {}
    /\ swapOutUsed = {}
    /\ pendingOnchainSwapOut = [s \in Swap |-> NoSwapOut]
    /\ pooled = [a \in Account |-> 0]
    /\ lpShares = 0
    /\ pendingSwapOutUsd = 0
    /\ pooledUsd = 0
    /\ discharged = [s \in Swap |-> 0]
    /\ delivered = {}
    /\ credited = [d \in Deposit |-> 0]

-----------------------------------------------------------------------------
(* Guards shared by the entry points. *)

\* Mutants of the guards: the check is missing, or one off.
AlwaysOpen(c) == c \in Outpoint
SpendsAnything(c) == c \in Outpoint
LaddersOfOne == {r \in SUBSET Deadline : Cardinality(r) \in 1..MaxLadderRungs}

\* _whenOpen
WhenOpen(c) == channels[c].status = STATUS_OPEN

\* _verifyTxSpendsChannel: some confirmed transaction spends the recorded
\* outpoint.  No Bitcoin transaction spends the zero outpoint.
TxSpendsChannel(c) == channels[c].outpoint # NoOutpoint

\* _requireChannelKeys: the caller must know keys that hash to keysHash.
RequireChannelKeys(c, keys) == channels[c].keysHash = keys

\* _requireClaimRegistered
RequireClaimRegistered(c) == pendingClaimSats[c] = 0

\* _armLadder's rung checks: at least two rungs, strictly increasing deadlines
\* (so a set), at most MAX_LADDER_RUNGS.
Ladders == {r \in SUBSET Deadline : Cardinality(r) \in 2..MaxLadderRungs}

-----------------------------------------------------------------------------
(* Effects on the share ledger: Vault.sol and BtcLib.sol. *)

\* Dollars the range pairs with sats, or releases with them: how many depends on
\* prices and on the basket's surplus.
PairDollars == pooledUsd' \in pooledUsd..MaxPoolUsd
ReleaseDollars(held) == pooledUsd' \in 0..held

\* Mutants: the unpaired leg gets no shares; the last shares cannot be burned.
DepositPairedOnly(lp, sats) ==
    /\ pooled' = [pooled EXCEPT ![lp] = @ + sats - 1] /\ lpShares' = lpShares + sats - 1
    /\ PairDollars
RedeemNotLast(lp) ==
    /\ lpShares > pooled[lp]
    /\ pooled' = [pooled EXCEPT ![lp] = 0] /\ lpShares' = lpShares - pooled[lp]
    /\ ReleaseDollars(pooledUsd)

\* Vault.requestDeposit, when the basket is healthy: paired and unpaired sats
\* together become exactly `sats` shares.
RequestDeposit(lp, sats) ==
    /\ pooled' = [pooled EXCEPT ![lp] = @ + sats]
    /\ lpShares' = lpShares + sats
    /\ PairDollars

\* Vault.requestRedeem: the whole position is burned.
RequestRedeem(lp) ==
    /\ lpShares >= pooled[lp]
    /\ pooled' = [pooled EXCEPT ![lp] = 0]
    /\ lpShares' = lpShares - pooled[lp]
    /\ ReleaseDollars(pooledUsd)

\* Mutant of Core.addPendingSwapOut: nothing is booked.
AddPendingNothing(usd) == pendingSwapOutUsd' = pendingSwapOutUsd + 0 * usd

\* Core.addPendingSwapOut and Core.subPendingSwapOut
AddPendingSwapOut(usd) == pendingSwapOutUsd' = pendingSwapOutUsd + usd

SubPendingSwapOut(usd) ==
    /\ pendingSwapOutUsd >= usd
    /\ pendingSwapOutUsd' = pendingSwapOutUsd - usd

\* Vault.resize: BtcLib.resize returns before it settles anything when the LP
\* holds no shares; otherwise it burns at most what the LP holds and, for a
\* delivery (usd > 0), draws the dollars from the pool and takes them off the
\* pending counter (settleDelivered).
Resize(lp, shrinkSats, usd) ==
    IF pooled[lp] = 0
    THEN UNCHANGED <<shares, dollars>>
    ELSE LET removed == Least(shrinkSats, pooled[lp])
         IN  /\ lpShares >= removed
             /\ pooled' = [pooled EXCEPT ![lp] = @ - removed]
             /\ lpShares' = lpShares - removed
             /\ pooledUsd >= usd /\ ReleaseDollars(pooledUsd - usd)
             /\ SubPendingSwapOut(usd)


\* Vault.creditSwapIn and SwapLib._swapInSettle, after pendingSwapOutUsd' is set:
\* the pool holds what it did and the premium retained; it fills what the price
\* gives, at most what it holds, and must give minUsd (SwapInShort); the basket
\* sends some of it (NothingDelivered) and the rest stays; what is left must cover
\* the pending swap-outs (SwapInDrainsProceeds).
CreditSwapIn(minUsd) ==
    \E held \in pooledUsd..MaxPoolUsd : \E filled \in 0..held : \E sent \in 0..filled :
        /\ filled >= minUsd
        /\ filled # 0 => sent # 0
        /\ pooledUsd' = held - sent
        /\ pooledUsd' >= pendingSwapOutUsd'

-----------------------------------------------------------------------------
(* Effects on the custody record and the ladder. *)

\* _armLadder on the outpoint the channel has after the call.  The checkpoint
\* becomes the highest one any rung attests, the paid-out tally starts again.
ArmLadder(c, o, rungs, hi) ==
    /\ exitArmedOnOutpoint' = [exitArmedOnOutpoint EXCEPT ![o] = @ \cup rungs]
    /\ checkpointOf' = [checkpointOf EXCEPT ![c] = hi]
    /\ paidOutSinceCheckpoint' = [paidOutSinceCheckpoint EXCEPT ![c] = 0]

\* Mutant: the replay check is missing.
UseOutpointAgain(o) == fundingOutpointUsed' = fundingOutpointUsed \cup {o}

\* _useOutpoint
UseOutpoint(o) ==
    /\ o \notin fundingOutpointUsed
    /\ fundingOutpointUsed' = fundingOutpointUsed \cup {o}

\* The storage writes of _applySplice and _deliverSwapOut: the channel moves to
\* outpoint o, holding sats under keys.
MoveChannel(c, o, sats, keys) ==
    /\ UseOutpoint(o)
    /\ channels' = [channels EXCEPT ![c].outpoint = o, ![c].amountSats = sats,
                                    ![c].keysHash = keys]

\* The LP may open a fresh channel.
FreeLp(lp) == hasOpenBtcChannel' = hasOpenBtcChannel \ {lp}

\* _finalizeClose
FinalizeClose(c) ==
    LET ch == channels[c]
    IN  /\ totalSatsLocked >= ch.amountSats
        /\ channels' = [channels EXCEPT ![c].status = STATUS_CLOSED]
        /\ FreeLp(ch.lpEth)
        /\ totalSatsLocked' = totalSatsLocked - ch.amountSats
        /\ pendingClaimSats' = [pendingClaimSats EXCEPT ![c] = 0]
        /\ IF pendingClaimSats[c] = 0 THEN RequestRedeem(ch.lpEth)
                                      ELSE UNCHANGED <<shares, pooledUsd>>
        /\ UNCHANGED <<fundingOutpointUsed, ladders, swaps, pendingSwapOutUsd>>

-----------------------------------------------------------------------------
(* Custody: open, claim, splice, close. *)

\* openChannel.  deposited is FALSE when Vault.requestDeposit reverted and the
\* catch branch deferred the claim.
OpenChannel(lp, c, sats, keys, rungs, hi, deposited) ==
    /\ lp \notin hasOpenBtcChannel
    /\ channels[c].amountSats = 0
    /\ UseOutpoint(c)
    /\ channels' = [channels EXCEPT ![c] =
          [amountSats |-> sats, outpoint |-> c, lpEth |-> lp,
           status |-> STATUS_OPEN, keysHash |-> keys]]
    /\ hasOpenBtcChannel' = hasOpenBtcChannel \cup {lp}
    /\ totalSatsLocked' = totalSatsLocked + sats
    /\ ArmLadder(c, c, rungs, hi)
    /\ \/ deposited /\ RequestDeposit(lp, sats) /\ UNCHANGED pendingClaimSats
       \/ ~deposited /\ pendingClaimSats' = [pendingClaimSats EXCEPT ![c] = sats]
                     /\ UNCHANGED <<shares, pooledUsd>>
    /\ UNCHANGED <<swaps, pendingSwapOutUsd>>

\* registerChannelClaim: permissionless.
RegisterChannelClaim(c) ==
    LET sats == Least(pendingClaimSats[c], channels[c].amountSats)
    IN  /\ sats # 0
        /\ pendingClaimSats' = [pendingClaimSats EXCEPT ![c] = 0]
        /\ RequestDeposit(channels[c].lpEth, sats)
        /\ UNCHANGED <<custody, ladders, swaps, pendingSwapOutUsd>>

\* splice and _applySplice, the branch that grows the channel.  The deposit of
\* the growth is not in a try, so an unhealthy basket reverts the splice.
SpliceGrow(c, o, sats, keys, rungs, hi) ==
    LET old == channels[c].amountSats
    IN  /\ WhenOpen(c) /\ TxSpendsChannel(c)
        /\ sats > old
        /\ MoveChannel(c, o, sats, keys)
        /\ totalSatsLocked' = totalSatsLocked + (sats - old)
        /\ ArmLadder(c, o, rungs, hi)
        /\ RequestDeposit(channels[c].lpEth, sats - old)
        /\ UNCHANGED <<hasOpenBtcChannel, pendingClaimSats, swaps, pendingSwapOutUsd>>

\* splice, _applySplice and _shrinkSplice, the branch that withdraws.
SpliceShrink(c, o, sats, keys, rungs, hi) ==
    LET shrinkSats == channels[c].amountSats - sats
    IN  /\ WhenOpen(c) /\ TxSpendsChannel(c)
        /\ sats < channels[c].amountSats
        /\ MoveChannel(c, o, sats, keys)
        /\ totalSatsLocked >= shrinkSats
        /\ totalSatsLocked' = totalSatsLocked - shrinkSats
        /\ RequireClaimRegistered(c)
        /\ Resize(channels[c].lpEth, shrinkSats, 0)
        /\ ArmLadder(c, o, rungs, hi)
        /\ UNCHANGED <<hasOpenBtcChannel, pendingClaimSats, swaps>>

\* splice, the branch that rotates the keys at an unchanged amount; the same
\* amount under the same keys is SpliceUnchanged.
SpliceRekey(c, o, keys, rungs, hi) ==
    /\ WhenOpen(c) /\ TxSpendsChannel(c)
    /\ keys # channels[c].keysHash
    /\ MoveChannel(c, o, channels[c].amountSats, keys)
    /\ ArmLadder(c, o, rungs, hi)
    /\ UNCHANGED <<totalSatsLocked, hasOpenBtcChannel, pendingClaimSats, swaps,
                   shares, dollars>>

\* Mutant: the attested balance may fall.
EmitAnyCheckpoint(c, keys, deadline, checkpointSats) ==
    /\ WhenOpen(c)
    /\ RequireChannelKeys(c, keys)
    /\ ArmLadder(c, channels[c].outpoint, {deadline}, checkpointSats)
    /\ UNCHANGED <<custody, pendingClaimSats, swaps, shares, dollars>>

\* emitDeadManExit: one more rung; the attested balance may not fall.
EmitDeadManExit(c, keys, deadline, checkpointSats) ==
    /\ WhenOpen(c)
    /\ RequireChannelKeys(c, keys)
    /\ checkpointSats >= checkpointOf[c]
    /\ ArmLadder(c, channels[c].outpoint, {deadline}, checkpointSats)
    /\ UNCHANGED <<custody, pendingClaimSats, swaps, shares, dollars>>

\* recordClose.  coop is a transaction with locktime 0, otherwise it is a
\* commitment transaction; byLp is msg.sender = lpEth.
RecordClose(c, keys, coop, lpPayoutSats, byLp) ==
    /\ WhenOpen(c)
    /\ RequireChannelKeys(c, keys)
    /\ TxSpendsChannel(c)
    /\ \/ byLp \/ ~coop \/ checkpointOf[c] = 0
       \/ lpPayoutSats + paidOutSinceCheckpoint[c] >= checkpointOf[c]
    /\ FinalizeClose(c)

\* recordDeadManExit: the transaction's locktime is an armed deadline.
RecordDeadManExit(c, keys, deadline) ==
    /\ WhenOpen(c)
    /\ TxSpendsChannel(c)
    /\ deadline \in exitArmedOnOutpoint[channels[c].outpoint]
    /\ RequireChannelKeys(c, keys)
    /\ FinalizeClose(c)

\* recordForceClosePermissionless: no keys are asked for.
RecordForceClosePermissionless(c) ==
    /\ WhenOpen(c)
    /\ TxSpendsChannel(c)
    /\ FinalizeClose(c)

-----------------------------------------------------------------------------
(* Swaps that are paid in Bitcoin. *)

IsPending(s) == pendingOnchainSwapOut[s].sats # 0

\* Mutant: the id is burned but the obligation stays on record.
DischargeKeepsRecord(s) ==
    /\ swapInUsed' = swapInUsed \cup {s}
    /\ discharged' = [discharged EXCEPT ![s] = @ + 1]
    /\ UNCHANGED <<pendingOnchainSwapOut, swapOutUsed, credited>>

\* Delete the obligation, burn its id.  Every way of resolving a swap-out ends
\* here.
Discharge(s) ==
    /\ swapInUsed' = swapInUsed \cup {s}
    /\ pendingOnchainSwapOut' = [pendingOnchainSwapOut EXCEPT ![s] = NoSwapOut]
    /\ discharged' = [discharged EXCEPT ![s] = @ + 1]
    /\ UNCHANGED <<swapOutUsed, credited>>

\* settleSwapInProven and _provenTxid: a proved deposit is credited once, for at
\* least the seller's floor.
SettleSwapInProven(d, floorUsd) ==
    /\ d \notin swapInUsed
    /\ swapInUsed' = swapInUsed \cup {d}
    /\ credited' = [credited EXCEPT ![d] = @ + 1]
    /\ UNCHANGED <<custody, ladders, pendingClaimSats, swapOutUsed, discharged, delivered,
                   pendingOnchainSwapOut, shares, pendingSwapOutUsd>>
    /\ CreditSwapIn(floorUsd)

\* requestSwapOutOnchain: creditSwapOut took usd and a premium into the pool, and
\* owes sats.
RequestSwapOutOnchain(s, sats, usd) ==
    /\ s \notin swapOutUsed
    /\ s \notin swapInUsed
    /\ swapOutUsed' = swapOutUsed \cup {s}
    /\ pendingOnchainSwapOut' = [pendingOnchainSwapOut EXCEPT ![s] =
           [sats |-> sats, usd |-> usd, expired |-> FALSE]]
    /\ AddPendingSwapOut(usd)
    /\ pooledUsd' \in (pooledUsd + usd)..MaxPoolUsd
    /\ UNCHANGED <<custody, ladders, pendingClaimSats, swapInUsed, discharged, delivered,
                   credited, shares>>

\* SWAPOUT_REFUND_BLOCKS go by: block.number reaches the refund height of s.
BlocksPass(s) ==
    /\ IsPending(s) /\ ~pendingOnchainSwapOut[s].expired
    /\ pendingOnchainSwapOut' = [pendingOnchainSwapOut EXCEPT ![s].expired = TRUE]
    /\ UNCHANGED <<custody, ladders, pendingClaimSats, swapInUsed, swapOutUsed,
                   discharged, delivered, credited, shares, dollars>>

\* The part reverseSwapOut and refundExpiredSwapOut share: the dollars go back
\* to the swapper through creditSwapIn, for at least minUsd.
ReturnDollars(s, minUsd) ==
    /\ IsPending(s)
    /\ s \notin swapInUsed
    /\ SubPendingSwapOut(pendingOnchainSwapOut[s].usd)
    /\ Discharge(s)
    /\ UNCHANGED <<custody, ladders, pendingClaimSats, delivered, shares>>
    /\ CreditSwapIn(minUsd)

\* reverseSwapOut: the hop gives up a delivery; the floor is what was taken.
\* requireFull only refuses some of these (a fill that the pool clamped).
ReverseSwapOut(s) == ReturnDollars(s, pendingOnchainSwapOut[s].usd)

\* refundExpiredSwapOut: the swapper's own way out once the deadline passed, with
\* a floor of its choice.
RefundExpiredSwapOut(s, minDeliveredUsd) ==
    /\ pendingOnchainSwapOut[s].expired
    /\ ReturnDollars(s, minDeliveredUsd)

\* deliverSwapOutOnchain, _deliverSwapOut and _settleSwapOutSlice: a splice of
\* channel c that paid the swapper is proved, and c's LP is settled for it.
DeliverSwapOutOnchain(s, c, o, sats, keys, rungs, hi) ==
    LET shrinkSats == channels[c].amountSats - sats
    IN  /\ WhenOpen(c) /\ TxSpendsChannel(c)
        /\ IsPending(s)
        /\ s \notin swapInUsed
        /\ sats < channels[c].amountSats
        /\ MoveChannel(c, o, sats, keys)
        /\ totalSatsLocked >= shrinkSats
        /\ totalSatsLocked' = totalSatsLocked - shrinkSats
        /\ RequireClaimRegistered(c)
        /\ Resize(channels[c].lpEth, shrinkSats, pendingOnchainSwapOut[s].usd)
        /\ Discharge(s) /\ delivered' = delivered \cup {s}
        /\ ArmLadder(c, o, rungs, hi)
        /\ UNCHANGED <<hasOpenBtcChannel, pendingClaimSats>>

\* VBtc.transfer, Vault.transferShares and BtcLib.transferSharesBody.
TransferShares(from, to, amount) ==
    /\ from # to
    /\ pooled[from] >= amount
    /\ pooled' = [pooled EXCEPT ![from] = @ - amount, ![to] = @ + amount]
    /\ UNCHANGED <<custody, ladders, pendingClaimSats, swaps, lpShares, dollars>>

\* Everyone else who trades with the pool or provides for it (Core.swap, modLP,
\* settleOor, recordFee): none of them asks for pendingSwapOutUsd.
PoolMoves(usd) ==
    /\ pooledUsd' = usd
    /\ UNCHANGED <<custody, ladders, pendingClaimSats, swaps, shares, pendingSwapOutUsd>>

-----------------------------------------------------------------------------
\* A channel is opened, and a swap-out requested, for some sats; a splice or a
\* delivery may leave the 2-of-2 output none.
Sats == 1..MaxSats
SatsLeft == 0..MaxSats

Next ==
    \/ \E lp \in LP, c \in Outpoint, sats \in Sats, keys \in Key,
          rungs \in Ladders, hi \in Checkpoint, deposited \in BOOLEAN :
          OpenChannel(lp, c, sats, keys, rungs, hi, deposited)
    \/ \E c \in Outpoint : RegisterChannelClaim(c)
    \/ \E c \in Outpoint, o \in Outpoint, sats \in SatsLeft, keys \in Key,
          rungs \in Ladders, hi \in Checkpoint :
          \/ SpliceGrow(c, o, sats, keys, rungs, hi)
          \/ SpliceShrink(c, o, sats, keys, rungs, hi)
    \/ \E c \in Outpoint, o \in Outpoint, keys \in Key, rungs \in Ladders,
          hi \in Checkpoint : SpliceRekey(c, o, keys, rungs, hi)
    \/ \E c \in Outpoint, keys \in Key, d \in Deadline, hi \in Checkpoint :
          EmitDeadManExit(c, keys, d, hi)
    \/ \E c \in Outpoint, keys \in Key, coop \in BOOLEAN, paid \in 0..MaxSats,
          byLp \in BOOLEAN : RecordClose(c, keys, coop, paid, byLp)
    \/ \E c \in Outpoint, keys \in Key, d \in Deadline : RecordDeadManExit(c, keys, d)
    \/ \E c \in Outpoint : RecordForceClosePermissionless(c)
    \/ \E d \in Deposit, floorUsd \in 0..MaxUsd : SettleSwapInProven(d, floorUsd)
    \/ \E s \in Swap, sats \in Sats, usd \in 1..MaxUsd : RequestSwapOutOnchain(s, sats, usd)
    \/ \E s \in Swap : BlocksPass(s) \/ ReverseSwapOut(s)
    \/ \E s \in Swap, minUsd \in 0..MaxUsd : RefundExpiredSwapOut(s, minUsd)
    \/ \E s \in Swap, c \in Outpoint, o \in Outpoint, sats \in SatsLeft, keys \in Key,
          rungs \in Ladders, hi \in Checkpoint :
          DeliverSwapOutOnchain(s, c, o, sats, keys, rungs, hi)
    \/ \E from \in LP, to \in LP, amount \in 1..MaxTransfer :
          TransferShares(from, to, amount)
    \/ \E usd \in 0..MaxPoolUsd : PoolMoves(usd)

Spec == Init /\ [][Next]_vars

-----------------------------------------------------------------------------
(* Properties. *)

\* A channel that was opened: the record names its LP, which only openChannel
\* writes.  One that holds no sats is open all the same.
Known(c) == channels[c].lpEth # NoLp

\* A channel that was opened and not closed.
IsOpen(c) == channels[c].status = STATUS_OPEN /\ Known(c)

\* Sats held per channel that is open, dollars owed per swap-out.
OpenSats == [c \in Outpoint |-> IF IsOpen(c) THEN channels[c].amountSats ELSE 0]
OwedUsd  == [s \in Swap |-> pendingOnchainSwapOut[s].usd]

\* Types of the storage slots.
TypeOK ==
    /\ channels \in [Outpoint -> ChannelRecord]
    /\ fundingOutpointUsed \subseteq Outpoint
    /\ totalSatsLocked \in Nat
    /\ hasOpenBtcChannel \subseteq LP
    /\ exitArmedOnOutpoint \in [Outpoint -> SUBSET Deadline]
    /\ checkpointOf \in [Outpoint -> Nat]
    /\ paidOutSinceCheckpoint \in [Outpoint -> Nat]
    /\ pendingClaimSats \in [Outpoint -> 0..MaxSats]
    /\ swapInUsed \subseteq Ids /\ swapOutUsed \subseteq Swap
    /\ pendingOnchainSwapOut \in [Swap -> SwapOutRecord]
    /\ pooled \in [Account -> Nat]
    /\ lpShares \in Nat
    /\ pendingSwapOutUsd \in Nat /\ pooledUsd \in 0..MaxPoolUsd
    /\ discharged \in [Swap -> Nat] /\ delivered \subseteq Swap
    /\ credited \in [Deposit -> Nat]

\* totalSatsLocked, moved by five entry points, is at all times the sum of what
\* the open channels hold: no close, splice or delivery is counted twice or
\* missed.
LockedIsSumOfOpen == totalSatsLocked = Total(OpenSats, Outpoint)

\* hasOpenBtcChannel marks exactly the LPs with an open channel, and no LP has
\* two: closing by any of the three routes frees the LP and nothing else does.
OneOpenChannelPerLp ==
    /\ \A lp \in LP : lp \in hasOpenBtcChannel <=>
                        \E c \in Outpoint : IsOpen(c) /\ channels[c].lpEth = lp
    /\ \A c, d \in Outpoint :
          IsOpen(c) /\ IsOpen(d) /\ channels[c].lpEth = channels[d].lpEth => c = d

\* A Bitcoin output backs one channel only, even when a splice output of one
\* channel is also offered as the funding of another (_useOutpoint).
OutpointBacksOneChannel ==
    /\ \A c \in Outpoint : Known(c) =>
          {c, channels[c].outpoint} \subseteq fundingOutpointUsed
    /\ \A c, d \in Outpoint :
          /\ Known(c) /\ Known(d)
          /\ channels[c].outpoint = channels[d].outpoint
          => c = d

\* A channel id nobody opened passes _whenOpen (STATUS_OPEN is the zero value),
\* yet no entry point ever writes to it: a record without an LP is all zero.
UnknownChannelUntouched ==
    \A c \in Outpoint : ~Known(c) =>
        channels[c] = ZeroChannel /\ pendingClaimSats[c] = 0 /\ checkpointOf[c] = 0

\* An open channel always has a ladder of at least two exits armed on the
\* outpoint it has now: no splice or delivery leaves it with the exits of an
\* outpoint that is spent.
OpenChannelHasLadder ==
    \A c \in Outpoint : IsOpen(c) =>
        \E d, e \in exitArmedOnOutpoint[channels[c].outpoint] : d # e

\* A dead-man exit of an open channel can always be recorded: neither a counter
\* that would underflow nor a deferred claim nor a rotated key stands in its way.
ExitAlwaysRecordable ==
    \A c \in Outpoint : IsOpen(c) =>
        \E keys \in Key, d \in Deadline : ENABLED RecordDeadManExit(c, keys, d)


\* vBTC's totalSupply (lpShares) is the sum of its balances (pooled), through
\* deposits, clamped burns, full redemptions and transfers.
SupplyIsSumOfBalances == lpShares = Total(pooled, Account) /\ pooled[NoLp] = 0

\* Every sat in an open channel is represented by a share of its LP or by a
\* deferred claim anyone may still register (no vBTC transfers).
LockedSatsAreClaimed ==
    \A c \in Outpoint : IsOpen(c) =>
        pooled[channels[c].lpEth] + pendingClaimSats[c] >= channels[c].amountSats

\* A deferred claim belongs to an open channel and never exceeds it, so the
\* clamp in registerChannelClaim has nothing to cut.
DeferredClaimFits ==
    \A c \in Outpoint : pendingClaimSats[c] # 0 =>
        IsOpen(c) /\ pendingClaimSats[c] <= channels[c].amountSats

\* Delivery, reversal and refund exclude each other, a deposit is credited at
\* most once, what is still pending has not been paid, and an id that names both
\* a swap-out and a deposit pays for one of them only.
SettledOnce ==
    /\ \A s \in Swap : discharged[s] = 0 \/ (discharged[s] = 1 /\ ~IsPending(s))
    /\ \A d \in Deposit : credited[d] <= 1
    /\ \A x \in Swap \cap Deposit : discharged[x] = 0 \/ credited[x] = 0

\* pendingSwapOutUsd never falls below what is owed to undelivered swappers, so
\* the reserve that SwapLib._swapInSettle protects is always large enough.
ObligationsCovered == pendingSwapOutUsd >= Total(OwedUsd, Swap)

\* A closed channel is final: no later call reopens, moves or pays it.
ClosedIsFinal ==
    [][\A c \in Outpoint : channels[c].status = STATUS_CLOSED =>
          /\ channels'[c] = channels[c]
          /\ pendingClaimSats'[c] = pendingClaimSats[c]
          /\ checkpointOf'[c] = checkpointOf[c]]_vars

\* While a channel stays on one outpoint, the balance attested for its LP only
\* rises: only a splice or delivery may lower it.
CheckpointRisesOnOutpoint ==
    [][\A c \in Outpoint :
          channels[c].outpoint # NoOutpoint /\ channels'[c].outpoint = channels[c].outpoint
          => checkpointOf'[c] >= checkpointOf[c]]_vars

\* The custody records, read as a ledger of channels: opened once, moved while
\* open and onto fresh outpoints only, closed for good.
ChannelStatus ==
    [c \in Outpoint |-> IF channels[c].status = STATUS_CLOSED THEN "closed"
                        ELSE IF Known(c) THEN "open" ELSE "none"]

Custody == INSTANCE ChannelLedger WITH
    Channel <- Outpoint, status <- ChannelStatus,
    at <- [c \in Outpoint |-> channels[c].outpoint], used <- fundingOutpointUsed

KeepsChannels == Custody!Spec

\* The mappings of a swap-out, read as one status: whatever the order of
\* requests, deliveries, reversals, refunds, splices and opens, a swap-out is
\* settled once and a delivery never rests on an outpoint accepted before.
SwapOutStatus ==
    [s \in Swap |-> IF IsPending(s) THEN "pending"
                    ELSE IF s \in delivered THEN "delivered"
                    ELSE IF s \in swapOutUsed THEN "returned" ELSE "none"]

SwapOuts == INSTANCE SwapLedger WITH swapOut <- SwapOutStatus, used <- fundingOutpointUsed

KeepsSwapOuts == SwapOuts!Spec
=============================================================================
