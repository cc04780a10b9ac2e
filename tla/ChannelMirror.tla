---------------------------- MODULE ChannelMirror -----------------------------
(***************************************************************************)
(* How the bridge mirrors one Lightning channel on the EVM: the event      *)
(* driver and the periodic reconciler both spawn drives, which open,       *)
(* splice and close the channel's BTCChannels record against proofs.       *)
(*   quid-bridge/src/channel_driver.rs  driver, reconciler, drives, slot   *)
(*   quid-bridge/src/vault.rs           the binding and the LP's consent   *)
(*   quid-hop/src/event_handler.rs      the lifecycle events               *)
(*   evm/src/BTCChannels.sol            what the contract accepts          *)
(* All of the bridge's state is kept per channel, so one channel is enough.*)
(* Bitcoin, LDK, the LP and the process's restarts interleave with every   *)
(* await of the two loops and of the drives.                               *)
(*                                                                         *)
(* The channel's transactions are numbered: funding 1, splices 2, 3, ...,  *)
(* and a close after the last of them; each spends the one before.         *)
(* A splice or a close comes only when the gateway has buried what came    *)
(* before, a splice only when the driver has read its events, whose loop   *)
(* does not block.                                                         *)
(* Left out: swap-out deliveries (SwapOut), the dormant fee flush, the     *)
(* liveness gate, and a close while a splice is not locked.                *)
(***************************************************************************)
EXTENDS Naturals, Sequences, FiniteSets

CONSTANTS
    Amounts,      \* possible funded totals
    Opening,      \* the total of the funding transaction
    MaxTxs,       \* bound: fundings and splices
    MaxFaults     \* bound: failed calls, panics and restarts

ASSUME MirrorAssumption ==
    /\ Amounts \subseteq Nat \ {0} /\ Opening \in Amounts
    /\ MaxTxs \in Nat \ {0} /\ MaxFaults \in Nat

VARIABLES
    \* Bitcoin and LDK
    amt,       \* the funded total of each funding transaction
    locked,    \* the one LDK works with: get_funding_txo
    fate,      \* live, or closed cooperatively or by a commitment
    buried,    \* the transactions the gateway has deep enough
    \* BTCChannels
    rec,       \* at: the recorded outpoint (0 = never opened); st: its status
    claim,     \* pendingClaimSats is not zero
    \* the bridge, on disk
    bound,     \* by_funding of outpoint 1
    cidmap,    \* onchain_cid knows the channel
    \* the bridge, in memory
    consent,   \* outpoints the LP posted its exit ladder for
    events,    \* the lifecycle events not read yet
    active,    \* the channel's slot is claimed
    drives,    \* the drives in flight
    rc,        \* the reconciler's pass
    faults

btc == <<amt, locked, fate, buried>>
evm == <<rec, claim>>
disk == <<bound, cidmap>>
vars == <<btc, evm, disk, consent, events, active, drives, rc, faults>>

Idle == [pc |-> "idle", val |-> 0, at |-> 0, seen |-> 0, view |-> "none"]

Init ==
    /\ amt = <<Opening>> /\ locked = 1 /\ fate = "live" /\ buried = 0
    /\ rec = [at |-> 0, st |-> "none"] /\ claim = FALSE
    /\ bound = "no" /\ cidmap = FALSE
    /\ consent = {} /\ events = <<[kind |-> "ready", tx |-> 1]>>
    /\ active = FALSE /\ drives = {} /\ rc = Idle /\ faults = 0

-----------------------------------------------------------------------------
(* LDK, Bitcoin and the LP. *)

Txs == Len(amt) + (IF fate = "live" THEN 0 ELSE 1)

Quiet == fate = "live" /\ Len(amt) = locked /\ buried = Len(amt)

Report(kind, k) == events' = Append(events, [kind |-> kind, tx |-> k])

\* A splice is negotiated and broadcast: LDK reports SplicePending.
Splice(v) ==
    /\ Quiet /\ Len(amt) < MaxTxs /\ events = <<>>
    /\ amt' = Append(amt, v)
    /\ Report("spliced", Len(amt) + 1)
    /\ UNCHANGED <<locked, fate, buried, evm, disk, consent, active, drives, rc, faults>>

Lock ==
    /\ fate = "live" /\ locked < Len(amt)
    /\ locked' = Len(amt)
    /\ UNCHANGED <<amt, fate, buried, evm, disk, consent, events, active, drives, rc, faults>>

\* The channel closes: LDK takes it from list_channels and reports it.
Close(f) ==
    /\ Quiet
    /\ fate' = f
    /\ Report("closed", locked)
    /\ UNCHANGED <<amt, locked, buried, evm, disk, consent, active, drives, rc, faults>>

\* A transaction gets its confirmations in the gateway.
Bury ==
    /\ buried < Txs
    /\ buried' = buried + 1
    /\ UNCHANGED <<amt, locked, fate, evm, disk, consent, events, active, drives, rc, faults>>

\* bind_consent, for the outpoint in use or the one coming.
PostConsent(k) ==
    /\ k \in {locked, Len(amt)} \ consent /\ k > rec.at
    /\ consent' = consent \cup {k}
    /\ UNCHANGED <<btc, evm, disk, events, active, drives, rc, faults>>

\* bind_funding, by the vault that opened the channel.
BindFunding ==
    /\ bound = "no" /\ fate = "live" /\ locked = 1
    /\ bound' = "yes"
    /\ UNCHANGED <<btc, evm, cidmap, consent, events, active, drives, rc, faults>>

-----------------------------------------------------------------------------
(* Drives and their slot. *)

\* slot: the drive holds the channel's slot; a drive that does not know the
\* channel's id has none.  ev: its success prunes onchain_cid.
NewDrive(kind, tx, slot, ev) ==
    [kind |-> kind, tx |-> tx, pc |-> "read", slot |-> slot, ev |-> ev]

\* ActiveSlot::claim: the drive is skipped while another holds the slot.
SpawnWithSlot(kind, tx, ev) ==
    IF active THEN UNCHANGED <<active, drives>>
    ELSE active' = TRUE /\ drives' = drives \cup {NewDrive(kind, tx, TRUE, ev)}

SpawnWithoutSlot(kind, tx) ==
    drives' = drives \cup {NewDrive(kind, tx, FALSE, FALSE)} /\ UNCHANGED active

\* Mutant: the slot is a flag that nobody clears.
EndKeepsSlot(d) == active' = active /\ drives' = drives \ {d}

\* The drive returns and its ActiveSlot, if any, is dropped.
End(d) == active' = (active /\ ~d.slot) /\ drives' = drives \ {d}

To(d, pc) == drives' = (drives \ {d}) \cup {[d EXCEPT !.pc = pc]} /\ UNCHANGED active

\* channel_funding_pubkeys: the outpoint is that of a live channel.
HasKeys(k) == fate = "live" /\ locked = k

\* Mutant: every spend with a locktime is a force close, and a splice has one.
HasLocktime(k) == k <= Txs /\ ~(fate = "coop" /\ k = Txs)

\* is_commitment_tx, and isCommitmentTx of the contract
IsCommitment(k) == fate = "force" /\ k = Txs

\* What lets each drive go on once it has read the record; otherwise it ends.
\* An open of any but the first outpoint looks at a record that never existed;
\* a close without the channel's id or its keys fails.
GoesOn(d) ==
    CASE d.kind = "open"   -> HasKeys(d.tx) /\ (d.tx = 1 => rec.at = 0)
      [] d.kind = "splice" -> HasKeys(d.tx) /\ rec.st = "open" /\ amt[d.tx] # amt[rec.at]
      [] d.kind = "close"  -> d.slot /\ rec.st = "open"
      [] d.kind = "force"  -> IsCommitment(d.tx) /\ rec.st = "open"

\* A mapped close driven by its event that finds nothing to do forgets the channel.
DriveReads(d) ==
    /\ d.pc = "read"
    /\ IF GoesOn(d) THEN To(d, "wait") ELSE End(d)
    /\ cidmap' = (cidmap /\ (d.ev => GoesOn(d)))
    /\ UNCHANGED <<btc, evm, bound, consent, events, rc, faults>>

\* wait_for_gateway_height, and its bounded number of attempts.
DriveWaits(d) ==
    /\ d.pc = "wait"
    /\ IF buried >= d.tx THEN To(d, "send") ELSE End(d)
    /\ UNCHANGED <<btc, evm, disk, consent, events, rc, faults>>

\* drive_open: binding and consent, else it is left to a later pass.  The
\* contract wants no record and a buried funding, and may defer the pool claim.
SendOpen(d) ==
    /\ d.pc = "send" /\ d.kind = "open"
    /\ IF d.tx = 1 /\ bound = "yes" /\ 1 \in consent
            /\ rec.at = 0 /\ buried >= 1
       THEN rec' = [at |-> 1, st |-> "open"] /\ claim' \in BOOLEAN /\ To(d, "clear")
       ELSE UNCHANGED evm /\ End(d)
    /\ UNCHANGED <<btc, disk, consent, events, rc, faults>>

\* _whenOpen, and a buried transaction that spends the recorded outpoint.
SpendsChannel(k) == rec.st = "open" /\ rec.at = k - 1 /\ buried >= k

\* BTCChannels.splice: a shrink needs the claim registered.
SpliceAccepted(k) == SpendsChannel(k) /\ (amt[k] < amt[rec.at] => ~claim)

SendSplice(d) ==
    /\ d.pc = "send" /\ d.kind = "splice"
    /\ IF d.tx \in consent /\ SpliceAccepted(d.tx)
       THEN rec' = [rec EXCEPT !.at = d.tx] /\ To(d, "clear")
       ELSE rec' = rec /\ End(d)
    /\ UNCHANGED <<btc, claim, disk, consent, events, rc, faults>>

\* drive_close: neither caller has the funding keys recordClose needs.
SendClose(d) ==
    /\ d.pc = "send" /\ d.kind = "close"
    /\ End(d)
    /\ UNCHANGED <<btc, evm, disk, consent, events, rc, faults>>

\* recordForceClosePermissionless
SendForceClose(d) ==
    /\ d.pc = "send" /\ d.kind = "force"
    /\ rec' = IF IsCommitment(d.tx) /\ SpendsChannel(d.tx)
              THEN [rec EXCEPT !.st = "closed"] ELSE rec
    /\ End(d)
    /\ UNCHANGED <<btc, claim, disk, consent, events, rc, faults>>

\* clear_inflight
ClearInflight(d) ==
    /\ d.pc = "clear"
    /\ consent' = consent \ {d.tx}
    /\ bound' = IF d.tx = 1 THEN "cleared" ELSE bound
    /\ End(d)
    /\ UNCHANGED <<btc, evm, cidmap, events, rc, faults>>

Fault == faults < MaxFaults /\ faults' = faults + 1

\* A failed call or a panic.
DriveFails(d) ==
    /\ Fault
    /\ End(d)
    /\ UNCHANGED <<btc, evm, disk, consent, events, rc>>

DriveSteps(d) ==
    \/ DriveReads(d) \/ DriveWaits(d) \/ SendOpen(d) \/ SendSplice(d)
    \/ SendClose(d) \/ SendForceClose(d) \/ ClearInflight(d)

-----------------------------------------------------------------------------
(* run_channel_driver *)

\* Ready: the mapping is recorded while the outpoint is the channel's; if it is
\* not, the drive has no id to claim a slot for.
OnReady ==
    LET k == Head(events).tx IN
    /\ events # <<>> /\ Head(events).kind = "ready" /\ events' = Tail(events)
    /\ cidmap' = (cidmap \/ HasKeys(k))
    /\ IF HasKeys(k) THEN SpawnWithSlot("open", k, FALSE) ELSE SpawnWithoutSlot("open", k)
    /\ UNCHANGED <<btc, evm, bound, consent, rc, faults>>

\* Spliced: an unmapped one is left to the reconciler.
OnSpliced ==
    /\ events # <<>> /\ Head(events).kind = "spliced" /\ events' = Tail(events)
    /\ IF cidmap THEN SpawnWithSlot("splice", Head(events).tx, FALSE)
       ELSE UNCHANGED <<active, drives>>
    /\ UNCHANGED <<btc, evm, disk, consent, rc, faults>>

\* Closed: an unmapped one is driven without a slot; its channel is gone from
\* list_channels, so there are no keys for it either.
OnClosed ==
    LET close == Head(events).tx + 1 IN
    /\ events # <<>> /\ Head(events).kind = "closed" /\ events' = Tail(events)
    /\ IF cidmap THEN SpawnWithSlot("close", close, TRUE) ELSE SpawnWithoutSlot("close", close)
    /\ UNCHANGED <<btc, evm, disk, consent, rc, faults>>

-----------------------------------------------------------------------------
(* run_channel_reconciler: one pass, with an await between its reads. *)

RcStart ==
    /\ rc = Idle
    /\ rc' = [Idle EXCEPT !.pc = "monitor",
                          !.val = IF fate = "live" THEN amt[locked] ELSE 0]
    /\ UNCHANGED <<btc, evm, disk, consent, events, active, drives, faults>>

\* The monitor's outpoint and its pending splices.
RcMonitor ==
    /\ rc.pc = "monitor"
    /\ rc' = [rc EXCEPT !.pc = "state", !.at = locked, !.seen = Len(amt)]
    /\ UNCHANGED <<btc, evm, disk, consent, events, active, drives, faults>>

\* read_channel_state, compared with LDK's total, and the retry of a deferred
\* claim.
RcState ==
    /\ rc.pc = "state"
    /\ rc' = [rc EXCEPT !.pc = "spend", !.val = 0,
                        !.view = IF rec.st # "open" THEN rec.st
                                 ELSE IF rc.val # amt[rec.at] THEN "differs" ELSE "same"]
    /\ claim' \in {claim, FALSE}
    /\ UNCHANGED <<btc, rec, disk, consent, events, active, drives, faults>>

\* get_output_status
Spent(k) == k < Txs

\* select_reconcile_action on what the pass read; the spend of rc.at is rc.at + 1.
\* A record that was never opened has the status of an open one.
SelectReconcileAction(spent, commitment) ==
    IF spent /\ rc.view # "closed"
    THEN IF rc.at + 1 <= rc.seen THEN "none"
         ELSE IF commitment THEN "force" ELSE "close"
    ELSE IF ~spent /\ rc.view = "none" THEN "open"
    ELSE IF ~spent /\ rc.view = "differs" THEN "splice"
    ELSE "none"

\* The end of the pass with this answer from esplora.
RcAct(spent, commitment) ==
    LET a == SelectReconcileAction(spent, commitment) IN
    /\ rc.pc = "spend" /\ rc' = Idle
    /\ IF a = "none" THEN UNCHANGED <<active, drives>>
       ELSE SpawnWithSlot(a, IF a \in {"close", "force"} THEN rc.at + 1 ELSE rc.at, FALSE)
    /\ UNCHANGED <<btc, evm, disk, consent, events>>

RcSpend == RcAct(Spent(rc.at), IsCommitment(rc.at + 1)) /\ UNCHANGED faults

\* An answer that cannot be had counts as unspent, a transaction that cannot
\* be had as no commitment.
RcBlip == Fault /\ (RcAct(FALSE, FALSE) \/ RcAct(Spent(rc.at), FALSE))

-----------------------------------------------------------------------------
Restart ==
    /\ Fault
    /\ consent' = {} /\ events' = <<>> /\ active' = FALSE /\ drives' = {} /\ rc' = Idle
    /\ UNCHANGED <<btc, evm, disk>>

Reconcile == RcStart \/ RcMonitor \/ RcState \/ RcSpend
Driving == \E d \in drives : DriveSteps(d)

Next ==
    \/ Lock \/ Bury \/ BindFunding \/ Restart
    \/ \E v \in Amounts : Splice(v)
    \/ \E f \in {"coop", "force"} : Close(f)
    \/ \E k \in 1..Len(amt) : PostConsent(k)
    \/ OnReady \/ OnSpliced \/ OnClosed \/ Reconcile \/ RcBlip \/ Driving
    \/ \E d \in drives : DriveFails(d)

Spec == Init /\ [][Next]_vars

\* The reconciler is a loop, a drive's waits are bounded, and the relayer
\* brings the gateway up to Bitcoin.  Nothing is assumed of the LP.
FairSpec == Spec /\ WF_vars(Reconcile) /\ WF_vars(Driving) /\ WF_vars(Bury)

-----------------------------------------------------------------------------
RecType == [at : 0..MaxTxs, st : {"none", "open", "closed"}]

\* Every drive is about a transaction that exists.
TypeOK ==
    /\ amt \in Seq(Amounts) /\ locked \in 1..Len(amt) /\ Len(amt) <= MaxTxs
    /\ fate \in {"live", "coop", "force"} /\ buried \in 0..Txs
    /\ rec \in RecType /\ claim \in BOOLEAN
    /\ bound \in {"no", "yes", "cleared"} /\ cidmap \in BOOLEAN
    /\ consent \subseteq 1..Len(amt) /\ active \in BOOLEAN
    /\ events \in Seq([kind : {"ready", "spliced", "closed"}, tx : 1..Len(amt)])
    /\ drives \subseteq [kind : {"open", "splice", "close", "force"}, tx : 1..Txs,
                         pc : {"read", "wait", "send", "clear"}, slot : BOOLEAN, ev : BOOLEAN]
    /\ rc \in [pc : {"idle", "monitor", "state", "spend"}, val : {0} \cup Amounts,
               at : 0..MaxTxs, seen : 0..MaxTxs,
               view : {"none", "same", "differs", "closed"}]
    /\ faults \in 0..MaxFaults

\* The record is never ahead of the channel: it is moved only to an outpoint LDK
\* has locked and the gateway has buried, and retired only once the outpoint it
\* has was spent by a buried commitment.  A splice that waits for its lock
\* spends that outpoint too, and is never taken for the close of the channel.
RecordNeverAhead ==
    /\ rec.at <= locked /\ rec.at <= buried
    /\ rec.st = "closed" => fate = "force" /\ rec.at = Len(amt) /\ buried > rec.at

\* The EVM shows what LDK has.
CaughtUp ==
    IF fate = "live" THEN rec = [at |-> locked, st |-> "open"]
    ELSE rec.at = 0 \/ rec.st = "closed"

\* What the mirror of a live channel waits for from outside: the funding's
\* binding, the LP's ladder and, for a shrink, the pool claim.
Waiting ==
    /\ fate = "live"
    /\ \/ locked \notin consent
       \/ rec.at = 0 /\ bound = "no"
       \/ rec.at # 0 /\ amt[locked] < amt[rec.at] /\ claim

\* What the mirror never recovers from: a splice before the open was recorded,
\* two splices of which neither is recorded, a splice with an unchanged total,
\* a close before a splice was recorded, and a cooperative close.
Stranded ==
    \/ rec.at = 0 /\ Len(amt) > 1
    \/ rec.at # 0 /\ Len(amt) > rec.at + 1
    \/ rec.at # 0 /\ Len(amt) = rec.at + 1 /\ amt[rec.at] = amt[rec.at + 1]
    \/ rec.at # 0 /\ rec.at < locked /\ fate # "live"
    \/ fate = "coop"

\* Missed events, failed drives and restarts are made good: the mirror catches
\* up, unless it waits for the outside or is in one of the states it does not
\* recover from.
MirrorCatchesUp == <>[](CaughtUp \/ Waiting \/ Stranded)

\* The record the drives write is a channel of the ledger that BTCChannels
\* implements.
Ledger == INSTANCE ChannelLedger WITH
    Channel <- {1}, Outpoint <- 1..MaxTxs, NoOutpoint <- 0,
    status <- <<rec.st>>, at <- <<rec.at>>, used <- 1..rec.at

KeepsLedger == Ledger!Spec
==============================================================================
