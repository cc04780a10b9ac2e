------------------------------- MODULE SwapOut -------------------------------
(***************************************************************************)
(* The on-chain swap-out rail: a swapper burns dollars on the EVM and is   *)
(* paid in Bitcoin by a splice-out of some LP's channel.                   *)
(*   quid-bridge/src/swap_out_onchain.rs  the watcher and the drive        *)
(*   quid-bridge/src/vault.rs             deliver_swap_out, the            *)
(*                                        DeliveryCoordinator, correlator  *)
(*   evm/src/BTCChannels.sol              the four entry points            *)
(* The watcher drives one request at a time; the tasks it leaves behind    *)
(* for late splices, the lifecycle stream, Bitcoin, the EVM and the        *)
(* swapper run beside it, and the process may restart anywhere.            *)
(*                                                                         *)
(* All requests are of one swapper and one amount: the case in which the   *)
(* payment of one splice could stand for another's.                        *)
(***************************************************************************)
EXTENDS Naturals, Sequences, FiniteSets

CONSTANTS
    Swaps,        \* bound: requests, numbered in the order of their logs
    Chan,         \* the LPs' channels
    NoChan,
    MaxSplices,   \* bound: delivery splices ever initiated, but for those that
                  \* came to nothing
    MaxFaults     \* bound: failed calls and restarts of the process

ASSUME SwapOutAssumption ==
    /\ Swaps \in Nat /\ NoChan \notin Chan
    /\ MaxSplices \in Nat /\ MaxFaults \in Nat

Swap == 1..Swaps
NoSwap == 0

VARIABLES
    \* BTCChannels
    evm,        \* swap -> none, pending, delivered or returned
    buried,     \* swaps settled at the depth of agreed_read_block
    \* Bitcoin and LDK
    splices,    \* initiated splices: swap, channel, state, and the swap the
                \* contract accepted it for
    events,     \* Spliced events the correlator has not read
    \* the process
    todo,       \* requests the pass in progress has yet to visit
    handled,
    slot,       \* DeliveryCoordinator.pending: channel -> who awaits the event
    drv,        \* the drive in progress
    late,       \* watch tasks whose event came, in complete_delivery
    \* bounds and history
    faults,
    dormant,    \* handled requests whose completion found no ladder
    cut         \* channels on which a delivery lost its event

evmVars == <<evm, buried>>
btcVars == <<splices, events>>
history == <<dormant, cut>>
vars == <<evmVars, btcVars, todo, handled, slot, drv, late, faults, history>>

\* own: the splices this visit initiated; splice: the one it was handed.
Idle == [pc |-> "idle", swap |-> NoSwap, cands |-> {}, chan |-> NoChan, own |-> {},
         splice |-> 0]
Free == [by |-> "none", swap |-> NoSwap]

Init ==
    /\ evm = [s \in Swap |-> "none"] /\ buried = {}
    /\ splices = <<>> /\ events = <<>>
    /\ todo = {} /\ handled = {} /\ slot = [c \in Chan |-> Free]
    /\ drv = Idle /\ late = {}
    /\ faults = 0 /\ dormant = {} /\ cut = {}

-----------------------------------------------------------------------------
(* BTCChannels, the swapper and the passage of blocks. *)

\* The request, and the min_confirmations during which nothing can act on it.
RequestSwapOutOnchain(s) ==
    /\ evm[s] = "none" /\ \A r \in 1..(s - 1) : evm[r] # "none"
    /\ evm' = [evm EXCEPT ![s] = "pending"]
    /\ UNCHANGED <<buried, btcVars, todo, handled, slot, drv,
                   late, faults, history>>

\* The swapper's own refund, once SWAPOUT_REFUND_BLOCKS have passed: the drives
\* may take as long, so that it comes at any time.
RefundExpiredSwapOut(s) ==
    /\ evm[s] = "pending"
    /\ evm' = [evm EXCEPT ![s] = "returned"]
    /\ UNCHANGED <<buried, btcVars, todo, handled, slot, drv,
                   late, faults, history>>

\* The splices of i's channel it was built on.
Before(i) == {j \in 1..(i - 1) : splices[j].chan = splices[i].chan /\ splices[j].st # "dead"}

\* deliverSwapOutOnchain: the record is pending, the splice's new outpoint
\* (_useOutpoint) was not accepted before, and the one it spends is the channel's
\* on record (WrongPrevOutpoint): each splice before it was accepted.  A splice
\* that pays a swapper can be recorded by a delivery only.
Deliverable(s, i) ==
    /\ evm[s] = "pending" /\ splices[i].credit = NoSwap
    /\ \A j \in Before(i) : splices[j].credit # NoSwap

Settled == {"delivered", "returned"}
SettledSwaps == {s \in Swap : evm[s] \in Settled}

\* Blocks are mined: the agreed read block moves up.
Bury ==
    /\ buried # SettledSwaps
    /\ buried' = SettledSwaps
    /\ UNCHANGED <<evm, btcVars, todo, handled, slot, drv,
                   late, faults, history>>

-----------------------------------------------------------------------------
(* The splices, as LDK and Bitcoin take them further. *)

InFlight(c) ==
    \E i \in DOMAIN splices : splices[i].chan = c /\ splices[i].st \in {"flight", "sent"}

\* The negotiation ends: the transaction is broadcast and LDK reports
\* SplicePending, which queues the Spliced event, or it dies with no event; the
\* number of one that was the last is free again.
SpliceEnds(i) ==
    /\ splices[i].st = "flight"
    /\ \/ /\ splices' = [splices EXCEPT ![i].st = "sent"]
          /\ events' = Append(events, i)
       \/ /\ splices' = IF i = Len(splices) THEN SubSeq(splices, 1, i - 1)
                        ELSE [splices EXCEPT ![i].st = "dead"]
          /\ events' = events
    /\ UNCHANGED <<evmVars, todo, handled, slot, drv, late, faults, history>>

\* It is buried: the channel's funding outpoint is the splice's from here on.
SpliceLocks(i) ==
    /\ splices[i].st = "sent"
    /\ splices' = [splices EXCEPT ![i].st = "locked"]
    /\ UNCHANGED <<evmVars, events, todo, handled, slot, drv, late, faults, history>>

\* DeliveryCoordinator.resolve: splice i is handed to whoever is registered
\* for channel c, and to nobody when no one is.
Hand(i, c) ==
    /\ slot' = [slot EXCEPT ![c] = Free]
    /\ drv' = IF slot[c].by = "drive"
              THEN [drv EXCEPT !.pc = "complete", !.chan = NoChan, !.splice = i] ELSE drv
    /\ late' = IF slot[c].by = "watch"
               THEN late \cup {[swap |-> slot[c].swap, splice |-> i]} ELSE late

\* Mutant: deliveries are keyed by the counterparty, the hop in all channels.
ResolveAnyone ==
    /\ events # <<>> /\ events' = Tail(events)
    /\ \E c \in Chan : slot[c] # Free /\ Hand(Head(events), c)
    /\ UNCHANGED <<evmVars, splices, todo, handled, faults, history>>

\* run_vault_delivery_correlator
Resolve ==
    /\ events # <<>> /\ events' = Tail(events)
    /\ Hand(Head(events), splices[Head(events)].chan)
    /\ UNCHANGED <<evmVars, splices, todo, handled, faults, history>>

-----------------------------------------------------------------------------
(* The watcher's pass. *)

\* A failed RPC, receipt wait, gateway wait or proof.
Fault == faults < MaxFaults /\ faults' = faults + 1

\* What drive_swap_out_onchain returned: Ok marks the request handled, Err
\* leaves it to the next pass.  The cursor moves up only over handled
\* requests and handled forgets only what is below it, so neither changes
\* which requests a later pass drives.
ReturnOk == drv' = Idle /\ todo' = todo \ {drv.swap} /\ handled' = handled \cup {drv.swap}
\* Mutant: a failed drive is not tried again.
ReturnErrHandled == ReturnOk

ReturnErr == drv' = Idle /\ todo' = todo \ {drv.swap} /\ UNCHANGED handled

\* poll_swap_out_onchain_logs and the evm_final gate.
Requested == {s \in Swap : evm[s] # "none"}

Poll ==
    /\ drv = Idle /\ todo = {} /\ Requested \ handled # {}
    /\ todo' = Requested \ handled
    /\ UNCHANGED <<evmVars, btcVars, handled, slot, drv, late, faults, history>>

\* swap_out_resolved, read at a buried block: neither view is set at a block
\* below the request's.
SwapOutResolved(s) == s \in buried

\* The pass visits the requests in log order.
IsNext(s) == s \in todo /\ \A r \in todo : s <= r

\* The resolved check and select_delivery_channels: any channels may be
\* online, open and large enough.
StartDrive(s) ==
    /\ drv = Idle /\ IsNext(s)
    /\ IF SwapOutResolved(s)
       THEN /\ handled' = handled \cup {s} /\ todo' = todo \ {s}
            /\ UNCHANGED drv
       ELSE /\ \E C \in SUBSET Chan :
                 drv' = [Idle EXCEPT !.pc = "pick", !.swap = s, !.cands = C]
            /\ UNCHANGED <<handled, todo>>
    /\ UNCHANGED <<evmVars, btcVars, slot, late, faults, history>>

StartFails(s) ==
    /\ drv = Idle /\ IsNext(s) /\ Fault
    /\ todo' = todo \ {s}
    /\ UNCHANGED <<evmVars, btcVars, handled, slot, drv, late, history>>

\* deliver_swap_out up to the initiation.  register replaces the sender of an
\* earlier delivery on the channel, whose watch task then ends.  LDK refuses
\* a splice on a channel that has one pending, and may refuse any.
Initiate(c) ==
    /\ drv.pc = "pick" /\ c \in drv.cands
    /\ ~InFlight(c) /\ Len(splices) < MaxSplices
    /\ splices' = Append(splices, [swap |-> drv.swap, chan |-> c, st |-> "flight",
                                   credit |-> NoSwap])
    /\ slot' = [slot EXCEPT ![c] = [by |-> "drive", swap |-> drv.swap]]
    /\ drv' = [drv EXCEPT !.pc = "wait", !.cands = {}, !.chan = c,
                         !.own = @ \cup {Len(splices) + 1}]
    /\ UNCHANGED <<evmVars, events, todo, handled, late, faults, history>>

\* Before the registration (no live LDK channel), or after it with cancel.
InitiateFails(c) ==
    /\ drv.pc = "pick" /\ c \in drv.cands
    /\ slot' \in {slot, [slot EXCEPT ![c] = Free]}
    /\ drv' = [drv EXCEPT !.cands = @ \ {c}]
    /\ UNCHANGED <<evmVars, btcVars, todo, handled, late, faults, history>>

\* Mutant: a splice that did not lock counts as failed, the next channel is tried.
TimeoutTriesNext ==
    /\ drv.pc = "wait"
    /\ slot' = [slot EXCEPT ![drv.chan] = Free]
    /\ drv' = [drv EXCEPT !.pc = "pick", !.cands = Chan \ {drv.chan}]
    /\ UNCHANGED <<evmVars, btcVars, todo, handled, late, faults, history>>

\* Mutant: the event is awaited without a timeout.
NoTimeout == FALSE /\ UNCHANGED vars

\* DeliveryInFlight: the receiver moves to a watch task and the drive returns
\* an error.
LockTimeout ==
    /\ drv.pc = "wait"
    /\ slot' = [slot EXCEPT ![drv.chan].by = "watch"]
    /\ cut' = cut \cup {drv.chan}
    /\ ReturnErr
    /\ UNCHANGED <<evmVars, btcVars, late, faults, dormant>>

\* DELIVERY_RESUME_WATCH_SECS pass: the task drops its receiver.
WatchExpires(c) ==
    /\ slot[c].by = "watch"
    /\ slot' = [slot EXCEPT ![c] = Free]
    /\ UNCHANGED <<evmVars, btcVars, todo, handled, drv, late, faults, history>>

\* No candidate, or none left: reverse_swap_out_onchain.  A revert because
\* the swap was settled meanwhile counts as done.
Reverse ==
    /\ drv.pc = "pick" /\ drv.cands = {}
    /\ evm' = IF evm[drv.swap] = "pending" THEN [evm EXCEPT ![drv.swap] = "returned"]
              ELSE evm
    /\ \/ ReturnOk /\ UNCHANGED faults
       \/ ReturnErr /\ Fault
    /\ UNCHANGED <<buried, btcVars, slot, late, history>>

\* The pool cannot return the whole amount, or the call never reached it.
ReverseFails ==
    /\ drv.pc = "pick" /\ drv.cands = {} /\ Fault
    /\ ReturnErr
    /\ UNCHANGED <<evmVars, btcVars, slot, late, history>>

\* complete_delivery, of splice i.  channel_funding_pubkeys finds the splice's outpoint only once it has locked.
CompleteErr(i) ==
    /\ IF splices[i].st = "locked" THEN Fault ELSE UNCHANGED faults
    /\ UNCHANGED <<evm, splices>>

\* consent_for_funding has no ladder of the LP's for the new outpoint: whether
\* the LP posted it by now is the LP's choice.
NoLadder(i) ==
    /\ splices[i].st = "locked"
    /\ UNCHANGED <<evm, splices, faults>>

Deliver(s, i) ==
    /\ splices[i].st = "locked" /\ Deliverable(s, i)
    /\ evm' = [evm EXCEPT ![s] = "delivered"]
    /\ splices' = [splices EXCEPT ![i].credit = s]

DeliverReverts(s, i) ==
    /\ splices[i].st = "locked" /\ ~Deliverable(s, i)
    /\ UNCHANGED <<evm, splices, faults>>

\* The drive's own completion: Ok when the submission was mined, when there
\* is no ladder, and when a revert finds the swap resolved.
CompleteDelivery ==
    /\ drv.pc = "complete"
    /\ LET s == drv.swap  i == drv.splice IN
       \/ CompleteErr(i) /\ ReturnErr /\ UNCHANGED dormant
       \/ NoLadder(i) /\ ReturnOk /\ dormant' = dormant \cup {s}
       \/ Deliver(s, i) /\ ReturnOk /\ UNCHANGED <<faults, dormant>>
       \/ Deliver(s, i) /\ ReturnErr /\ Fault /\ UNCHANGED dormant
       \/ DeliverReverts(s, i) /\ SwapOutResolved(s) /\ ReturnOk /\ UNCHANGED dormant
       \/ DeliverReverts(s, i) /\ ~SwapOutResolved(s) /\ ReturnErr /\ UNCHANGED dormant
    /\ UNCHANGED <<buried, events, slot, late, cut>>

\* A watch task's: nothing acts on its result.
CompleteLate(t) ==
    /\ t \in late /\ late' = late \ {t}
    /\ \/ CompleteErr(t.splice)
       \/ NoLadder(t.splice)
       \/ Deliver(t.swap, t.splice) /\ UNCHANGED faults
       \/ DeliverReverts(t.swap, t.splice)
    /\ UNCHANGED <<buried, events, todo, handled, slot, drv, history>>

\* The process restarts: everything in memory is lost, the logs are scanned
\* again from start_block, LDK resumes its splices.
Restart ==
    /\ Fault
    /\ events' = <<>>
    /\ todo' = {} /\ handled' = {} /\ slot' = [c \in Chan |-> Free]
    /\ drv' = Idle /\ late' = {}
    /\ cut' = cut \cup {c \in Chan : InFlight(c)}
    /\ dormant' = {}
    /\ UNCHANGED <<evmVars, splices>>

-----------------------------------------------------------------------------
Drive ==
    \/ Poll \/ LockTimeout \/ Reverse \/ ReverseFails \/ CompleteDelivery
    \/ \E s \in Swap : StartDrive(s) \/ StartFails(s)
    \/ \E c \in Chan : Initiate(c) \/ InitiateFails(c)

Tasks ==
    \/ Resolve
    \/ \E c \in Chan : WatchExpires(c)
    \/ \E t \in late : CompleteLate(t)

Chains ==
    \/ Bury
    \/ \E s \in Swap : RequestSwapOutOnchain(s) \/ RefundExpiredSwapOut(s)
    \/ \E i \in DOMAIN splices : SpliceEnds(i) \/ SpliceLocks(i)

Next == Drive \/ Tasks \/ Chains \/ Restart

\* The watcher is a loop whose every wait is bounded, and blocks are mined.
Fairness == WF_vars(Drive) /\ WF_vars(Bury)

Spec == Init /\ [][Next]_vars
FairSpec == Spec /\ Fairness

-----------------------------------------------------------------------------
Outcome == {"none", "pending"} \cup Settled
SpliceType == [swap : Swap, chan : Chan, st : {"flight", "sent", "locked", "dead"},
               credit : Swap \cup {NoSwap}]

\* Types: a registration, an event or a task names a splice that was initiated,
\* and a task exists only for a swap.
TypeOK ==
    /\ evm \in [Swap -> Outcome] /\ buried \subseteq SettledSwaps
    /\ splices \in Seq(SpliceType) /\ Len(splices) <= MaxSplices
    /\ \A k \in DOMAIN events : events[k] \in DOMAIN splices
    /\ todo \subseteq Swap /\ handled \subseteq Swap
    /\ slot \in [Chan -> [by : {"none", "drive", "watch"}, swap : Swap \cup {NoSwap}]]
    /\ drv \in [pc : {"idle", "pick", "wait", "complete"}, swap : Swap \cup {NoSwap},
                cands : SUBSET Chan, chan : Chan \cup {NoChan},
                own : SUBSET (1..MaxSplices), splice : {0} \cup DOMAIN splices]
    /\ late \subseteq [swap : Swap, splice : DOMAIN splices]
    /\ faults \in 0..MaxFaults
    /\ dormant \subseteq Swap /\ cut \subseteq Chan

\* A request is marked handled only once the chain settled it, or after its
\* completion found no ladder: no error path gives a request up.
HandledIsSettled ==
    \A s \in handled : evm[s] \in Settled \/ s \in dormant

\* One visit of the watcher pays at most once: a splice handed to LDK, which may
\* pay whenever it likes, ends the visit's search, so that neither another
\* channel's splice nor a reversal follows it.  It is the visit that is halted,
\* not the swap: see EventuallyHandled.
VisitPaysOnce ==
    LET paying == {i \in drv.own \cap DOMAIN splices : splices[i].st # "dead"}
    IN  Cardinality(paying) <= 1 /\ (drv.pc = "pick" => paying = {})

\* The contract credits a splice to the swap that caused it, unless a delivery on
\* its channel timed out or was in flight in a restart: the coordinator knows a
\* delivery by its channel alone, so that one late event makes every event after
\* it on the channel late as well.  Deliveries that fail in any other way, before
\* or after their event, leave no such trace.
CreditedToItsSwap ==
    \A i \in DOMAIN splices :
        splices[i].credit \in {NoSwap, splices[i].swap} \/ splices[i].chan \in cut

\* A visit that initiated a splice ends, and the request is not handled.
DeliveryFails ==
    drv.pc \in {"wait", "complete"} /\ drv' = Idle /\ drv.swap \notin handled'

\* Once calls stop failing and the process stays up, every request is handled,
\* unless deliveries go on failing for ever: the code sets no limit to the visits
\* whose splice came too late, was completed before it locked or was refused for
\* its outpoint.  No drive waits for ever and no request is passed over.
EventuallyHandled ==
    []<><<DeliveryFails>>_vars \/ []<>(Requested \subseteq handled)

\* The contract the driver talks to is the one BTCChannels implements.
Ledger == INSTANCE SwapLedger WITH
    Outpoint <- 1..MaxSplices,
    swapOut <- evm,
    used <- {i \in DOMAIN splices : splices[i].credit # NoSwap}

KeepsLedger == Ledger!Spec
==============================================================================
