------------------------------- MODULE SwapIn --------------------------------
(***************************************************************************)
(* The on-chain swap-in rail: a seller pays Bitcoin to a deposit address   *)
(* of its own, the hop credits the dollars on the EVM against a proof of   *)
(* the deposit, and then takes the Bitcoin by key path.  From the height   *)
(* cltv on the seller may take the deposit back.                           *)
(*   quid-bridge/src/swap_in_onchain.rs  the pass and its decisions        *)
(*   quid-bridge/src/swap_in_api.rs      registration and its index        *)
(*   quid-bridge/src/store.rs            the durable registry              *)
(*   quid-bridge/src/client.rs           settle_swap_in_proven             *)
(*   evm/src/BTCChannels.sol             settleSwapInProven                *)
(* A pass works on the tip it read at its start and on a snapshot of the   *)
(* registry, while blocks, registrations, payments and refunds go on, and  *)
(* the process may restart between any two of its steps.                   *)
(*                                                                         *)
(* Left out: amounts (a partial conversion returns the remainder in the    *)
(* claim itself) and second payments to one address, which no pass looks   *)
(* at and the seller takes back.                                           *)
(***************************************************************************)
EXTENDS Naturals, FiniteSets, FiniteSetsExt

CONSTANTS
    MaxAddrs,     \* bound: registrations
    MaxHeight,    \* bound: the Bitcoin tip
    Window,       \* cltv_window_blocks
    Headroom,     \* ONCHAIN_SWAP_IN_MIN_CLTV_HEADROOM_BLOCKS
    MinConfs,     \* min_confirmations
    PassBlocks,   \* blocks that may arrive during one pass
    GapBlocks,    \* and between the starts of two: the swap-outs of the same loop
    MaxNamed,     \* bound: deposits whose transaction is a swap-out's id
    MaxFaults     \* bound: failed calls, stuck claims and restarts

ASSUME SwapInAssumption ==
    /\ MaxAddrs \in Nat /\ MaxHeight \in Nat \ {0} /\ Window \in Nat /\ MinConfs \in Nat \ {0}
    /\ PassBlocks \in Nat /\ Headroom \in Nat /\ Headroom > PassBlocks
    /\ GapBlocks \in Nat /\ GapBlocks >= PassBlocks
    /\ MaxNamed \in Nat /\ MaxFaults \in Nat

VARIABLES
    tip,
    cltv,       \* issued address -> height from which its seller may take back
    dep,        \* issued address -> the transaction that paid it, and its height
    spend,      \* issued address -> state of the deposit's output
    used,       \* deposit transactions no settlement accepts again: swapInUsed
    reversed,   \* those used as the id of a swap-out that was reversed
    unlogged,   \* and of one that was refunded or delivered: no SwapInSettled
    credited,   \* addresses whose seller received the dollars
    registry,   \* onchain_swapins on disk: swap index -> address
    next,       \* next_index
    pass,       \* the pass in progress
    ticks,      \* blocks since the pass in progress, or the last, began
    faults,
    troubled    \* history: addresses whose service was disturbed

chain == <<tip, cltv, dep, spend>>
evm == <<used, reversed, unlogged, credited>>
vars == <<chain, evm, registry, next, pass, ticks, faults, troubled>>

Addr == DOMAIN cltv
NoEntry == [idx |-> 0, addr |-> 0]
Idle == [pc |-> "idle", tip |-> 0, todo |-> {}, entry |-> NoEntry]
Unpaid == [tx |-> 0, h |-> 0]
EmptyMap == [i \in {} |-> 0]

Init ==
    /\ tip = 1 /\ cltv = EmptyMap /\ dep = EmptyMap /\ spend = EmptyMap
    /\ used = {} /\ reversed = {} /\ unlogged = {} /\ credited = {}
    /\ registry = EmptyMap /\ next = 0
    /\ pass = Idle /\ ticks = 0
    /\ faults = 0 /\ troubled = {}

Fault(A) == faults < MaxFaults /\ faults' = faults + 1 /\ troubled' = troubled \cup A
Sound == UNCHANGED <<faults, troubled>>

With(f, k, v) == [x \in DOMAIN f \cup {k} |-> IF x = k THEN v ELSE f[x]]
Without(f, k) == [x \in DOMAIN f \ {k} |-> f[x]]

-----------------------------------------------------------------------------
(* Registration, payment, blocks and refunds. *)

\* POST /swap-in/onchain
Register ==
    LET a == Cardinality(Addr) + 1 IN
    /\ a <= MaxAddrs /\ tip + Window <= MaxHeight
    /\ cltv' = With(cltv, a, tip + Window)
    /\ dep' = With(dep, a, Unpaid)
    /\ spend' = With(spend, a, "unspent")
    /\ registry' = With(registry, next, a)
    /\ next' = next + 1
    /\ UNCHANGED <<tip, evm, pass, ticks, faults, troubled>>

\* A transaction in the newest block pays the addresses A.
Pay(A) ==
    /\ A # {} /\ \A a \in A : dep[a] = Unpaid
    /\ dep' = [a \in Addr |-> IF a \in A THEN [tx |-> Min(A), h |-> tip] ELSE dep[a]]
    /\ UNCHANGED <<tip, cltv, spend, evm, registry, next, pass, ticks, faults, troubled>>

\* A block: a broadcast claim is in it unless its fee was too low.
NewBlock ==
    /\ tip < MaxHeight
    /\ ticks < (IF pass = Idle THEN GapBlocks ELSE PassBlocks)
    /\ tip' = tip + 1 /\ ticks' = ticks + 1
    /\ spend' = [a \in Addr |-> IF spend[a] = "mempool" THEN "hop" ELSE spend[a]]
    /\ UNCHANGED <<cltv, dep, evm, registry, next, pass, faults, troubled>>

\* The seller spends the CLTV leaf.
UserRefund(a) ==
    /\ dep[a] # Unpaid /\ tip >= cltv[a] /\ spend[a] \in {"unspent", "stuck"}
    /\ spend' = [spend EXCEPT ![a] = "user"]
    /\ UNCHANGED <<tip, cltv, dep, evm, registry, next, pass, ticks, faults, troubled>>

\* A swap-out is settled whose swapper chose deposit transaction t for its
\* swapId: reverseSwapOut, refundExpiredSwapOut and deliverSwapOutOnchain mark
\* it in the map that settleSwapInProven checks.  Only the first emits the
\* event of a settled swap-in.
SwapOutSettled(t) ==
    /\ t \in {dep[a].tx : a \in Addr} \ ({0} \cup used)
    /\ Cardinality(reversed \cup unlogged) < MaxNamed
    /\ used' = used \cup {t}
    /\ \/ reversed' = reversed \cup {t} /\ UNCHANGED unlogged
       \/ unlogged' = unlogged \cup {t} /\ UNCHANGED reversed
    /\ UNCHANGED <<chain, credited, registry, next, pass, ticks, faults, troubled>>

-----------------------------------------------------------------------------
(* drive_swap_in_pass *)

\* The entries of the registry, and the address of the one being driven: a
\* pass works on its snapshot.
Entries == {[idx |-> i, addr |-> registry[i]] : i \in DOMAIN registry}
Driven == pass.entry.addr

StartPass ==
    /\ pass = Idle
    /\ ticks' = 0
    /\ \/ /\ pass' = [pc |-> "scan", tip |-> tip, todo |-> Entries, entry |-> NoEntry]
          /\ Sound
       \/ Fault(Addr) /\ UNCHANGED pass
    /\ UNCHANGED <<chain, evm, registry, next>>

EndPass ==
    /\ pass.pc = "scan" /\ pass.todo = {}
    /\ pass' = Idle
    /\ UNCHANGED <<chain, evm, registry, next, ticks>> /\ Sound

\* find_confirmed_deposit
Confirmed(a) ==
    dep[a] # Unpaid /\ pass.tip >= dep[a].h /\ pass.tip - dep[a].h + 1 >= MinConfs

\* Mutant: any height below the timelock will do.
AnyHeadroom(a) == cltv[a] > pass.tip

CltvHeadroomOk(a) == cltv[a] >= pass.tip + Headroom

Leave(e) == [pass EXCEPT !.pc = "scan", !.todo = @ \ {e}, !.entry = NoEntry]

\* Mutant: a registration is only removed with its claim.
VisitNoPrune(e) ==
    LET a == e.addr IN
    /\ pass.pc = "scan" /\ e \in pass.todo
    /\ pass' = IF Confirmed(a) /\ CltvHeadroomOk(a)
               THEN [pass EXCEPT !.pc = "settle", !.entry = e] ELSE Leave(e)
    /\ UNCHANGED <<chain, evm, registry, next, ticks>> /\ Sound

\* drive_one_swap_in up to the settle: prune, scan, headroom.
Visit(e) ==
    LET a == e.addr IN
    /\ pass.pc = "scan" /\ e \in pass.todo
    /\ IF pass.tip >= cltv[a]
       THEN registry' = Without(registry, e.idx) /\ pass' = Leave(e)
       ELSE /\ UNCHANGED registry
            /\ pass' = IF Confirmed(a) /\ CltvHeadroomOk(a)
                       THEN [pass EXCEPT !.pc = "settle", !.entry = e] ELSE Leave(e)
    /\ UNCHANGED <<chain, evm, next, ticks>> /\ Sound

\* The address scan or the inclusion proof is not to be had.
VisitFails(e) ==
    /\ pass.pc = "scan" /\ e \in pass.todo /\ Fault({e.addr})
    /\ pass' = Leave(e)
    /\ UNCHANGED <<chain, evm, registry, next, ticks>>

\* Mutant: a settlement whose log cannot be read counts as one in full.
SettleUnread ==
    LET a == Driven  t == dep[a].tx IN
    /\ pass.pc = "settle"
    /\ used' = used \cup {t}
    /\ credited' = IF t \in used THEN credited ELSE credited \cup {a}
    /\ pass' = [pass EXCEPT !.pc = "claim"]
    /\ UNCHANGED <<chain, reversed, unlogged, registry, next, ticks>> /\ Sound

\* settle_swap_in_proven: the contract accepts a transaction once.  A revert on
\* one it has marked is taken for AlreadySettled when the log of a settlement
\* under that id can be read, and for an error when there is none.
Settle ==
    LET a == Driven  t == dep[a].tx IN
    /\ pass.pc = "settle"
    /\ used' = used \cup {t}
    /\ credited' = IF t \in used THEN credited ELSE credited \cup {a}
    /\ \/ t \notin unlogged /\ pass' = [pass EXCEPT !.pc = "claim"] /\ Sound
       \/ t \in unlogged /\ pass' = Leave(pass.entry) /\ Sound
       \/ t \notin unlogged /\ pass' = Leave(pass.entry) /\ Fault({a})   \* not read back
    /\ UNCHANGED <<chain, reversed, unlogged, registry, next, ticks>>

\* Undeliverable (no inventory, gateway behind), or the call failed.
SettleFails ==
    /\ pass.pc = "settle" /\ Fault({Driven})
    /\ pass' = Leave(pass.entry)
    /\ UNCHANGED <<chain, evm, registry, next, ticks>>

\* broadcast_claim, accepted unless the output is spent already.
BroadcastClaim ==
    LET a == Driven IN
    /\ pass.pc = "claim"
    /\ \/ /\ spend[a] \in {"unspent", "mempool", "stuck"}
          /\ \/ spend' = [spend EXCEPT ![a] = "mempool"] /\ Sound
             \/ spend' = [spend EXCEPT ![a] = "stuck"] /\ Fault({a})
          /\ pass' = [pass EXCEPT !.pc = "drop"]
       \/ /\ spend[a] \in {"hop", "user"} /\ UNCHANGED spend
          /\ pass' = Leave(pass.entry) /\ Sound
    /\ UNCHANGED <<tip, cltv, dep, evm, registry, next, ticks>>

BroadcastFails ==
    /\ pass.pc = "claim" /\ Fault({Driven})
    /\ pass' = Leave(pass.entry)
    /\ UNCHANGED <<chain, evm, registry, next, ticks>>

\* The registration is removed when its claim was broadcast.
Drop ==
    /\ pass.pc = "drop"
    /\ registry' = Without(registry, pass.entry.idx)
    /\ pass' = Leave(pass.entry)
    /\ UNCHANGED <<chain, evm, next, ticks>> /\ Sound

\* Mutant: the counter starts again at the largest index in use.
SeedLargest == IF DOMAIN registry = {} THEN 0 ELSE Max(DOMAIN registry)

\* next_index_seed
NextIndexSeed == IF DOMAIN registry = {} THEN 0 ELSE Max(DOMAIN registry) + 1

Restart ==
    /\ Fault({e.addr : e \in pass.todo})
    /\ pass' = Idle /\ next' = NextIndexSeed
    /\ UNCHANGED <<chain, evm, registry, ticks>>

-----------------------------------------------------------------------------
Sweep ==
    \/ StartPass \/ EndPass \/ Settle \/ SettleFails
    \/ BroadcastClaim \/ BroadcastFails \/ Drop
    \/ \E e \in pass.todo : Visit(e) \/ VisitFails(e)

Next ==
    \/ Sweep \/ Restart \/ Register \/ NewBlock
    \/ \E A \in SUBSET Addr : Pay(A)
    \/ \E a \in Addr : UserRefund(a) \/ SwapOutSettled(a)

Spec == Init /\ [][Next]_vars

\* The watcher is a loop, and Bitcoin keeps producing blocks.
FairSpec == Spec /\ WF_vars(Sweep) /\ WF_vars(NewBlock)

-----------------------------------------------------------------------------
\* Types: a pass past its scan is about an entry of its own snapshot.
TypeOK ==
    /\ tip \in 1..MaxHeight /\ cltv \in [Addr -> 1..MaxHeight]
    /\ dep \in [Addr -> [tx : {0} \cup Addr, h : 0..MaxHeight]]
    /\ spend \in [Addr -> {"unspent", "mempool", "stuck", "hop", "user"}]
    /\ used \subseteq Addr /\ reversed \subseteq used /\ unlogged \subseteq used
    /\ credited \subseteq Addr
    /\ registry \in [DOMAIN registry -> Addr] /\ DOMAIN registry \subseteq Nat /\ next \in Nat
    /\ pass \in [pc : {"idle", "scan", "settle", "claim", "drop"}, tip : 0..tip,
                 todo : SUBSET [idx : Nat, addr : Addr],
                 entry : [idx : Nat, addr : Addr] \cup {NoEntry}]
    /\ pass.pc \in {"settle", "claim", "drop"} => pass.entry \in pass.todo
    /\ ticks \in 0..GapBlocks /\ faults \in 0..MaxFaults /\ troubled \subseteq Addr

\* The hop takes a deposit only when the dollars for it were credited ("no USD
\* delivered => no BTC taken"), or those for another deposit in the same
\* transaction, which is all that AlreadySettled tells, or when the transaction
\* was the id of a swap-out that was reversed: its event is taken for that of the
\* deposit.  A failed or unreadable settlement, a restart and the refund or the
\* delivery of a swap-out of that id never lead to a claim.
ClaimedIsCredited ==
    \A a \in Addr : spend[a] \in {"mempool", "stuck", "hop"} =>
        \/ \E b \in credited : dep[b].tx = dep[a].tx
        \/ dep[a].tx \in reversed

\* A seller keeps both the dollars and the Bitcoin only when a call about
\* their deposit failed, their claim got stuck or the process restarted: with
\* the headroom, a pass that read its tip blocks ago still claims in time.
PaidForInBitcoin ==
    \A a \in Addr : a \in credited /\ spend[a] = "user" => a \in troubled

\* The last height at which a pass would still settle address a.
LastCall(a) == cltv[a] - Headroom

\* A deposit that is buried before the last pass within the headroom starts is
\* taken for dollars unless a call about it failed or its transaction was the id
\* of a swap-out: no registration is forgotten, by the index reuse after a
\* restart or otherwise, while its deposit may come.
EarlyDepositServed ==
    \A a \in Addr :
        spend[a] = "user" /\ dep[a].h + MinConfs - 1 + GapBlocks <= LastCall(a)
            => a \in troubled \/ dep[a].tx \in unlogged

\* Every registration is removed in the end, claimed or not.
RegistryDrains == <>[](registry = EmptyMap)
==============================================================================
