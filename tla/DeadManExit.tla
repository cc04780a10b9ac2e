----------------------------- MODULE DeadManExit -----------------------------
(***************************************************************************)
(* The heartbeat that keeps a pre-signed exit out for every LP channel:    *)
(* each exit opens Delta blocks later, is replaced before that, and spends *)
(* a wallet output shared by its generation, the freshness output, so that *)
(* spending that one output kills every exit of the generation at once.    *)
(*   quid-bridge/src/deadman_exit.rs   run_deadman_exit_heartbeat          *)
(*   quid-bridge/src/store.rs          the designated output, on disk      *)
(*   quid-ln/src/wallet.rs             reserve, release, spend to self     *)
(*   quid-hop/src/bump.rs              the outputs a fee bump may take     *)
(*   evm/src/BTCChannels.sol           emitDeadManExit                     *)
(* Channels, blocks, the wallet's other business and restarts interleave   *)
(* with the channel by channel loop of a tick.                             *)
(*                                                                         *)
(* Wallet outputs are numbered by their value and count once confirmed.    *)
(* Left out: receipts of the wallet, what a retirement pays back included, *)
(* amounts and payout keys, the ladders posted at open and at a splice     *)
(* (BTCChannels), the time in which a splice is not on the EVM yet (an     *)
(* emission then reverts, as in SendFails), and outages longer than        *)
(* GapBlocks, which are what the exits are for.                            *)
(***************************************************************************)
EXTENDS Naturals, FiniteSets, FiniteSetsExt

CONSTANTS
    Chan,         \* channels with a monitor, sooner or later
    MaxOuts,      \* bound: wallet outputs
    Delta,        \* DEAD_MAN_DELTA_BLOCKS
    GapBlocks,    \* blocks from the start of a tick to the start of the next
    MaxHeight,    \* bound: the Bitcoin tip
    MaxSpends,    \* bound: outputs the wallet spends otherwise
    MaxFaults     \* bound: failed calls and restarts

\* REFRESH_MARGIN_BLOCKS
Margin == Delta \div 2

\* The interval of the heartbeat is far below Delta: an exit outlasts one gap for
\* each failed call, the gap before the tick that replaces it, and that tick.
ASSUME HeartbeatAssumption ==
    /\ MaxOuts \in Nat /\ Delta \in Nat /\ GapBlocks \in Nat \ {0}
    /\ MaxHeight \in Nat \ {0} /\ MaxSpends \in Nat /\ MaxFaults \in Nat
    /\ Margin >= GapBlocks * (MaxFaults + 2)

Out == 1..MaxOuts
NoOut == 0

VARIABLES
    tip,
    since,        \* blocks since the last tick began
    wallet,       \* output -> held, retired or spent
    st,           \* channel -> none, funded, open, spliced or closed
    cur,          \* channel -> its last exit emitted on its outpoint
    old,          \* superseded exits that are still valid
    designated,   \* freshness_of_shard, on disk
    reserved,     \* the wallet's reserved outputs, in memory
    last,         \* last_cltv, in memory
    hb,           \* the tick in progress
    faults,
    \* history
    passedOver,   \* channels not tried by a tick that retired, since their exit
    left,         \* designated outputs that a later tick did not retire
    unguarded,    \* outputs whose reservation a restart or an eviction lost
    bumped        \* outputs that fee bumps took

wall == <<wallet, reserved>>
chans == <<st, cur, old>>
history == <<passedOver, left, unguarded, bumped>>
vars == <<tip, since, wall, chans, designated, last, hb, faults, history>>

NoExit == [dl |-> 0, fresh |-> NoOut]
Idle == [pc |-> "sleep", tip |-> 0, prev |-> NoOut, fresh |-> NoOut,
         todo |-> {}, skipped |-> {}, ok |-> TRUE]

Init ==
    /\ tip = 1 /\ since = 0
    /\ wallet = [o \in Out |-> "held"] /\ reserved = {}
    /\ st = [c \in Chan |-> "none"] /\ cur = [c \in Chan |-> NoExit] /\ old = {}
    /\ designated = NoOut /\ last = [c \in Chan |-> 0] /\ hb = Idle
    /\ faults = 0 /\ passedOver = {} /\ left = {} /\ unguarded = {} /\ bumped = {}

Fault == faults < MaxFaults /\ faults' = faults + 1

-----------------------------------------------------------------------------
(* Channels, blocks and the wallet's other business. *)

\* A channel is funded, and later mirrored on the EVM.
Advance(c) ==
    /\ st[c] \in {"none", "funded"}
    /\ st' = [st EXCEPT ![c] = IF @ = "none" THEN "funded" ELSE "open"]
    /\ UNCHANGED <<tip, since, wall, cur, old, designated, last, hb, faults, history>>

\* On the EVM.
Open(c) == st[c] \in {"open", "spliced"}

\* A splice or a close spends the outpoint that all of its exits spend.
SpendOutpoint(c, s) ==
    /\ st[c] = "open"
    /\ st' = [st EXCEPT ![c] = s]
    /\ cur' = [cur EXCEPT ![c] = NoExit]
    /\ old' = {e \in old : e.chan # c}
    /\ UNCHANGED <<tip, since, wall, designated, last, hb, faults, history>>

\* The interval of the heartbeat allows this many blocks between two ticks.
NewBlock ==
    /\ tip < MaxHeight /\ since < GapBlocks
    /\ tip' = tip + 1 /\ since' = since + 1
    /\ UNCHANGED <<wall, chans, designated, last, hb, faults, history>>

\* What spends output o leaves of the superseded exits.
Killed(o) == old' = {e \in old : e.fresh # o}

\* What takes output o for other business.
Spend(o) ==
    /\ wallet[o] = "held"
    /\ Cardinality({p \in Out : wallet[p] = "spent"}) < MaxSpends
    /\ wallet' = [wallet EXCEPT ![o] = "spent"] /\ Killed(o)
    /\ UNCHANGED <<tip, since, reserved, st, cur, designated, last, hb, faults,
                   passedOver, left, unguarded>>

\* default_tx_builder: payments and sweeps spare what is reserved.
OrdinarySpend(o) == Spend(o) /\ o \notin reserved /\ UNCHANGED bumped

\* list_confirmed_utxos: the fee bump of a commitment or of a claim, when LDK
\* asks for one, takes any output.
BumpSpend(o) == Spend(o) /\ bumped' = bumped \cup {o}

-----------------------------------------------------------------------------
(* run_deadman_exit_heartbeat *)

\* Mutant: an exit is replaced when it is about to open.
FreshToTheEnd(c, t) == last[c] > t

\* The recorded deadline is more than the margin away.
Fresh(c, t) == last[c] > t + Margin

Monitors == {c \in Chan : st[c] # "none"}

Held == {o \in Out : wallet[o] = "held"}

\* The smallest output but the one to be retired, never the wallet's only one.
Pick == IF Cardinality(Held) < 2 THEN NoOut ELSE Min(Held \ {designated})

\* Mutant: the designated output is open to coin selection.
ReserveNothing(o) == reserved' = reserved

\* reserve_outpoint
Reserve(o) == reserved' = reserved \cup {o}

\* A tick in which no channel is due ends at once.
TickIdle ==
    /\ hb = Idle /\ \A c \in Monitors : Fresh(c, tip)
    /\ since' = 0
    /\ UNCHANGED <<tip, wall, chans, designated, last, hb, faults, history>>

\* The height is not to be had.
TickFails ==
    /\ hb = Idle /\ Fault
    /\ since' = 0
    /\ UNCHANGED <<tip, wall, chans, designated, last, hb, history>>

\* Some channel is due: another output is designated for the exits to come.
StartTick ==
    /\ hb = Idle /\ \E c \in Monitors : ~Fresh(c, tip)
    /\ since' = 0
    /\ hb' = [Idle EXCEPT !.pc = "emit", !.tip = tip, !.prev = designated,
                          !.fresh = Pick, !.todo = Monitors]
    /\ IF Pick = NoOut THEN UNCHANGED <<designated, reserved>>
       ELSE designated' = Pick /\ Reserve(Pick)
    /\ UNCHANGED <<tip, wallet, chans, last, faults, history>>

Tried(c, ok) == hb' = [hb EXCEPT !.todo = @ \ {c}, !.ok = @ /\ ok]
PassOver(c) == hb' = [hb EXCEPT !.todo = @ \ {c}, !.skipped = @ \cup {c}]

\* The record is not open or holds nothing, or the channel is fresh.
Skip(c) ==
    /\ hb.pc = "emit" /\ c \in hb.todo
    /\ ~Open(c) \/ Fresh(c, hb.tip)
    /\ PassOver(c)
    /\ UNCHANGED <<tip, since, wall, chans, designated, last, faults, history>>

Due(c) == hb.pc = "emit" /\ c \in hb.todo /\ Open(c) /\ ~Fresh(c, hb.tip)

\* A read of the record or of the payout key fails, or the exit cannot be signed.
ReadFails(c) ==
    /\ Due(c) /\ Fault
    /\ PassOver(c)
    /\ UNCHANGED <<tip, since, wall, chans, designated, last, history>>

\* An exit that spends this output, or none, may still be mined.
Spendable(o) == o = NoOut \/ wallet[o] = "held"

\* emitDeadManExit: the exit is public, and the one before it superseded.
Emitted(c) ==
    /\ cur' = [cur EXCEPT ![c] = [dl |-> hb.tip + Delta, fresh |-> hb.fresh]]
    /\ old' = IF cur[c] = NoExit \/ ~Spendable(cur[c].fresh) THEN old
              ELSE old \cup {[chan |-> c, dl |-> cur[c].dl, fresh |-> cur[c].fresh]}
    /\ passedOver' = passedOver \ {c}
    /\ UNCHANGED st

Emit(c) ==
    /\ Due(c)
    /\ Emitted(c) /\ last' = [last EXCEPT ![c] = hb.tip + Delta]
    /\ Tried(c, TRUE)
    /\ UNCHANGED <<tip, since, wall, designated, faults, left, unguarded, bumped>>

\* Mutant: a failed emission does not veto the retirement.
SendFailsNoVeto(c) ==
    /\ Due(c) /\ Fault
    /\ UNCHANGED chans
    /\ Tried(c, TRUE)
    /\ UNCHANGED <<tip, since, wall, designated, last, history>>

\* The emission reverts or fails, or is mined and its receipt not read.
SendFails(c) ==
    /\ Due(c) /\ Fault
    /\ Emitted(c) \/ UNCHANGED <<chans, passedOver>>
    /\ Tried(c, FALSE)
    /\ UNCHANGED <<tip, since, wall, designated, last, left, unguarded, bumped>>

LoopOver == hb.pc = "emit" /\ hb.todo = {}

Retirable == hb.ok /\ hb.prev # NoOut /\ hb.fresh \notin {NoOut, hb.prev}

\* Every emission went out: the previous output is spent to the wallet itself,
\* by a transaction that is mined.
Retire ==
    /\ LoopOver /\ Retirable /\ wallet[hb.prev] = "held"
    /\ wallet' = [wallet EXCEPT ![hb.prev] = "retired"] /\ Killed(hb.prev)
    /\ reserved' = reserved \ {hb.prev}
    /\ passedOver' = passedOver \cup hb.skipped
    /\ hb' = Idle
    /\ UNCHANGED <<tip, since, st, cur, designated, last, faults, left, unguarded, bumped>>

\* A veto, too small a wallet, or an output that is gone already.
LeavePrevious ==
    /\ LoopOver /\ ~(Retirable /\ wallet[hb.prev] = "held")
    /\ left' = left \cup ({hb.prev} \ {NoOut})
    /\ hb' = Idle
    /\ UNCHANGED <<tip, since, wall, chans, designated, last, faults, passedOver, unguarded, bumped>>

\* The spend cannot be built or broadcast.
RetireFails ==
    /\ LoopOver /\ Retirable /\ Fault
    /\ left' = left \cup {hb.prev}
    /\ hb' = Idle
    /\ UNCHANGED <<tip, since, wall, chans, designated, last, passedOver, unguarded, bumped>>

\* The spend is broadcast, the output released, and the transaction evicted: the
\* output is in the wallet as before, and nobody reserves it.
RetireEvicted ==
    /\ LoopOver /\ Retirable /\ wallet[hb.prev] = "held" /\ Fault
    /\ reserved' = reserved \ {hb.prev}
    /\ left' = left \cup {hb.prev} /\ unguarded' = unguarded \cup {hb.prev}
    /\ hb' = Idle
    /\ UNCHANGED <<tip, since, wallet, chans, designated, last, passedOver, bumped>>

Restart ==
    /\ Fault
    /\ reserved' = {} /\ last' = [c \in Chan |-> 0] /\ hb' = Idle
    /\ left' = left \cup ({hb.prev} \ {NoOut})
    /\ unguarded' = unguarded \cup reserved
    /\ UNCHANGED <<tip, since, wallet, chans, designated, passedOver, bumped>>

-----------------------------------------------------------------------------
Heartbeat ==
    \/ TickIdle \/ TickFails \/ StartTick
    \/ Retire \/ LeavePrevious \/ RetireFails \/ RetireEvicted
    \/ \E c \in Chan : Skip(c) \/ ReadFails(c) \/ Emit(c) \/ SendFails(c)

Next ==
    \/ Heartbeat \/ NewBlock \/ Restart
    \/ \E c \in Chan : Advance(c) \/ SpendOutpoint(c, "spliced") \/ SpendOutpoint(c, "closed")
    \/ \E o \in Out : OrdinarySpend(o) \/ BumpSpend(o)

Spec == Init /\ [][Next]_vars

-----------------------------------------------------------------------------
Exit == [dl : 0..(MaxHeight + Delta), fresh : Out \cup {NoOut}]

\* Types: the output of a tick is the one designated on disk, and another than
\* the one it replaces.
TypeOK ==
    /\ tip \in 1..MaxHeight /\ since \in 0..GapBlocks
    /\ wallet \in [Out -> {"held", "retired", "spent"}]
    /\ st \in [Chan -> {"none", "funded", "open", "spliced", "closed"}]
    /\ cur \in [Chan -> Exit]
    /\ \A e \in old : e.chan \in Chan /\ [dl |-> e.dl, fresh |-> e.fresh] \in Exit
    /\ designated \in Out \cup {NoOut} /\ reserved \subseteq Out
    /\ last \in [Chan -> 0..(MaxHeight + Delta)]
    /\ hb \in [pc : {"sleep", "emit"}, tip : 0..tip, prev : Out \cup {NoOut},
               fresh : Out \cup {NoOut}, todo : SUBSET Chan, skipped : SUBSET Chan, ok : BOOLEAN]
    /\ hb.fresh # NoOut => hb.fresh # hb.prev /\ designated = hb.fresh
    /\ faults \in 0..MaxFaults
    /\ passedOver \subseteq Chan
    /\ left \subseteq Out /\ unguarded \subseteq Out /\ bumped \subseteq Out

\* Channels whose last exit spends output o.
Backed(o) == {c \in Chan : cur[c] # NoExit /\ cur[c].fresh = o}

\* A retirement never takes the exit of a channel whose emission it tried:
\* one that failed vetoes it, wherever the tick was cut.
RetireSparesTried ==
    \A o \in Out, c \in Chan :
        wallet[o] = "retired" /\ c \in Backed(o) => c \in passedOver

\* "Always future while the fleet is alive": no exit of a live channel opens
\* while the heartbeat runs, the superseded ones included, but for those bound
\* to no output or to one that was replaced and not retired.
NoExitOpens ==
    /\ \A c \in Chan : cur[c] # NoExit /\ cur[c].dl <= tip /\ Spendable(cur[c].fresh) =>
          cur[c].fresh \in left \cup {NoOut}
    /\ \A e \in old : e.dl <= tip => e.fresh \in left \cup {NoOut}

\* A channel the heartbeat takes for fresh has the exit it is fresh by, and the
\* output that exit spends is in the wallet, across failed emissions, restarts
\* and the wallet's other business.  The exceptions are those the code has: a
\* splice came since, which last_cltv does not follow; a tick that passed the
\* channel over retired the output; a restart or an evicted retirement lost its
\* reservation; a fee bump took it.
FreshHasExit ==
    \A c \in Chan : st[c] = "open" /\ Fresh(c, tip) =>
        /\ cur[c].dl = last[c]
        /\ \/ Spendable(cur[c].fresh)
           \/ c \in passedOver
           \/ cur[c].fresh \in unguarded \cup bumped

\* deadman_exit.rs at the retirement: "Every channel has now been re-emitted
\* against the NEW outpoint, so spending the OLD one invalidates exactly the
\* stale generation and nothing else".
RetiresOnlyStale ==
    \A o \in Out : wallet[o] = "retired" => Backed(o) = {}

\* wallet.rs at the reservation: "Outpoints ordinary spending must NEVER
\* consume", for "an incidental spend would silently invalidate every LP's
\* backstop".
ReservedNeverSpent ==
    \A o \in reserved : wallet[o] = "spent" => Backed(o) = {}
==============================================================================
