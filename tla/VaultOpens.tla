----------------------------- MODULE VaultOpens ------------------------------
(***************************************************************************)
(* The vault: an LP onboards and is told a deposit address, its deposit    *)
(* becomes a Lightning channel, and the channel's funding outpoint is      *)
(* bound to the LP so that the open can be mirrored on the EVM.            *)
(*   quid-bridge/src/vault.rs  the registry and the open orchestrator      *)
(*   quid-ln/src/wallet.rs     get_address                                 *)
(* Onboarding requests, deposits, blocks and LDK run beside the            *)
(* orchestrator's tick; a restart keeps the bindings and LDK's funded      *)
(* channels and forgets everything else.                                   *)
(*                                                                         *)
(* Left out: amounts (a deposit is the desired size), the capacity keeping *)
(* at the end of a tick, and the clearing of a binding (ChannelMirror).    *)
(***************************************************************************)
EXTENDS Naturals, Sequences, FiniteSets, FiniteSetsExt

CONSTANTS
    LP,
    MaxDeposits,  \* bound: deposits ever made
    MaxHeight,    \* bound: the Bitcoin tip
    Window,       \* WATCH_WINDOW_BLOCKS
    MinConfs,     \* min_confs
    MaxFaults     \* bound: refused opens, failed negotiations, repeats, restarts

ASSUME VaultAssumption ==
    /\ MaxDeposits \in Nat /\ MaxHeight \in Nat \ {0} /\ Window \in Nat
    /\ MinConfs \in Nat \ {0} /\ MaxFaults \in Nat

\* The wallet's addresses, in the order of their index.
Addr == 1..(MaxDeposits + 1)

VARIABLES
    tip,
    deps,       \* deposits: the n-th, who paid, where, at what height
    told,       \* address -> the LPs it was given to
    seen,       \* the addresses the wallet has seen paid
    again,      \* history: addresses given out after a channel came of them
    watch,      \* by_deposit_addr: address -> its LP and how long it is polled
    opening,    \* user_channel_id -> LP of an open without an outpoint
    nextUid,    \* next_uid
    chans,      \* LDK's channels: uid, the LP and address they were opened for
    bound,      \* by_funding, on disk: channel -> LP
    tick,       \* the orchestrator's tick in progress
    faults,
    restarted   \* history

registry == <<watch, opening, nextUid>>
vars == <<tip, deps, told, seen, again, registry, chans, bound, tick, faults, restarted>>

EmptyMap == [x \in {} |-> 0]
With(f, k, v) == [x \in DOMAIN f \cup {k} |-> IF x = k THEN v ELSE f[x]]
Without(f, k) == [x \in DOMAIN f \ {k} |-> f[x]]
Idle == [pc |-> "sleep", tip |-> 0, todo |-> {}]

Init ==
    /\ tip = 1 /\ deps = {} /\ told = [a \in Addr |-> {}]
    /\ seen = {} /\ again = {}
    /\ watch = EmptyMap /\ opening = EmptyMap /\ nextUid = 0
    /\ chans = <<>> /\ bound = EmptyMap
    /\ tick = Idle /\ faults = 0 /\ restarted = FALSE

Fault == faults < MaxFaults /\ faults' = faults + 1

-----------------------------------------------------------------------------
(* Onboarding, deposits and blocks. *)

\* The wallet syncs on its own, and may lag behind the orchestrator's view.
Sync ==
    /\ seen' = {d.addr : d \in deps}
    /\ UNCHANGED <<tip, deps, told, again, registry, chans, bound, tick, faults, restarted>>

\* next_unused_address
GetAddress == Min(Addr \ seen)

\* register_deposit and rearm_deposit: the watch runs from here.
Armed(l) == [lp |-> l, until |-> tip + Window]

\* deposit_addr_of
Known(l) == {a \in DOMAIN watch : watch[a].lp = l}

\* The wallet has not seen the deposit that became a channel, and gives its
\* address out again: counted with the faults, for it has no end.
Reopened(a) == a \notin DOMAIN watch /\ \E c \in DOMAIN chans : chans[c].addr = a

\* register_lp: the address of a known LP is armed again, another is told the
\* wallet's next unused address.
RegisterLp(l) ==
    /\ \E a \in (IF Known(l) # {} THEN Known(l) ELSE {GetAddress}) :
          /\ watch' = With(watch, a, Armed(l))
          /\ told' = [told EXCEPT ![a] = @ \cup {l}]
          /\ \/ Reopened(a) /\ again' = again \cup {a} /\ Fault
             \/ ~Reopened(a) /\ UNCHANGED <<again, faults>>
    /\ UNCHANGED <<tip, deps, seen, opening, nextUid, chans, bound, tick, restarted>>

\* An LP pays an address it was told, for the first time or again, in the
\* newest block.
Deposit(l, a) ==
    /\ Cardinality(deps) < MaxDeposits /\ l \in told[a]
    /\ deps' = deps \cup {[n |-> Cardinality(deps) + 1, lp |-> l, addr |-> a, h |-> tip]}
    /\ UNCHANGED <<tip, told, seen, again, registry, chans, bound, tick, faults, restarted>>

NewBlock ==
    /\ tip < MaxHeight
    /\ tip' = tip + 1
    /\ UNCHANGED <<deps, told, seen, again, registry, chans, bound, tick, faults, restarted>>

-----------------------------------------------------------------------------
(* run_vault_open_orchestrator *)

\* Mutant: a watch is polled in its last block no more.
PendingBefore == {a \in DOMAIN watch : watch[a].until > tip}

\* pending
Pending == {a \in DOMAIN watch : watch[a].until >= tip}

StartTick ==
    /\ tick = Idle
    /\ tick' = [pc |-> "open", tip |-> tip,
                todo |-> {[addr |-> a, lp |-> watch[a].lp] : a \in Pending}]
    /\ UNCHANGED <<tip, deps, told, seen, again, registry, chans, bound, faults, restarted>>

\* find_confirmed_deposit on the history of the address, at the tip t.
Confirmed(a, t) == \E d \in deps : d.addr = a /\ t >= d.h /\ t - d.h + 1 >= MinConfs

Visited(w) == tick' = [tick EXCEPT !.todo = @ \ {w}]

\* Mutant: the watch survives the open.
MarkOpeningKeeps(a, uid, l) == watch' = watch /\ opening' = With(opening, uid, l)

TakeUid == nextUid' = nextUid + 1

\* mark_opening
MarkOpening(a, uid, l) == watch' = Without(watch, a) /\ opening' = With(opening, uid, l)

\* A confirmed deposit: create_channel, and the address is consumed.
OpenChannel(w) ==
    /\ tick.pc = "open" /\ w \in tick.todo /\ Confirmed(w.addr, tick.tip)
    /\ chans' = Append(chans, [uid |-> nextUid, lp |-> w.lp, addr |-> w.addr, st |-> "new"])
    /\ TakeUid
    /\ MarkOpening(w.addr, nextUid, w.lp)
    /\ Visited(w)
    /\ UNCHANGED <<tip, deps, told, seen, again, bound, faults, restarted>>

\* create_channel refuses: its id is used up and the watch stays.
OpenRefused(w) ==
    /\ tick.pc = "open" /\ w \in tick.todo /\ Confirmed(w.addr, tick.tip) /\ Fault
    /\ nextUid' = nextUid + 1
    /\ Visited(w)
    /\ UNCHANGED <<tip, deps, told, seen, again, watch, opening, chans, bound, restarted>>

\* Nothing confirmed at the address yet.
Skip(w) ==
    /\ tick.pc = "open" /\ w \in tick.todo /\ ~Confirmed(w.addr, tick.tip)
    /\ Visited(w)
    /\ UNCHANGED <<tip, deps, told, seen, again, registry, chans, bound, faults, restarted>>

EndOpens ==
    /\ tick.pc = "open" /\ tick.todo = {}
    /\ tick' = [tick EXCEPT !.pc = "bind"]
    /\ UNCHANGED <<tip, deps, told, seen, again, registry, chans, bound, faults, restarted>>

\* The channels of list_channels with an outpoint and a waiting open's id.
Bindable == {c \in DOMAIN chans : chans[c].st = "funded" /\ chans[c].uid \in DOMAIN opening}

\* Mutant: the outpoint goes to the LP that has waited longest.
BindOldest(c) ==
    /\ tick.pc = "bind" /\ c \in Bindable
    /\ bound' = With(bound, c, opening[Min(DOMAIN opening)])
    /\ opening' = Without(opening, chans[c].uid)
    /\ UNCHANGED <<tip, deps, told, seen, again, watch, nextUid, chans, tick, faults, restarted>>

\* bind_funding: the open is no longer waiting.
BindFunding(c) ==
    /\ tick.pc = "bind" /\ c \in Bindable
    /\ bound' = With(bound, c, opening[chans[c].uid])
    /\ opening' = Without(opening, chans[c].uid)
    /\ UNCHANGED <<tip, deps, told, seen, again, watch, nextUid, chans, tick, faults, restarted>>

\* Mutant: watches that are over are forgotten.
EndTickPrunes ==
    /\ tick.pc = "bind" /\ Bindable = {}
    /\ tick' = Idle
    /\ watch' = [a \in Pending |-> watch[a]]
    /\ UNCHANGED <<tip, deps, told, seen, again, opening, nextUid, chans, bound, faults, restarted>>

EndTick ==
    /\ tick.pc = "bind" /\ Bindable = {}
    /\ tick' = Idle
    /\ UNCHANGED <<tip, deps, told, seen, again, registry, chans, bound, faults, restarted>>

-----------------------------------------------------------------------------
(* LDK and the process. *)

\* The funding transaction is made, or the negotiation fails.
Fund(c) ==
    /\ chans[c].st = "new"
    /\ \/ chans' = [chans EXCEPT ![c].st = "funded"] /\ UNCHANGED faults
       \/ chans' = [chans EXCEPT ![c].st = "gone"] /\ Fault
    /\ UNCHANGED <<tip, deps, told, seen, again, registry, bound, tick, restarted>>

\* LDK forgets the channels that have no funding transaction.
Restart ==
    /\ Fault /\ restarted' = TRUE
    /\ chans' = [c \in DOMAIN chans |->
                   IF chans[c].st = "new" THEN [chans[c] EXCEPT !.st = "gone"] ELSE chans[c]]
    /\ watch' = EmptyMap /\ opening' = EmptyMap /\ nextUid' = 0 /\ tick' = Idle
    /\ UNCHANGED <<tip, deps, told, seen, again, bound>>

-----------------------------------------------------------------------------
Orchestrate ==
    \/ StartTick \/ EndOpens \/ EndTick
    \/ \E w \in tick.todo : OpenChannel(w) \/ OpenRefused(w) \/ Skip(w)
    \/ \E c \in DOMAIN chans : BindFunding(c)

Next ==
    \/ Orchestrate \/ NewBlock \/ Sync \/ Restart
    \/ \E l \in LP : RegisterLp(l) \/ \E a \in Addr : Deposit(l, a)
    \/ \E c \in DOMAIN chans : Fund(c)

Spec == Init /\ [][Next]_vars

\* The orchestrator is a loop.
FairSpec == Spec /\ WF_vars(Orchestrate)

-----------------------------------------------------------------------------
\* Types: an id under opening was taken from the counter before.
TypeOK ==
    /\ tip \in 1..MaxHeight
    /\ deps \subseteq [n : 1..MaxDeposits, lp : LP, addr : Addr, h : 1..MaxHeight]
    /\ told \in [Addr -> SUBSET LP] /\ seen \subseteq Addr /\ again \subseteq Addr
    /\ DOMAIN watch \subseteq Addr
    /\ \A a \in DOMAIN watch : watch[a] \in [lp : LP, until : Nat]
    /\ nextUid \in Nat
    /\ \A u \in DOMAIN opening : u \in Nat /\ u < nextUid /\ opening[u] \in LP
    /\ chans \in Seq([uid : Nat, lp : LP, addr : Addr, st : {"new", "funded", "gone"}])
    /\ DOMAIN bound \subseteq DOMAIN chans /\ \A c \in DOMAIN bound : bound[c] \in LP
    /\ tick \in [pc : {"sleep", "open", "bind"}, tip : 0..tip, todo : SUBSET [addr : Addr, lp : LP]]
    /\ faults \in 0..MaxFaults /\ restarted \in BOOLEAN

\* An address handed to two LPs.
Shared(a) == Cardinality(told[a]) > 1

OpensFor(l) == {c \in DOMAIN chans : chans[c].lp = l}
DepositsOf(l) == {d \in deps : d.lp = l}

\* No LP gets more channels than it made deposits, whatever is armed again,
\* refused or restarted, unless the wallet, which repeats an address until it
\* has seen it paid, handed the LP's address to another LP as well or handed it
\* out again when it had become a channel.
OpensArePaidFor ==
    \A l \in LP : \/ Cardinality(OpensFor(l)) <= Cardinality(DepositsOf(l))
                  \/ \E a \in Addr : l \in told[a] /\ (Shared(a) \/ a \in again)

\* A channel is bound to the LP it was opened for, unless the process was
\* restarted, which starts the ids again under the channels that have them.
BoundToItsLp ==
    \A c \in DOMAIN bound : bound[c] = chans[c].lp \/ restarted

\* The first payment that an address gets.
First(d) == \A e \in deps : e.addr = d.addr => d.n <= e.n

\* "A late deposit can never be orphaned on an address the vault has
\* forgotten": the first deposit at an address becomes a channel of its LP or
\* finds the address on record for it, however late it comes, unless the
\* process was restarted or the address was handed to two LPs. Of a second
\* deposit the claim is false: mark_opening has removed the entry by then.
DepositNotOrphaned ==
    \A d \in deps : First(d) =>
        \/ d.addr \in DOMAIN watch /\ watch[d.addr].lp = d.lp
        \/ \E c \in OpensFor(d.lp) : chans[c].addr = d.addr
        \/ restarted \/ Shared(d.addr)

\* In the end no confirmed deposit is left at an address that is polled, and
\* without a restart every funded channel is bound.
DepositsBecomeOpens ==
    <>[]( /\ \A a \in DOMAIN watch : watch[a].until >= tip => ~Confirmed(a, tip)
          /\ \A c \in DOMAIN chans :
                chans[c].st = "funded" => c \in DOMAIN bound \/ restarted )
==============================================================================
