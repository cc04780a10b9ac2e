---------------------------- MODULE SwapIn_proofs ----------------------------
(***************************************************************************)
(* What the on-chain swap-in rail promises, for every number of addresses, *)
(* blocks and faults and every timelock, headroom and length of a pass:    *)
(* no Bitcoin is taken without a settlement, no seller keeps both          *)
(* undisturbed, and a deposit that comes in time is served.                *)
(***************************************************************************)
EXTENDS SwapIn, FiniteSetTheorems, TLAPS

-----------------------------------------------------------------------------
(* The inductive invariant. *)

\* Addresses are issued in order.
AddrShape == Cardinality(Addr) \in Nat /\ Addr = 1..Cardinality(Addr)

\* A pass knows when it began; the deposit it drives is paid, within the
\* headroom until the claim, and its transaction used from the settle on.
PassShape ==
    /\ pass.pc = "idle" => pass = Idle
    /\ pass.pc # "idle" => tip = pass.tip + ticks /\ ticks <= PassBlocks
    /\ pass.pc \in {"settle", "claim"} => cltv[Driven] >= pass.tip + Headroom
    /\ pass.pc \in {"settle", "claim", "drop"} => dep[Driven] # Unpaid
    /\ pass.pc \in {"claim", "drop"} => dep[Driven].tx \in used \ unlogged
    /\ pass.pc = "drop" => spend[Driven] # "unspent"

\* Only what was paid is spent or credited, only what the contract has used is
\* taken, and what it has used was credited to someone or was a swap-out's id.
OnlyPaid ==
    /\ \A a \in Addr : /\ dep[a] # Unpaid => dep[a].tx \in Addr
                       /\ spend[a] # "unspent" => dep[a] # Unpaid
                       /\ a \in credited => dep[a] # Unpaid
                       /\ spend[a] \in {"mempool", "stuck", "hop"} => dep[a].tx \in used \ unlogged
    /\ \A t \in used : t \in reversed \cup unlogged \/ \E b \in credited : dep[b].tx = t

\* A deposit that was credited and not taken yet is the one the pass is about
\* to claim, unless it was disturbed.
CreditedIsClaimed ==
    \A a \in Addr : /\ spend[a] = "stuck" => a \in troubled
                    /\ spend[a] = "user" => tip >= cltv[a]
                    /\ a \in credited /\ spend[a] = "unspent" /\ a \notin troubled =>
                          pass.pc = "claim" /\ Driven = a

\* The index of a new registration is not in use, on disk or in the snapshot.
IndexFree ==
    /\ \A i \in DOMAIN registry : i < next
    /\ \A e \in pass.todo : /\ e.idx < next
                            /\ e.idx \in DOMAIN registry => registry[e.idx] = e.addr

\* A deposit that is not taken stays registered until its timelock.
StaysRegistered ==
    \A a \in Addr : spend[a] = "unspent" =>
        tip >= cltv[a] \/ \E i \in DOMAIN registry : registry[i] = a

\* The height at which a deposit is buried.
Buried(a) == dep[a].h + MinConfs - 1

\* A deposit buried in time was not when the last pass began, or is in the
\* snapshot of a pass that began in time, unless its settlement must fail.
TurnComes ==
    \A a \in Addr :
        dep[a] # Unpaid /\ spend[a] = "unspent" /\ a \notin troubled /\ dep[a].tx \notin unlogged
        /\ Buried(a) + GapBlocks <= LastCall(a) =>
            \/ tip <= Buried(a) + ticks
            \/ /\ pass.pc # "idle" /\ pass.tip <= LastCall(a)
               /\ \E e \in pass.todo : e.addr = a

SwapInInv ==
    /\ TypeOK /\ AddrShape /\ PassShape /\ OnlyPaid /\ CreditedIsClaimed /\ PaidForInBitcoin
    /\ IndexFree /\ StaysRegistered /\ TurnComes /\ EarlyDepositServed

-----------------------------------------------------------------------------
(* Lemmas. *)

\* A set of naturals has the minimum that Min returns.
LEMMA MinOfNaturals ==
    ASSUME NEW S \in SUBSET Nat, S # {}
    PROVE  Min(S) \in S /\ \A y \in S : Min(S) <= y
<1> DEFINE R == {p \in Nat \X Nat : p[1] < p[2]}
<1>1. IsWellFoundedOn(R, Nat)
  BY NatLessThanWellFounded DEF OpToRel
<1>2. \A x, y \in Nat : x < y => <<x, y>> \in R
  OBVIOUS
<1> HIDE DEF R
<1>3. PICK x \in S : \A y \in S : ~(<<y, x>> \in R)
  BY <1>1, WFMin
<1>4. ASSUME NEW y \in S PROVE x <= y
  <2>1. ~(y < x)
    BY <1>2, <1>3
  <2>2. QED
    BY <2>1
<1>5. QED
  BY <1>4 DEF Min

\* A bounded set of naturals has the maximum that Max returns.
LEMMA MaxOfNaturals ==
    ASSUME NEW S \in SUBSET Nat, S # {}, NEW n \in Nat, \A x \in S : x < n
    PROVE  Max(S) \in S /\ \A y \in S : y <= Max(S)
<1> DEFINE U == {k \in Nat : \A x \in S : x <= k}
           m == Min(U)
<1>1. U \in SUBSET Nat /\ U # {}
  OBVIOUS
<1>2. m \in U /\ \A k \in U : m <= k
  BY <1>1, MinOfNaturals
<1> HIDE DEF m
<1>3. m \in S
  <2>1. SUFFICES ASSUME m \notin S PROVE FALSE
    OBVIOUS
  <2>2. \A x \in S : x < m
    BY <1>2, <2>1
  <2>3. m - 1 \in Nat /\ \A x \in S : x <= m - 1
    <3>1. PICK x \in S : TRUE
      OBVIOUS
    <3>2. m \in Nat /\ x < m
      BY <1>2, <2>2
    <3>3. QED
      BY <2>2, <3>2
  <2>4. QED
    BY <1>2, <2>3
<1>4. \A y \in S : y <= m
  BY <1>2
<1>5. QED
  BY <1>3, <1>4 DEF Max

\* Removing a key from a map.
LEMMA WithoutType ==
    ASSUME NEW S, NEW T, NEW f \in [S -> T], NEW k
    PROVE  Without(f, k) \in [S \ {k} -> T]
  BY DEF Without

\* A registration issues an address that is new.
NewAddr == Cardinality(Addr) + 1

LEMMA RegisterFacts ==
    ASSUME AddrShape, Register
    PROVE  /\ cltv' = With(cltv, NewAddr, tip + Window) /\ dep' = With(dep, NewAddr, Unpaid)
           /\ spend' = With(spend, NewAddr, "unspent") /\ registry' = With(registry, next, NewAddr)
           /\ next' = next + 1 /\ tip + Window <= MaxHeight
           /\ UNCHANGED <<tip, evm, pass, ticks, faults, troubled>>
           /\ NewAddr \notin Addr /\ NewAddr \in Nat /\ Addr' = Addr \cup {NewAddr}
<1>1. NewAddr \notin Addr /\ NewAddr \in Nat
  BY DEF AddrShape, NewAddr
<1>2. cltv' = With(cltv, NewAddr, tip + Window)
  BY DEF Register, NewAddr
<1>3. QED
  BY <1>1, <1>2 DEF With, Register, NewAddr, Addr

-----------------------------------------------------------------------------
(* Types. *)

\* The type invariant, in three parts.
PassTyped ==
    /\ pass \in [pc : {"idle", "scan", "settle", "claim", "drop"}, tip : 0..tip,
                 todo : SUBSET [idx : Nat, addr : Addr],
                 entry : [idx : Nat, addr : Addr] \cup {NoEntry}]
    /\ pass.pc \in {"settle", "claim", "drop"} => pass.entry \in pass.todo

RegistryTyped == registry \in [DOMAIN registry -> Addr] /\ DOMAIN registry \subseteq Nat /\ next \in Nat

RestTyped ==
    /\ tip \in 1..MaxHeight /\ cltv \in [Addr -> 1..MaxHeight]
    /\ dep \in [Addr -> [tx : {0} \cup Addr, h : 0..MaxHeight]]
    /\ spend \in [Addr -> {"unspent", "mempool", "stuck", "hop", "user"}]
    /\ used \subseteq Addr /\ reversed \subseteq used /\ unlogged \subseteq used
    /\ credited \subseteq Addr
    /\ ticks \in 0..GapBlocks /\ faults \in 0..MaxFaults /\ troubled \subseteq Addr

LEMMA TypeOKParts == TypeOK <=> PassTyped /\ RegistryTyped /\ RestTyped
  BY DEF TypeOK, PassTyped, RegistryTyped, RestTyped

\* What leaving an entry does to the pass.
LEMMA LeaveFacts ==
    ASSUME PassTyped, NEW e, pass' = Leave(e)
    PROVE  /\ pass'.pc = "scan" /\ pass'.tip = pass.tip /\ pass'.todo = pass.todo \ {e}
           /\ pass' = [pc |-> "scan", tip |-> pass.tip, todo |-> pass.todo \ {e}, entry |-> NoEntry]
  BY DEF PassTyped, Leave

LEMMA LeaveTyped ==
    ASSUME PassTyped, NEW e, pass' = Leave(e), tip' = tip, Addr' = Addr
    PROVE  PassTyped'
  BY LeaveFacts DEF PassTyped

\* The next step of the pass about the same entry.
LEMMA AdvanceFacts ==
    ASSUME PassTyped, NEW pc \in {"claim", "drop"}, pass' = [pass EXCEPT !.pc = pc]
    PROVE  /\ pass'.pc = pc /\ pass'.tip = pass.tip /\ pass'.todo = pass.todo
           /\ pass'.entry = pass.entry
           /\ pass' = [pc |-> pc, tip |-> pass.tip, todo |-> pass.todo, entry |-> pass.entry]
  BY DEF PassTyped

LEMMA AdvanceTyped ==
    ASSUME PassTyped, NEW pc \in {"claim", "drop"}, pass' = [pass EXCEPT !.pc = pc],
           pass.pc \in {"settle", "claim"}, tip' = tip, Addr' = Addr
    PROVE  PassTyped'
  BY AdvanceFacts DEF PassTyped

\* The pass works on entries of its own.
LEMMA PassTypes ==
    ASSUME TypeOK
    PROVE  /\ pass.pc \in {"idle", "scan", "settle", "claim", "drop"} /\ pass.tip \in Nat
           /\ pass.tip <= tip /\ tip \in Nat /\ ticks \in Nat /\ ticks <= GapBlocks
           /\ \A e \in pass.todo : e.idx \in Nat /\ e.addr \in Addr
           /\ pass.pc \in {"settle", "claim", "drop"} => pass.entry \in pass.todo /\ Driven \in Addr
           /\ \A a \in Addr : cltv[a] \in Nat /\ dep[a].h \in Nat /\ dep[a].tx \in {0} \cup Addr
  BY SwapInAssumption DEF TypeOK, Driven

\* The counter a restart computes is above every index on disk.
LEMMA SeedFacts ==
    ASSUME RegistryTyped, IndexFree
    PROVE  NextIndexSeed \in Nat /\ \A i \in DOMAIN registry : i < NextIndexSeed
<1>1. CASE DOMAIN registry = {}
  BY <1>1 DEF NextIndexSeed
<1>2. CASE DOMAIN registry # {}
  <2>1. /\ DOMAIN registry \in SUBSET Nat /\ next \in Nat
        /\ \A i \in DOMAIN registry : i < next
    BY DEF RegistryTyped, IndexFree
  <2>2. /\ Max(DOMAIN registry) \in DOMAIN registry
        /\ \A i \in DOMAIN registry : i <= Max(DOMAIN registry)
    BY <1>2, <2>1, MaxOfNaturals
  <2>3. Max(DOMAIN registry) \in Nat
    BY <2>1, <2>2
  <2>4. QED
    BY <1>2, <2>1, <2>2, <2>3 DEF NextIndexSeed
<1>3. QED
  BY <1>1, <1>2

\* Every step keeps the types.
LEMMA TypeStep == TypeOK /\ AddrShape /\ PassShape /\ OnlyPaid /\ IndexFree /\ [Next]_vars => TypeOK'
<1> SUFFICES ASSUME TypeOK, AddrShape, PassShape, OnlyPaid, IndexFree, [Next]_vars
             PROVE  PassTyped' /\ RegistryTyped' /\ RestTyped'
  BY DEF TypeOK, PassTyped, RegistryTyped, RestTyped
<1> DEFINE Goal == PassTyped' /\ RegistryTyped' /\ RestTyped'
<1>0. PassTyped /\ RegistryTyped /\ RestTyped
  BY TypeOKParts
<1> USE <1>0, SwapInAssumption
<1>1. CASE Register
  <2>1. Addr' = Addr \cup {NewAddr} /\ NewAddr \in Nat
    BY <1>1, RegisterFacts
  <2>2. cltv' \in [Addr' -> 1..MaxHeight]
    <3>1. tip + Window \in 1..MaxHeight
      BY <1>1, RegisterFacts DEF RestTyped
    <3>2. QED
      BY <1>1, <2>1, <3>1, RegisterFacts DEF With, RestTyped
  <2>3. dep' \in [Addr' -> [tx : {0} \cup Addr', h : 0..MaxHeight]]
    <3>1. dep \in [Addr -> [tx : {0} \cup Addr', h : 0..MaxHeight]]
      BY <2>1 DEF RestTyped
    <3>2. Unpaid \in [tx : {0} \cup Addr', h : 0..MaxHeight]
      BY DEF Unpaid
    <3>3. QED
      BY <1>1, <2>1, <3>1, <3>2, RegisterFacts DEF With
  <2>4. spend' \in [Addr' -> {"unspent", "mempool", "stuck", "hop", "user"}]
    BY <1>1, <2>1, RegisterFacts DEF With, RestTyped
  <2>5. RegistryTyped'
    <3>1. registry \in [DOMAIN registry -> Addr'] /\ NewAddr \in Addr'
      BY <2>1 DEF RegistryTyped
    <3>2. registry' \in [DOMAIN registry \cup {next} -> Addr']
      BY <1>1, <3>1, RegisterFacts DEF With
    <3>3. QED
      BY <1>1, <3>2, RegisterFacts DEF RegistryTyped
  <2>6. PassTyped'
    <3>1. pass' = pass /\ tip' = tip
      BY <1>1, RegisterFacts
    <3>2. [idx : Nat, addr : Addr] \subseteq [idx : Nat, addr : Addr']
      BY <2>1
    <3>3. QED
      BY <3>1, <3>2 DEF PassTyped
  <2>7. QED
    BY <1>1, <2>1, <2>2, <2>3, <2>4, <2>5, <2>6, RegisterFacts DEF RestTyped, evm
<1>2. ASSUME NEW A \in SUBSET Addr, Pay(A) PROVE Goal
  <2>1. A \in SUBSET Nat
    BY DEF AddrShape
  <2>2. Min(A) \in A
    BY <1>2, <2>1, MinOfNaturals DEF Pay
  <2>3. QED
    BY <1>2, <2>2 DEF PassTyped, RegistryTyped, RestTyped, Pay, evm, Addr
<1>3. CASE NewBlock
  BY <1>3 DEF PassTyped, RegistryTyped, RestTyped, NewBlock, evm, Addr
<1>4. ASSUME NEW a \in Addr, UserRefund(a) PROVE Goal
  BY <1>4 DEF PassTyped, RegistryTyped, RestTyped, UserRefund, evm, Addr
<1>5. CASE StartPass
  <2>1. Entries \in SUBSET [idx : Nat, addr : Addr]
    BY DEF Entries, RegistryTyped
  <2>2. PassTyped'
    BY <1>5, <2>1 DEF StartPass, PassTyped, RestTyped, chain, Addr
  <2>3. QED
    BY <1>5, <2>2 DEF RegistryTyped, RestTyped, StartPass, Fault, Sound, chain, evm, Addr
<1>6. CASE EndPass
  <2>1. PassTyped'
    BY <1>6 DEF EndPass, PassTyped, RestTyped, Idle, chain, Addr
  <2>2. QED
    BY <1>6, <2>1 DEF RegistryTyped, RestTyped, EndPass, Sound, chain, evm, Addr
<1>7. ASSUME NEW e \in pass.todo, Visit(e) PROVE Goal
  <2>1. tip' = tip /\ Addr' = Addr /\ RestTyped' /\ next' = next
    BY <1>7 DEF RestTyped, Visit, Sound, chain, evm, Addr
  <2>2. PassTyped'
    <3>1. CASE pass' = Leave(e)
      BY <2>1, <3>1, LeaveTyped
    <3>2. CASE pass' = [pass EXCEPT !.pc = "settle", !.entry = e]
      BY <2>1, <3>2 DEF PassTyped
    <3>3. QED
      BY <1>7, <3>1, <3>2 DEF Visit
  <2>3. RegistryTyped'
    <3>1. CASE registry' = registry
      BY <2>1, <3>1 DEF RegistryTyped
    <3>2. CASE registry' = Without(registry, e.idx)
      <4>1. registry' \in [DOMAIN registry \ {e.idx} -> Addr]
        BY <3>2, WithoutType DEF RegistryTyped
      <4>2. QED
        BY <2>1, <4>1 DEF RegistryTyped
    <3>3. QED
      BY <1>7, <3>1, <3>2 DEF Visit
  <2>4. QED
    BY <2>1, <2>2, <2>3
<1>8. ASSUME NEW e \in pass.todo, VisitFails(e) PROVE Goal
  <2>1. e.addr \in Addr
    BY PassTypes
  <2>2. tip' = tip /\ Addr' = Addr /\ RestTyped' /\ RegistryTyped'
    BY <1>8, <2>1 DEF RestTyped, RegistryTyped, VisitFails, Fault, chain, evm, Addr
  <2>3. QED
    BY <1>8, <2>2, LeaveTyped DEF VisitFails
<1>9. CASE Settle
  <2>1. Driven \in Addr /\ dep[Driven].tx \in Addr
    BY <1>9, PassTypes DEF Settle, PassShape, OnlyPaid
  <2>2. used' \subseteq Addr /\ credited' \subseteq Addr /\ used \subseteq used'
    BY <1>9, <2>1 DEF Settle, RestTyped
  <2>3. tip' = tip /\ Addr' = Addr /\ RestTyped' /\ RegistryTyped'
    BY <1>9, <2>1, <2>2 DEF RestTyped, RegistryTyped, Settle, Fault, Sound, chain, Addr
  <2>4. QED
    BY <1>9, <2>3, LeaveTyped, AdvanceTyped DEF Settle
<1>10. CASE SettleFails \/ BroadcastFails
  <2>1. Driven \in Addr
    BY <1>10, PassTypes DEF SettleFails, BroadcastFails
  <2>2. tip' = tip /\ Addr' = Addr /\ RestTyped' /\ RegistryTyped'
    BY <1>10, <2>1
       DEF RestTyped, RegistryTyped, SettleFails, BroadcastFails, Fault, chain, evm, Addr
  <2>3. QED
    BY <1>10, <2>2, LeaveTyped DEF SettleFails, BroadcastFails
<1>11. CASE BroadcastClaim
  <2>1. Driven \in Addr
    BY <1>11, PassTypes DEF BroadcastClaim
  <2>2. spend' \in [Addr -> {"unspent", "mempool", "stuck", "hop", "user"}]
    BY <1>11 DEF BroadcastClaim, RestTyped
  <2>3. tip' = tip /\ Addr' = Addr /\ RestTyped' /\ RegistryTyped'
    BY <1>11, <2>1, <2>2 DEF RestTyped, RegistryTyped, BroadcastClaim, Fault, Sound, evm, Addr
  <2>4. QED
    BY <1>11, <2>3, LeaveTyped, AdvanceTyped DEF BroadcastClaim
<1>12. CASE Drop
  <2>1. registry' \in [DOMAIN registry \ {pass.entry.idx} -> Addr]
    BY <1>12, WithoutType DEF Drop, RegistryTyped
  <2>2. tip' = tip /\ Addr' = Addr /\ RestTyped' /\ RegistryTyped'
    BY <1>12, <2>1 DEF RestTyped, RegistryTyped, Drop, Sound, chain, evm, Addr
  <2>3. QED
    BY <1>12, <2>2, LeaveTyped DEF Drop
<1>13. CASE Restart
  <2>1. NextIndexSeed \in Nat
    BY SeedFacts
  <2>2. {e.addr : e \in pass.todo} \subseteq Addr
    BY PassTypes
  <2>3. PassTyped'
    BY <1>13 DEF Restart, PassTyped, RestTyped, Idle, chain, Addr
  <2>4. QED
    BY <1>13, <2>1, <2>2, <2>3 DEF RestTyped, RegistryTyped, Restart, Fault, chain, evm, Addr
<1>14. CASE UNCHANGED vars
  BY <1>14 DEF PassTyped, RegistryTyped, RestTyped, vars, chain, evm, Addr
<1>15. ASSUME NEW a \in Addr, SwapOutSettled(a) PROVE Goal
  BY <1>15 DEF PassTyped, RegistryTyped, RestTyped, SwapOutSettled, chain, Addr
<1> QED
  BY <1>1, <1>2, <1>3, <1>4, <1>5, <1>6, <1>7, <1>8, <1>9, <1>10, <1>11, <1>12, <1>13, <1>14, <1>15
     DEF Next, Sweep

-----------------------------------------------------------------------------
(* The invariant, part by part. *)

\* Addresses stay an interval.
LEMMA AddrStep == TypeOK /\ AddrShape /\ [Next]_vars => AddrShape'
<1> SUFFICES ASSUME TypeOK, AddrShape, [Next]_vars PROVE AddrShape'
  OBVIOUS
<1>1. CASE Register
  <2>1. Addr' = Addr \cup {NewAddr}
    BY <1>1, RegisterFacts
  <2>2. Cardinality(Addr) \in Nat /\ Addr = 1..Cardinality(Addr)
    BY DEF AddrShape
  <2>3. Addr' = 1..NewAddr /\ NewAddr \in Nat \ {0}
    BY <2>1, <2>2 DEF NewAddr
  <2>4. Cardinality(1..NewAddr) = NewAddr
    BY <2>3, FS_Interval
  <2>5. QED
    BY <2>3, <2>4 DEF AddrShape
<1>2. CASE UNCHANGED cltv
  BY <1>2 DEF AddrShape, Addr
<1>3. QED
  BY <1>1, <1>2
     DEF Next, Sweep, Pay, NewBlock, UserRefund, SwapOutSettled, StartPass, EndPass, Visit,
         VisitFails, Settle, SettleFails, BroadcastClaim, BroadcastFails, Drop, Restart, vars, chain

\* What a registration leaves alone.
LEMMA RegisterKeeps ==
    ASSUME TypeOK, AddrShape, Register
    PROVE  /\ \A a \in Addr : cltv'[a] = cltv[a] /\ dep'[a] = dep[a] /\ spend'[a] = spend[a]
           /\ cltv'[NewAddr] = tip + Window /\ dep'[NewAddr] = Unpaid /\ spend'[NewAddr] = "unspent"
           /\ NewAddr \notin credited /\ NewAddr \notin Addr /\ Addr' = Addr \cup {NewAddr}
           /\ DOMAIN registry' = DOMAIN registry \cup {next} /\ registry'[next] = NewAddr
           /\ \A i \in DOMAIN registry : i # next => registry'[i] = registry[i]
           /\ UNCHANGED <<tip, evm, pass, ticks, faults, troubled>> /\ next' = next + 1
  BY RegisterFacts DEF With, TypeOK, Addr

\* What a payment leaves alone.
LEMMA PayKeeps ==
    ASSUME TypeOK, AddrShape, NEW A \in SUBSET Addr, Pay(A)
    PROVE  /\ \A a \in Addr : dep[a] # Unpaid => dep'[a] = dep[a]
           /\ \A a \in Addr : dep'[a] # dep[a] => dep'[a].h = tip /\ dep'[a].tx \in Addr
           /\ UNCHANGED <<tip, cltv, spend, evm, registry, next, pass, ticks, faults, troubled>>
<1>1. A \in SUBSET Nat
  BY DEF AddrShape
<1>2. Min(A) \in A
  BY <1>1, MinOfNaturals DEF Pay
<1>3. QED
  BY <1>2 DEF Pay, TypeOK

\* What the settlement of a swap-out leaves alone.
LEMMA SwapOutKeeps ==
    ASSUME NEW a, SwapOutSettled(a)
    PROVE  /\ a \notin used /\ used' = used \cup {a}
           /\ reversed' \cup unlogged' = reversed \cup unlogged \cup {a}
           /\ reversed \subseteq reversed' /\ unlogged \subseteq unlogged'
           /\ unlogged' \subseteq unlogged \cup {a}
           /\ UNCHANGED <<tip, cltv, dep, spend, credited, registry, next, pass, ticks, troubled>>
  BY DEF SwapOutSettled, chain

\* The tip does not move in a step of the hop.
LEMMA SweepKeeps ==
    ASSUME Sweep \/ Restart
    PROVE  UNCHANGED <<tip, cltv, dep>>
  BY DEF Sweep, Restart, StartPass, EndPass, Visit, VisitFails, Settle, SettleFails, BroadcastClaim,
         BroadcastFails, Drop, chain

\* A pass stays about a deposit that was paid in time.
LEMMA PassStep == TypeOK /\ AddrShape /\ PassShape /\ OnlyPaid /\ [Next]_vars => PassShape'
<1> SUFFICES ASSUME TypeOK, AddrShape, PassShape, OnlyPaid, [Next]_vars PROVE PassShape'
  OBVIOUS
<1>0. PassTyped
  BY TypeOKParts
<1> USE <1>0, PassTypes, SwapInAssumption DEF PassShape, Driven
<1>1. CASE Register
  BY <1>1, RegisterKeeps DEF evm
<1>2. ASSUME NEW A \in SUBSET Addr, Pay(A) PROVE PassShape'
  BY <1>2, PayKeeps DEF evm
<1>3. CASE NewBlock
  <2>1. pass.pc = "drop" => spend'[Driven] # "unspent"
    BY <1>3 DEF NewBlock, TypeOK
  <2>2. pass.pc # "idle" => ticks < PassBlocks
    BY <1>3 DEF NewBlock, Idle
  <2>3. QED
    BY <1>3, <2>1, <2>2 DEF NewBlock, evm
<1>4. ASSUME NEW a \in Addr, UserRefund(a) PROVE PassShape'
  BY <1>4 DEF UserRefund, evm, TypeOK
<1>5. CASE StartPass
  BY <1>5 DEF StartPass, chain, evm, Idle
<1>6. CASE EndPass
  BY <1>6 DEF EndPass, Idle
<1>7. ASSUME NEW e \in pass.todo, Visit(e) PROVE PassShape'
  <2>1. CASE pass' = Leave(e)
    BY <1>7, <2>1, LeaveFacts DEF Visit, chain
  <2>2. CASE /\ pass' = [pass EXCEPT !.pc = "settle", !.entry = e]
             /\ Confirmed(e.addr) /\ CltvHeadroomOk(e.addr)
    <3>1. pass'.pc = "settle" /\ pass'.entry = e /\ pass'.tip = pass.tip
      BY <2>2 DEF PassTyped
    <3>2. QED
      BY <1>7, <2>2, <3>1 DEF Visit, chain, Confirmed, CltvHeadroomOk
  <2>3. QED
    BY <1>7, <2>1, <2>2 DEF Visit
<1>8. ASSUME NEW e \in pass.todo, VisitFails(e) PROVE PassShape'
  BY <1>8, LeaveFacts DEF VisitFails, chain
<1>9. CASE Settle
  <2>1. dep[Driven].tx \in used' /\ UNCHANGED <<tip, cltv, dep, spend, ticks, unlogged>>
    BY <1>9 DEF Settle, chain
  <2>2. CASE pass' = [pass EXCEPT !.pc = "claim"] /\ dep[Driven].tx \notin unlogged
    BY <1>9, <2>1, <2>2, AdvanceFacts DEF Settle
  <2>3. CASE pass' = Leave(pass.entry)
    BY <1>9, <2>1, <2>3, LeaveFacts DEF Settle
  <2>4. QED
    BY <1>9, <2>2, <2>3 DEF Settle
<1>10. CASE SettleFails \/ BroadcastFails
  BY <1>10, LeaveFacts DEF SettleFails, BroadcastFails, chain
<1>11. CASE BroadcastClaim
  <2>1. UNCHANGED <<tip, cltv, dep, used, unlogged, ticks>>
    BY <1>11 DEF BroadcastClaim, evm
  <2>2. CASE pass' = [pass EXCEPT !.pc = "drop"] /\ spend'[Driven] # "unspent"
    BY <1>11, <2>1, <2>2, AdvanceFacts DEF BroadcastClaim
  <2>3. CASE pass' = Leave(pass.entry)
    BY <1>11, <2>1, <2>3, LeaveFacts DEF BroadcastClaim
  <2>4. QED
    BY <1>11, <2>2, <2>3 DEF BroadcastClaim, TypeOK
<1>12. CASE Drop
  BY <1>12, LeaveFacts DEF Drop, chain
<1>13. CASE Restart
  BY <1>13 DEF Restart, Idle
<1>14. CASE UNCHANGED vars
  BY <1>14 DEF vars, chain, evm
<1>15. ASSUME NEW a \in Addr, SwapOutSettled(a) PROVE PassShape'
  BY <1>15, SwapOutKeeps
<1> QED
  BY <1>1, <1>2, <1>3, <1>4, <1>5, <1>6, <1>7, <1>8, <1>9, <1>10, <1>11, <1>12, <1>13, <1>14, <1>15
     DEF Next, Sweep

\* Steps of the hop about the registry and the snapshot alone.
LEMMA BookSteps ==
    ASSUME EndPass \/ Drop \/ \E e \in pass.todo : Visit(e)
    PROVE  UNCHANGED <<tip, cltv, dep, spend, evm, ticks, faults, troubled>>
  BY DEF EndPass, Drop, Visit, Sound, chain

\* Steps of the hop that fail.
LEMMA FailSteps ==
    ASSUME SettleFails \/ BroadcastFails \/ Restart \/ \E e \in pass.todo : VisitFails(e)
    PROVE  /\ UNCHANGED <<tip, cltv, dep, spend, evm, registry, ticks>>
           /\ troubled \subseteq troubled'
  BY DEF SettleFails, BroadcastFails, Restart, VisitFails, Fault, chain

\* Only paid deposits are spent and credited, and used transactions credited.
LEMMA PaidStep == TypeOK /\ AddrShape /\ PassShape /\ OnlyPaid /\ [Next]_vars => OnlyPaid'
<1> SUFFICES ASSUME TypeOK, AddrShape, PassShape, OnlyPaid, [Next]_vars PROVE OnlyPaid'
  OBVIOUS
<1>1. CASE Register
  <2>1. NewAddr \notin credited /\ credited \subseteq Addr
    BY <1>1, RegisterKeeps DEF TypeOK
  <2>2. \A a \in Addr' : /\ dep'[a] # Unpaid => dep'[a].tx \in Addr'
                         /\ spend'[a] # "unspent" => dep'[a] # Unpaid
                         /\ a \in credited => dep'[a] # Unpaid
                         /\ spend'[a] \in {"mempool", "stuck", "hop"} => dep'[a].tx \in used \ unlogged
    BY <1>1, <2>1, RegisterKeeps DEF OnlyPaid
  <2>3. \A t \in used : t \in reversed \cup unlogged \/ \E b \in credited : dep'[b].tx = t
    BY <1>1, <2>1, RegisterKeeps DEF OnlyPaid
  <2>4. QED
    BY <1>1, <2>2, <2>3, RegisterKeeps DEF OnlyPaid, evm
<1>2. ASSUME NEW A \in SUBSET Addr, Pay(A) PROVE OnlyPaid'
  <2>1. \A a \in Addr : dep[a] # Unpaid => dep'[a] = dep[a]
    BY <1>2, PayKeeps
  <2>2. \A a \in Addr : dep'[a] # Unpaid => dep'[a].tx \in Addr
    BY <1>2, PayKeeps DEF OnlyPaid
  <2>3. \A a \in Addr : spend[a] # "unspent" \/ a \in credited => dep'[a] = dep[a] /\ dep[a] # Unpaid
    BY <2>1 DEF OnlyPaid
  <2>4. \A t \in used : t \in reversed \cup unlogged \/ \E b \in credited : dep'[b].tx = t
    BY <2>3 DEF OnlyPaid, TypeOK
  <2>5. UNCHANGED <<cltv, spend, evm>>
    BY <1>2, PayKeeps
  <2>6. \A a \in Addr : spend[a] \in {"mempool", "stuck", "hop"} => dep'[a].tx \in used \ unlogged
    BY <2>3 DEF OnlyPaid
  <2>7. QED
    BY <2>2, <2>3, <2>4, <2>5, <2>6 DEF OnlyPaid, Addr, evm
<1>3. CASE NewBlock
  <2>1. \A a \in Addr : spend'[a] = spend[a] \/ (spend[a] = "mempool" /\ spend'[a] = "hop")
    BY <1>3 DEF NewBlock
  <2>2. QED
    BY <1>3, <2>1 DEF OnlyPaid, NewBlock, evm, Addr
<1>4. ASSUME NEW a \in Addr, UserRefund(a) PROVE OnlyPaid'
  BY <1>4 DEF OnlyPaid, UserRefund, evm, Addr, TypeOK
<1>5. CASE StartPass
  BY <1>5 DEF StartPass, OnlyPaid, chain, evm, Addr
<1>6. CASE EndPass \/ Drop \/ \E e \in pass.todo : Visit(e)
  BY <1>6, BookSteps DEF OnlyPaid, Addr, evm
<1>7. CASE Settle
  <2>1. UNCHANGED <<cltv, dep, spend, reversed, unlogged>> /\ Driven \in Addr /\ dep[Driven] # Unpaid
    BY <1>7, PassTypes DEF Settle, PassShape, chain
  <2>2. /\ used' = used \cup {dep[Driven].tx}
        /\ credited' = IF dep[Driven].tx \in used THEN credited ELSE credited \cup {Driven}
    BY <1>7 DEF Settle
  <2>3. QED
    BY <2>1, <2>2 DEF OnlyPaid, Addr
<1>8. CASE SettleFails \/ BroadcastFails \/ Restart \/ \E e \in pass.todo : VisitFails(e)
  BY <1>8, FailSteps DEF OnlyPaid, Addr, evm
<1>9. CASE BroadcastClaim
  <2>1. UNCHANGED <<cltv, dep, used, reversed, unlogged, credited>> /\ Driven \in Addr
        /\ dep[Driven] # Unpaid /\ dep[Driven].tx \in used \ unlogged
    BY <1>9, PassTypes DEF BroadcastClaim, PassShape, evm
  <2>2. \A a \in Addr : a # Driven => spend'[a] = spend[a]
    BY <1>9 DEF BroadcastClaim, TypeOK
  <2>3. QED
    BY <2>1, <2>2 DEF OnlyPaid, Addr
<1>10. CASE UNCHANGED vars
  BY <1>10 DEF OnlyPaid, vars, chain, evm, Addr
<1>11. ASSUME NEW a \in Addr, SwapOutSettled(a) PROVE OnlyPaid'
  BY <1>11, SwapOutKeeps DEF OnlyPaid, Addr
<1> QED
  BY <1>1, <1>2, <1>3, <1>4, <1>5, <1>6, <1>7, <1>8, <1>9, <1>10, <1>11 DEF Next, Sweep

\* A pass that is before its claim is before the timelock.
LEMMA ClaimIsEarly ==
    ASSUME TypeOK, PassShape, pass.pc \in {"settle", "claim"}
    PROVE  tip < cltv[Driven]
  BY PassTypes, SwapInAssumption DEF PassShape

\* An undisturbed credit leads to a claim, and so no seller keeps both.
LEMMA CreditStep ==
    TypeOK /\ AddrShape /\ PassShape /\ CreditedIsClaimed /\ PaidForInBitcoin /\ [Next]_vars
        => CreditedIsClaimed' /\ PaidForInBitcoin'
<1> SUFFICES ASSUME TypeOK, AddrShape, PassShape, CreditedIsClaimed, PaidForInBitcoin, [Next]_vars,
                    NEW d \in Addr'
             PROVE  /\ spend'[d] = "stuck" => d \in troubled'
                    /\ spend'[d] = "user" => tip' >= cltv'[d]
                    /\ d \in credited' /\ spend'[d] = "unspent" /\ d \notin troubled' =>
                          pass'.pc = "claim" /\ pass'.entry.addr = d
                    /\ d \in credited' /\ spend'[d] = "user" => d \in troubled'
  BY DEF CreditedIsClaimed, PaidForInBitcoin, Driven
<1> DEFINE Goal == /\ spend'[d] = "stuck" => d \in troubled'
                   /\ spend'[d] = "user" => tip' >= cltv'[d]
                   /\ d \in credited' /\ spend'[d] = "unspent" /\ d \notin troubled' =>
                          pass'.pc = "claim" /\ pass'.entry.addr = d
                   /\ d \in credited' /\ spend'[d] = "user" => d \in troubled'
<1>0. ASSUME d \in Addr
      PROVE  /\ spend[d] = "stuck" => d \in troubled
             /\ spend[d] = "user" => tip >= cltv[d]
             /\ d \in credited /\ spend[d] = "unspent" /\ d \notin troubled =>
                    pass.pc = "claim" /\ pass.entry.addr = d
             /\ d \in credited /\ spend[d] = "user" => d \in troubled
             /\ cltv[d] \in Nat /\ tip \in Nat
  BY <1>0, PassTypes DEF CreditedIsClaimed, PaidForInBitcoin, Driven
<1>b. PassTyped
  BY TypeOKParts
<1>1. CASE Register
  BY <1>0, <1>1, RegisterKeeps DEF evm
<1>2. ASSUME NEW A \in SUBSET Addr, Pay(A) PROVE Goal
  <2>1. d \in Addr
    BY <1>2 DEF Pay, Addr
  <2>2. QED
    BY <1>0, <1>2, <2>1, PayKeeps DEF evm
<1>3. CASE NewBlock
  <2>1. d \in Addr
    BY <1>3 DEF NewBlock, Addr
  <2>2. spend'[d] = spend[d] \/ (spend[d] = "mempool" /\ spend'[d] = "hop")
    BY <1>3, <2>1 DEF NewBlock
  <2>3. QED
    BY <1>0, <1>3, <2>1, <2>2 DEF NewBlock, evm
<1>4. ASSUME NEW a \in Addr, UserRefund(a) PROVE Goal
  <2>1. d \in Addr
    BY <1>4 DEF UserRefund, Addr
  <2>2. CASE d # a
    BY <1>0, <1>4, <2>1, <2>2 DEF UserRefund, evm, TypeOK
  <2>3. CASE d = a
    <3>1. d \in credited => d \in troubled
      BY <1>0, <1>4, <2>1, <2>3, ClaimIsEarly DEF UserRefund, Driven
    <3>2. spend'[d] = "user"
      BY <1>4, <2>3 DEF UserRefund, TypeOK
    <3>3. QED
      BY <1>4, <2>3, <3>1, <3>2 DEF UserRefund, evm
  <2>4. QED
    BY <2>2, <2>3
<1>5. CASE StartPass
  <2>1. d \in Addr /\ pass.pc = "idle"
    BY <1>5 DEF StartPass, chain, Addr, Idle
  <2>2. troubled \subseteq troubled'
    BY <1>5 DEF StartPass, Fault, Sound
  <2>3. QED
    BY <1>0, <1>5, <2>1, <2>2 DEF StartPass, chain, evm
<1>6. CASE EndPass \/ Drop \/ \E e \in pass.todo : Visit(e)
  <2>1. d \in Addr /\ pass.pc # "claim"
    BY <1>6, BookSteps DEF Addr, EndPass, Drop, Visit
  <2>2. QED
    BY <1>0, <1>6, <2>1, BookSteps DEF evm
<1>7. CASE Settle
  <2>1. d \in Addr /\ pass.pc = "settle" /\ tip < cltv[Driven] /\ UNCHANGED <<tip, cltv, spend>>
    BY <1>7, ClaimIsEarly DEF Settle, chain, Addr
  <2>2. credited' \subseteq credited \cup {Driven}
    BY <1>7 DEF Settle
  <2>a. CASE dep[Driven].tx \in unlogged /\ Sound
    <3>1. credited' = credited /\ pass.pc # "claim"
      BY <1>7, <2>a DEF Settle, TypeOK
    <3>2. QED
      BY <1>0, <2>1, <2>a, <3>1 DEF Sound
  <2>3. CASE pass' = [pass EXCEPT !.pc = "claim"] /\ Sound
    BY <1>0, <1>b, <2>1, <2>2, <2>3, AdvanceFacts, PassTypes DEF Driven, Sound
  <2>4. CASE Fault({Driven})
    BY <1>0, <2>1, <2>2, <2>4, PassTypes DEF Driven, Fault
  <2>5. QED
    BY <1>7, <2>a, <2>3, <2>4 DEF Settle
<1>8. ASSUME NEW e \in pass.todo, VisitFails(e) PROVE Goal
  BY <1>0, <1>8, FailSteps DEF VisitFails, Addr, evm
<1>9. CASE SettleFails \/ BroadcastFails
  <2>1. d \in Addr /\ troubled' = troubled \cup {Driven} /\ UNCHANGED <<tip, cltv, spend, credited>>
    BY <1>9 DEF SettleFails, BroadcastFails, Fault, chain, evm, Addr
  <2>2. QED
    BY <1>0, <2>1 DEF Driven
<1>10. CASE BroadcastClaim
  <2>1. d \in Addr /\ pass.pc = "claim" /\ UNCHANGED <<tip, cltv, credited>>
        /\ troubled \subseteq troubled'
    BY <1>10 DEF BroadcastClaim, Fault, Sound, evm, Addr
  <2>2. CASE d # Driven
    <3>1. spend'[d] = spend[d]
      BY <1>10, <2>1, <2>2 DEF BroadcastClaim, TypeOK
    <3>2. QED
      BY <1>0, <2>1, <2>2, <3>1 DEF Driven
  <2>3. CASE d = Driven
    <3>1. \/ spend'[d] = "mempool"
          \/ spend'[d] = "stuck" /\ d \in troubled'
          \/ spend'[d] = spend[d] /\ spend[d] \in {"hop", "user"}
      BY <1>10, <2>1, <2>3 DEF BroadcastClaim, Fault, TypeOK
    <3>2. QED
      BY <1>0, <2>1, <3>1
  <2>4. QED
    BY <2>2, <2>3
<1>11. CASE Restart
  <2>1. d \in Addr /\ UNCHANGED <<tip, cltv, spend, credited>>
        /\ troubled' = troubled \cup {e.addr : e \in pass.todo}
    BY <1>11 DEF Restart, Fault, chain, evm, Addr
  <2>2. pass.pc = "claim" => Driven \in troubled'
    BY <2>1, PassTypes DEF Driven
  <2>3. QED
    BY <1>0, <2>1, <2>2 DEF Driven
<1>12. CASE UNCHANGED vars
  BY <1>0, <1>12 DEF vars, chain, evm, Addr
<1>13. ASSUME NEW a \in Addr, SwapOutSettled(a) PROVE Goal
  <2>1. d \in Addr
    BY <1>13, SwapOutKeeps DEF Addr
  <2>2. QED
    BY <1>0, <1>13, <2>1, SwapOutKeeps
<1> QED
  BY <1>1, <1>2, <1>3, <1>4, <1>5, <1>6, <1>7, <1>8, <1>9, <1>10, <1>11, <1>12, <1>13 DEF Next, Sweep

\* The step about an entry of the snapshot: it stays, or is left.
LEMMA VisitPass ==
    ASSUME TypeOK, NEW e \in pass.todo, Visit(e)
    PROVE  /\ pass'.tip = pass.tip /\ pass'.todo \subseteq pass.todo /\ pass.todo \ {e} \subseteq pass'.todo
           /\ pass'.pc # "idle" /\ next' = next
           /\ Confirmed(e.addr) /\ CltvHeadroomOk(e.addr) /\ pass.tip < cltv[e.addr] => e \in pass'.todo
           /\ \/ registry' = registry
              \/ registry' = Without(registry, e.idx) /\ pass.tip >= cltv[e.addr]
<1>1. PassTyped
  BY TypeOKParts
<1>2. CASE pass' = Leave(e)
  <2>1. pass'.pc = "scan" /\ pass'.tip = pass.tip /\ pass'.todo = pass.todo \ {e}
    BY <1>1, <1>2, LeaveFacts
  <2>2. ~(Confirmed(e.addr) /\ CltvHeadroomOk(e.addr) /\ pass.tip < cltv[e.addr])
    <3>1. SUFFICES ASSUME Confirmed(e.addr), CltvHeadroomOk(e.addr), pass.tip < cltv[e.addr] PROVE FALSE
      OBVIOUS
    <3>2. ~(pass.tip >= cltv[e.addr])
      BY <3>1, PassTypes
    <3>3. pass' = [pass EXCEPT !.pc = "settle", !.entry = e]
      BY <3>1, <3>2 DEF Visit
    <3>4. QED
      BY <1>1, <2>1, <3>3 DEF PassTyped
  <2>3. QED
    BY <2>1, <2>2 DEF Visit
<1>3. CASE pass' = [pass EXCEPT !.pc = "settle", !.entry = e]
  <2>1. pass'.pc = "settle" /\ pass'.tip = pass.tip /\ pass'.todo = pass.todo
    BY <1>1, <1>3 DEF PassTyped
  <2>2. QED
    BY <2>1 DEF Visit
<1>4. QED
  BY <1>2, <1>3 DEF Visit

\* The other steps of a pass: the entry in hand stays, or is left.
LEMMA DrivePass ==
    ASSUME TypeOK, Settle \/ SettleFails \/ BroadcastClaim \/ BroadcastFails \/ Drop
    PROVE  /\ pass'.tip = pass.tip /\ pass'.todo \subseteq pass.todo
           /\ pass.todo \ {pass.entry} \subseteq pass'.todo
           /\ pass.pc # "idle" /\ pass'.pc # "idle" /\ next' = next
           /\ pass.entry \in pass.todo /\ Driven \in Addr
<1>1. PassTyped
  BY TypeOKParts
<1>2. CASE pass' = Leave(pass.entry)
  BY <1>1, <1>2, LeaveFacts, PassTypes
     DEF Settle, SettleFails, BroadcastClaim, BroadcastFails, Drop
<1>3. CASE pass' = [pass EXCEPT !.pc = "claim"] \/ pass' = [pass EXCEPT !.pc = "drop"]
  BY <1>1, <1>3, AdvanceFacts, PassTypes
     DEF Settle, SettleFails, BroadcastClaim, BroadcastFails, Drop
<1>4. QED
  BY <1>2, <1>3 DEF Settle, SettleFails, BroadcastClaim, BroadcastFails, Drop

\* No index is given twice while it is in use.
LEMMA IndexStep == TypeOK /\ AddrShape /\ PassShape /\ IndexFree /\ [Next]_vars => IndexFree'
<1> SUFFICES ASSUME TypeOK, AddrShape, PassShape, IndexFree, [Next]_vars PROVE IndexFree'
  OBVIOUS
<1>0. /\ \A i \in DOMAIN registry : i \in Nat /\ i < next
      /\ \A e \in pass.todo : /\ e.idx \in Nat /\ e.idx < next
                              /\ e.idx \in DOMAIN registry => registry[e.idx] = e.addr
      /\ next \in Nat
  BY PassTypes DEF IndexFree, TypeOK
<1>1. CASE Register
  BY <1>0, <1>1, RegisterKeeps DEF IndexFree
<1>2. CASE UNCHANGED <<registry, next, pass>>
  BY <1>2 DEF IndexFree
<1>3. CASE StartPass
  <2>1. UNCHANGED <<registry, next>>
    BY <1>3 DEF StartPass
  <2>2. ASSUME NEW e \in pass'.todo PROVE e.idx \in DOMAIN registry /\ registry[e.idx] = e.addr
    <3>1. pass.todo = {}
      BY <1>3 DEF StartPass, Idle
    <3>2. e \in Entries
      BY <1>3, <2>2, <3>1 DEF StartPass
    <3>3. QED
      BY <3>2 DEF Entries
  <2>3. QED
    BY <1>0, <2>1, <2>2 DEF IndexFree
<1>4. ASSUME NEW e \in pass.todo, Visit(e) PROVE IndexFree'
  BY <1>0, <1>4, VisitPass DEF Without, IndexFree
<1>5. ASSUME NEW e \in pass.todo, VisitFails(e) PROVE IndexFree'
  <2>1. pass'.todo \subseteq pass.todo /\ UNCHANGED <<registry, next>>
    BY <1>5, LeaveFacts, TypeOKParts DEF VisitFails
  <2>2. QED
    BY <1>0, <2>1 DEF IndexFree
<1>6. CASE Settle \/ SettleFails \/ BroadcastClaim \/ BroadcastFails \/ Drop
  <2>1. registry' = registry \/ registry' = Without(registry, pass.entry.idx)
    BY <1>6 DEF Settle, SettleFails, BroadcastClaim, BroadcastFails, Drop
  <2>2. QED
    BY <1>0, <1>6, <2>1, DrivePass DEF Without, IndexFree
<1>7. CASE EndPass
  BY <1>0, <1>7 DEF EndPass, Idle, IndexFree
<1>8. CASE Restart
  <2>1. pass'.todo = {} /\ registry' = registry /\ next' = NextIndexSeed
    BY <1>8 DEF Restart, Idle
  <2>2. QED
    BY <2>1, SeedFacts, TypeOKParts DEF IndexFree
<1> QED
  BY <1>1, <1>2, <1>3, <1>4, <1>5, <1>6, <1>7, <1>8 DEF Next, Sweep, Pay, NewBlock, UserRefund, SwapOutSettled, vars

\* A deposit that is not taken stays registered until its timelock.
LEMMA RegisteredStep ==
    TypeOK /\ AddrShape /\ PassShape /\ IndexFree /\ StaysRegistered /\ [Next]_vars => StaysRegistered'
<1> SUFFICES ASSUME TypeOK, AddrShape, PassShape, IndexFree, StaysRegistered, [Next]_vars,
                    NEW d \in Addr', spend'[d] = "unspent"
             PROVE  tip' >= cltv'[d] \/ \E i \in DOMAIN registry' : registry'[i] = d
  BY DEF StaysRegistered
<1> DEFINE Goal == tip' >= cltv'[d] \/ \E i \in DOMAIN registry' : registry'[i] = d
<1>0. ASSUME d \in Addr, spend[d] = "unspent"
      PROVE  /\ tip >= cltv[d] \/ \E i \in DOMAIN registry : registry[i] = d
             /\ cltv[d] \in Nat /\ tip \in Nat /\ pass.tip \in Nat /\ pass.tip <= tip
  BY <1>0, PassTypes DEF StaysRegistered
<1>1. CASE Register
  <2>1. \A i \in DOMAIN registry : i # next
    BY DEF IndexFree, TypeOK
  <2>2. QED
    BY <1>0, <1>1, <2>1, RegisterKeeps
<1>2. ASSUME NEW A \in SUBSET Addr, Pay(A) PROVE Goal
  BY <1>0, <1>2 DEF Pay, Addr
<1>3. CASE NewBlock
  <2>1. d \in Addr /\ spend[d] = "unspent"
    BY <1>3 DEF NewBlock, Addr
  <2>2. QED
    BY <1>0, <1>3, <2>1 DEF NewBlock
<1>4. ASSUME NEW a \in Addr, UserRefund(a) PROVE Goal
  <2>1. d \in Addr /\ spend[d] = "unspent"
    BY <1>4 DEF UserRefund, TypeOK, Addr
  <2>2. QED
    BY <1>0, <1>4, <2>1 DEF UserRefund
<1>5. CASE StartPass \/ EndPass \/ Settle
  BY <1>0, <1>5 DEF StartPass, EndPass, Settle, chain, Addr
<1>6. CASE SettleFails \/ BroadcastFails \/ Restart \/ \E e \in pass.todo : VisitFails(e)
  BY <1>0, <1>6, FailSteps DEF Addr
<1>7. ASSUME NEW e \in pass.todo, Visit(e) PROVE Goal
  <2>1. d \in Addr /\ spend[d] = "unspent" /\ UNCHANGED <<tip, cltv>>
    BY <1>7, BookSteps DEF Addr
  <2>2. CASE registry' = registry
    BY <1>0, <2>1, <2>2
  <2>3. CASE registry' = Without(registry, e.idx) /\ pass.tip >= cltv[e.addr]
    <3>1. d = e.addr => tip >= cltv[d]
      BY <1>0, <2>1, <2>3
    <3>2. d # e.addr => \A i \in DOMAIN registry : registry[i] = d => i # e.idx
      BY DEF IndexFree
    <3>3. QED
      BY <1>0, <2>1, <2>3, <3>1, <3>2 DEF Without
  <2>4. QED
    BY <1>7, <2>2, <2>3, VisitPass
<1>8. CASE BroadcastClaim
  <2>1. d \in Addr /\ spend[d] = "unspent" /\ UNCHANGED <<tip, cltv, registry>>
    BY <1>8 DEF BroadcastClaim, Addr, TypeOK
  <2>2. QED
    BY <1>0, <2>1
<1>9. CASE Drop
  <2>1. d \in Addr /\ spend[d] = "unspent" /\ UNCHANGED <<tip, cltv>> /\ d # Driven
    BY <1>9, BookSteps DEF Drop, PassShape, Addr
  <2>2. \A i \in DOMAIN registry : registry[i] = d => i # pass.entry.idx
    BY <1>9, <2>1, DrivePass DEF IndexFree, Driven
  <2>3. QED
    BY <1>0, <1>9, <2>1, <2>2 DEF Without, Drop
<1>10. CASE UNCHANGED vars
  BY <1>0, <1>10 DEF vars, chain, Addr
<1>11. ASSUME NEW a \in Addr, SwapOutSettled(a) PROVE Goal
  BY <1>0, <1>11, SwapOutKeeps DEF Addr
<1> QED
  BY <1>1, <1>2, <1>3, <1>4, <1>5, <1>6, <1>7, <1>8, <1>9, <1>10, <1>11 DEF Next, Sweep

\* The turn of a deposit buried in time comes, or is still to come.
LEMMA TurnStep ==
    TypeOK /\ AddrShape /\ PassShape /\ OnlyPaid /\ StaysRegistered /\ TurnComes /\ [Next]_vars
        => TurnComes'
<1> SUFFICES ASSUME TypeOK, AddrShape, PassShape, OnlyPaid, StaysRegistered, TurnComes, [Next]_vars,
                    NEW d \in Addr', dep'[d] # Unpaid, spend'[d] = "unspent", d \notin troubled',
                    dep'[d].tx \notin unlogged',
                    dep'[d].h + MinConfs - 1 + GapBlocks <= cltv'[d] - Headroom
             PROVE  \/ tip' <= dep'[d].h + MinConfs - 1 + ticks'
                    \/ /\ pass'.pc # "idle" /\ pass'.tip <= cltv'[d] - Headroom
                       /\ \E e \in pass'.todo : e.addr = d
  BY DEF TurnComes, Buried, LastCall
<1> DEFINE Early == tip <= Buried(d) + ticks
           InHand == /\ pass.pc # "idle" /\ pass.tip <= LastCall(d)
                     /\ \E e \in pass.todo : e.addr = d
           Goal == \/ tip' <= dep'[d].h + MinConfs - 1 + ticks'
                   \/ /\ pass'.pc # "idle" /\ pass'.tip <= cltv'[d] - Headroom
                      /\ \E e \in pass'.todo : e.addr = d
<1> USE SwapInAssumption DEF Buried, LastCall
<1>0. ASSUME d \in Addr, dep'[d] = dep[d], cltv'[d] = cltv[d], spend[d] = "unspent", d \notin troubled,
             unlogged \subseteq unlogged'
      PROVE  /\ Early \/ InHand
             /\ cltv[d] \in Nat /\ dep[d].h \in Nat /\ tip \in Nat /\ ticks \in Nat
             /\ ticks <= GapBlocks /\ pass.tip \in Nat
             /\ dep[d] # Unpaid /\ Buried(d) + GapBlocks <= LastCall(d)
  BY <1>0, PassTypes DEF TurnComes
<1>1. CASE Register
  <2>1. d \in Addr
    BY <1>1, RegisterKeeps
  <2>2. QED
    BY <1>0, <1>1, <2>1, RegisterKeeps DEF evm
<1>2. ASSUME NEW A \in SUBSET Addr, Pay(A) PROVE Goal
  <2>1. d \in Addr /\ UNCHANGED <<tip, cltv, spend, pass, ticks, troubled, unlogged>>
        /\ tip \in Nat /\ ticks \in Nat
    BY <1>2, PassTypes DEF Pay, Addr, evm
  <2>2. CASE dep'[d] = dep[d]
    BY <1>0, <2>1, <2>2
  <2>3. CASE dep'[d] # dep[d]
    <3>1. dep'[d].h = tip
      BY <1>2, <2>1, <2>3, PayKeeps
    <3>2. QED
      BY <2>1, <3>1
  <2>4. QED
    BY <2>2, <2>3
<1>3. CASE NewBlock
  <2>1. d \in Addr /\ spend[d] = "unspent"
    BY <1>3 DEF NewBlock, Addr
  <2>2. UNCHANGED <<cltv, dep, pass, troubled, unlogged>> /\ tip' = tip + 1 /\ ticks' = ticks + 1
    BY <1>3 DEF NewBlock, evm
  <2>3. QED
    BY <1>0, <2>1, <2>2
<1>4. ASSUME NEW a \in Addr, UserRefund(a) PROVE Goal
  <2>1. d \in Addr /\ spend[d] = "unspent"
    BY <1>4 DEF UserRefund, TypeOK, Addr
  <2>2. QED
    BY <1>0, <1>4, <2>1 DEF UserRefund, evm
<1>5. CASE StartPass
  <2>1. /\ d \in Addr /\ UNCHANGED <<tip, cltv, dep, spend, unlogged>> /\ ticks' = 0 /\ pass.pc = "idle"
        /\ Sound /\ pass' = [pc |-> "scan", tip |-> tip, todo |-> Entries, entry |-> NoEntry]
    BY <1>5 DEF StartPass, Fault, chain, evm, Addr, Idle
  <2>2. Early /\ Buried(d) + GapBlocks <= LastCall(d) /\ tip <= LastCall(d) /\ tip < cltv[d]
    BY <1>0, <2>1 DEF Sound
  <2>3. PICK i \in DOMAIN registry : registry[i] = d
    BY <2>1, <2>2, PassTypes DEF StaysRegistered
  <2>4. [idx |-> i, addr |-> registry[i]] \in Entries
    BY DEF Entries
  <2>5. \E e \in Entries : e.addr = d
    BY <2>3, <2>4
  <2>6. QED
    BY <2>1, <2>2, <2>5
<1>6. CASE EndPass
  <2>1. pass.todo = {} /\ UNCHANGED <<tip, cltv, dep, spend, ticks, troubled, unlogged>>
    BY <1>6, BookSteps DEF EndPass, evm
  <2>2. QED
    BY <1>0, <2>1 DEF Addr
<1>7. ASSUME NEW e \in pass.todo, Visit(e) PROVE Goal
  <2>1. d \in Addr /\ UNCHANGED <<tip, cltv, dep, spend, ticks, troubled, unlogged>>
    BY <1>7, BookSteps DEF Addr, evm
  <2>2. CASE Early
    BY <2>1, <2>2
  <2>3. CASE InHand /\ ~Early
    <3>1. pass'.tip = pass.tip /\ pass'.pc # "idle" /\ pass.todo \ {e} \subseteq pass'.todo
      BY <1>7, VisitPass
    <3>2. CASE e.addr # d
      BY <2>1, <2>3, <3>1, <3>2
    <3>3. CASE e.addr = d
      <4>1. tip = pass.tip + ticks /\ pass.tip <= LastCall(d)
        BY <2>3 DEF PassShape
      <4>2. pass.tip > Buried(d)
        BY <1>0, <2>1, <2>3, <4>1
      <4>3. Confirmed(d) /\ CltvHeadroomOk(d) /\ pass.tip < cltv[d]
        BY <1>0, <2>1, <4>1, <4>2 DEF Confirmed, CltvHeadroomOk
      <4>4. e \in pass'.todo
        BY <1>7, <3>3, <4>3, VisitPass
      <4>5. QED
        BY <2>1, <3>1, <3>3, <4>1, <4>4
    <3>4. QED
      BY <3>2, <3>3
  <2>4. QED
    BY <1>0, <2>1, <2>2, <2>3
<1>8. ASSUME NEW e \in pass.todo, VisitFails(e) PROVE Goal
  <2>1. d \in Addr /\ UNCHANGED <<tip, cltv, dep, spend, ticks, unlogged>>
        /\ d \notin troubled /\ d # e.addr
    BY <1>8 DEF VisitFails, Fault, chain, evm, Addr
  <2>2. pass'.tip = pass.tip /\ pass'.pc # "idle" /\ pass'.todo = pass.todo \ {e}
    BY <1>8, LeaveFacts, TypeOKParts DEF VisitFails
  <2>3. QED
    BY <1>0, <2>1, <2>2
<1>9. CASE Settle \/ SettleFails \/ BroadcastClaim \/ BroadcastFails \/ Drop
  <2>1. d \in Addr /\ UNCHANGED <<tip, cltv, dep, ticks, unlogged>> /\ d \notin troubled
    BY <1>9
       DEF Settle, SettleFails, BroadcastClaim, BroadcastFails, Drop, Fault, Sound, chain, evm, Addr
  <2>2. spend[d] = "unspent"
    BY <1>9, <2>1
       DEF Settle, SettleFails, BroadcastClaim, BroadcastFails, Drop, chain, TypeOK
  <2>3. d = Driven => pass.entry \in pass'.todo
    <3>1. CASE Settle
      <4>1. d = Driven => pass' = [pass EXCEPT !.pc = "claim"]
        BY <2>1, <3>1 DEF Settle, Fault
      <4>2. QED
        BY <3>1, <4>1, AdvanceFacts, DrivePass, TypeOKParts
    <3>2. CASE SettleFails \/ BroadcastFails
      BY <3>2 DEF SettleFails, BroadcastFails, Fault
    <3>3. CASE BroadcastClaim
      BY <2>1, <2>2, <3>3 DEF BroadcastClaim, TypeOK
    <3>4. CASE Drop
      BY <2>2, <3>4 DEF Drop, PassShape
    <3>5. QED
      BY <1>9, <3>1, <3>2, <3>3, <3>4
  <2>4. \A e \in pass.todo : e.addr = d => e \in pass'.todo
    BY <1>9, <2>3, DrivePass DEF Driven
  <2>5. QED
    BY <1>0, <1>9, <2>1, <2>2, <2>4, DrivePass
<1>10. CASE Restart
  <2>1. /\ d \in Addr /\ UNCHANGED <<tip, cltv, dep, spend, ticks, unlogged>> /\ d \notin troubled
        /\ \A e \in pass.todo : e.addr # d
    BY <1>10 DEF Restart, Fault, chain, evm, Addr
  <2>2. QED
    BY <1>0, <2>1
<1>11. CASE UNCHANGED vars
  BY <1>0, <1>11 DEF vars, chain, evm, Addr
<1>12. ASSUME NEW a \in Addr, SwapOutSettled(a) PROVE Goal
  BY <1>0, <1>12, SwapOutKeeps DEF Addr
<1> QED
  BY <1>1, <1>2, <1>3, <1>4, <1>5, <1>6, <1>7, <1>8, <1>9, <1>10, <1>11, <1>12 DEF Next, Sweep

\* A deposit in time is not taken back, unless its service was disturbed.
LEMMA ServedStep ==
    TypeOK /\ AddrShape /\ PassShape /\ OnlyPaid /\ CreditedIsClaimed /\ TurnComes
    /\ EarlyDepositServed /\ [Next]_vars => EarlyDepositServed'
<1> SUFFICES ASSUME TypeOK, AddrShape, PassShape, OnlyPaid, CreditedIsClaimed, TurnComes,
                    EarlyDepositServed, [Next]_vars, NEW d \in Addr', spend'[d] = "user",
                    dep'[d].h + MinConfs - 1 + GapBlocks <= cltv'[d] - Headroom,
                    dep'[d].tx \notin unlogged'
             PROVE  d \in troubled'
  BY DEF EarlyDepositServed, LastCall
<1>0. ASSUME d \in Addr, spend[d] = "user", dep'[d] = dep[d], cltv'[d] = cltv[d],
             troubled \subseteq troubled', unlogged \subseteq unlogged'
      PROVE  d \in troubled'
  BY <1>0 DEF EarlyDepositServed, LastCall
<1>1. CASE Register
  BY <1>0, <1>1, RegisterKeeps DEF evm
<1>2. ASSUME NEW A \in SUBSET Addr, Pay(A) PROVE d \in troubled'
  <2>1. d \in Addr
    BY <1>2 DEF Pay, Addr
  <2>2. QED
    BY <1>0, <1>2, <2>1, PayKeeps DEF OnlyPaid, evm
<1>3. CASE NewBlock
  <2>1. d \in Addr /\ spend[d] = "user"
    BY <1>3 DEF NewBlock, Addr
  <2>2. QED
    BY <1>0, <1>3, <2>1 DEF NewBlock, evm
<1>4. ASSUME NEW a \in Addr, UserRefund(a) PROVE d \in troubled'
  <2>1. d \in Addr /\ UNCHANGED <<tip, cltv, dep, pass, ticks, troubled, unlogged>>
    BY <1>4 DEF UserRefund, Addr, evm
  <2>2. CASE d # a
    BY <1>0, <1>4, <2>1, <2>2 DEF UserRefund, TypeOK
  <2>3. CASE d = a
    <3>1. SUFFICES ASSUME d \notin troubled PROVE FALSE
      BY <2>1
    <3>2. dep[d] # Unpaid /\ tip >= cltv[d] /\ spend[d] = "unspent"
      BY <1>4, <2>1, <2>3, <3>1 DEF UserRefund, CreditedIsClaimed
    <3>3. \/ tip <= Buried(d) + ticks
          \/ pass.pc # "idle" /\ pass.tip <= LastCall(d)
      BY <2>1, <3>1, <3>2 DEF TurnComes, Buried, LastCall
    <3>4. QED
      BY <2>1, <3>2, <3>3, PassTypes, SwapInAssumption DEF PassShape, Buried, LastCall
  <2>4. QED
    BY <2>2, <2>3
<1>5. CASE StartPass
  BY <1>0, <1>5 DEF StartPass, Fault, Sound, chain, evm, Addr
<1>6. CASE EndPass \/ Drop \/ \E e \in pass.todo : Visit(e)
  BY <1>0, <1>6, BookSteps DEF Addr, evm
<1>7. CASE SettleFails \/ BroadcastFails \/ Restart \/ \E e \in pass.todo : VisitFails(e)
  BY <1>0, <1>7, FailSteps DEF Addr, evm
<1>8. CASE Settle
  BY <1>0, <1>8 DEF Settle, Fault, Sound, chain, Addr
<1>9. CASE BroadcastClaim
  <2>1. d \in Addr /\ spend[d] = "user" /\ UNCHANGED <<cltv, dep, unlogged>> /\ troubled \subseteq troubled'
    BY <1>9 DEF BroadcastClaim, Fault, Sound, evm, Addr, TypeOK
  <2>2. QED
    BY <1>0, <2>1
<1>10. CASE UNCHANGED vars
  BY <1>0, <1>10 DEF vars, chain, evm, Addr
<1>11. ASSUME NEW a \in Addr, SwapOutSettled(a) PROVE d \in troubled'
  BY <1>0, <1>11, SwapOutKeeps DEF Addr
<1> QED
  BY <1>1, <1>2, <1>3, <1>4, <1>5, <1>6, <1>7, <1>8, <1>9, <1>10, <1>11 DEF Next, Sweep

-----------------------------------------------------------------------------
(* The theorems. *)

\* The invariant holds before the first registration.
LEMMA InvInitially == Init => SwapInInv
<1> SUFFICES ASSUME Init PROVE SwapInInv
  OBVIOUS
<1>1. Addr = {} /\ DOMAIN dep = {} /\ DOMAIN spend = {} /\ DOMAIN registry = {}
  BY DEF Init, EmptyMap, Addr
<1>2. AddrShape
  BY <1>1, FS_EmptySet DEF AddrShape
<1>3. TypeOK
  BY <1>1, SwapInAssumption DEF TypeOK, Init, EmptyMap, Idle
<1>4. pass.pc = "idle" /\ pass.todo = {} /\ pass = Idle
  BY DEF Init, Idle
<1>5. QED
  BY <1>1, <1>2, <1>3, <1>4
     DEF SwapInInv, PassShape, OnlyPaid, CreditedIsClaimed, PaidForInBitcoin, IndexFree,
         StaysRegistered, TurnComes, EarlyDepositServed, Init

\* Every step keeps the invariant.
LEMMA InvStep == SwapInInv /\ [Next]_vars => SwapInInv'
  BY TypeStep, AddrStep, PassStep, PaidStep, CreditStep, IndexStep, RegisteredStep, TurnStep, ServedStep
     DEF SwapInInv

\* The invariant of drive_swap_in_pass, its registry and the contract's side of
\* it holds in every reachable state.
THEOREM SwapInCorrect == Spec => []SwapInInv
  BY InvInitially, InvStep, PTL DEF Spec

\* The hop takes Bitcoin for which settleSwapInProven paid nobody only when a
\* swap-out was reversed under the deposit's own transaction id.
THEOREM ClaimedIsCreditedHolds == Spec => []ClaimedIsCredited
<1>1. SwapInInv => ClaimedIsCredited
  BY DEF SwapInInv, OnlyPaid, ClaimedIsCredited
<1>2. QED
  BY <1>1, SwapInCorrect, PTL

\* With ONCHAIN_SWAP_IN_MIN_CLTV_HEADROOM_BLOCKS above the blocks of a pass, no
\* seller keeps the dollars and takes the Bitcoin back undisturbed.
THEOREM PaidForInBitcoinHolds == Spec => []PaidForInBitcoin
<1>1. SwapInInv => PaidForInBitcoin
  BY DEF SwapInInv
<1>2. QED
  BY <1>1, SwapInCorrect, PTL

\* A deposit that is buried a gap before the last call is served, whatever
\* next_index_seed gives out after a restart.
THEOREM EarlyDepositServedHolds == Spec => []EarlyDepositServed
<1>1. SwapInInv => EarlyDepositServed
  BY DEF SwapInInv
<1>2. QED
  BY <1>1, SwapInCorrect, PTL
=============================================================================
