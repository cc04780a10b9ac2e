-------------------------- MODULE VaultOpens_proofs --------------------------
(***************************************************************************)
(* What the vault promises, for every number of LPs, deposits, blocks and  *)
(* faults: no LP gets more channels than it made deposits, a channel is    *)
(* bound to the LP it was opened for, and the first deposit at an address  *)
(* is not left where the vault has forgotten it, each up to the exceptions *)
(* that the wallet's repeated addresses and a restart make.                *)
(***************************************************************************)
EXTENDS VaultOpens, SequenceTheorems, FiniteSetTheorems, TLAPS

-----------------------------------------------------------------------------
(* The inductive invariant. *)

\* The deposits are few enough that the wallet always has an unused address.
FewDeposits ==
    /\ IsFiniteSet(deps) /\ Cardinality(deps) <= MaxDeposits
    /\ \A a \in Addr : IsFiniteSet(told[a])
    /\ \A a \in seen : \E d \in deps : d.addr = a

\* Watches, visits, deposits and channels are of LPs that were told the address.
OnlyTold ==
    /\ \A a \in DOMAIN watch : watch[a].lp \in told[a]
    /\ \A w \in tick.todo : w.lp \in told[w.addr]
    /\ \A d \in deps : d.lp \in told[d.addr]
    /\ \A c \in DOMAIN chans : chans[c].lp \in told[chans[c].addr]

\* Two LPs were told the address.
Twice(a) == \E l, m \in told[a] : l # m

\* The address was told to two LPs, or told when it had become a channel.
Repeated(a) == Twice(a) \/ a \in again

Paid(a) == \E d \in deps : d.addr = a

\* A channel's address is paid and consumed: unless the wallet repeats it,
\* nobody polls it, so no other channel comes of it.
Consumed ==
    \A c \in DOMAIN chans :
        /\ Paid(chans[c].addr)
        /\ \/ Repeated(chans[c].addr)
           \/ /\ chans[c].addr \notin DOMAIN watch
              /\ \A w \in tick.todo : w.addr # chans[c].addr
              /\ \A e \in DOMAIN chans : chans[e].addr = chans[c].addr => e = c

\* Until a restart, ids are not repeated and an open that waits for its
\* outpoint waits under the id of its own channel.
IdsOwn ==
    ~restarted =>
        \A c \in DOMAIN chans :
            /\ chans[c].uid < nextUid
            /\ chans[c].uid \in DOMAIN opening => opening[chans[c].uid] = chans[c].lp

\* Until a restart, an address that an LP was told is watched for it or became
\* its channel, unless it was told to another LP too.
StaysWatched ==
    ~restarted =>
        \A a \in Addr : \A l \in told[a] :
            \/ a \in DOMAIN watch /\ watch[a].lp = l
            \/ \E c \in OpensFor(l) : chans[c].addr = a
            \/ Twice(a)

VaultInv ==
    /\ TypeOK /\ FewDeposits /\ OnlyTold /\ Consumed /\ IdsOwn /\ StaysWatched /\ BoundToItsLp

-----------------------------------------------------------------------------
(* Lemmas. *)

\* A set of naturals has the minimum that Min returns.
LEMMA MinOfNaturals ==
    ASSUME NEW S \in SUBSET Nat, S # {}
    PROVE  Min(S) \in S
<1> DEFINE R == {p \in Nat \X Nat : p[1] < p[2]}
<1>1. IsWellFoundedOn(R, Nat)
  BY NatLessThanWellFounded DEF OpToRel
<1>2. \A x, y \in Nat : x < y => <<x, y>> \in R
  OBVIOUS
<1> HIDE DEF R
<1>3. PICK x \in S : \A y \in S : ~(<<y, x>> \in R)
  BY <1>1, WFMin
<1>4. ASSUME NEW y \in S PROVE x <= y
  <2>1. ~(y < x)
    BY <1>2, <1>3
  <2>2. QED
    BY <2>1
<1>5. QED
  BY <1>4 DEF Min

LEMMA CountByInjection ==
    ASSUME NEW S, NEW T, IsFiniteSet(T), NEW f \in [S -> T],
           \A x, y \in S : f[x] = f[y] => x = y
    PROVE  Cardinality(S) <= Cardinality(T)
<1>1. f \in Injection(S, T)
  BY DEF Injection, IsInjective
<1>2. QED
  BY <1>1, FS_Injection

\* An address that two LPs were told is handed to two.
LEMMA TwiceIsShared ==
    ASSUME NEW a, IsFiniteSet(told[a]), Twice(a)
    PROVE  Shared(a)
<1>1. PICK l \in told[a], m \in told[a] : l # m
  BY DEF Twice
<1> DEFINE S == {l}
<1>2. IsFiniteSet(S) /\ Cardinality(S) = 1 /\ m \notin S /\ S \cup {m} \in SUBSET told[a]
  BY <1>1, FS_Singleton
<1> HIDE DEF S
<1>3. Cardinality(S \cup {m}) = 2
  BY <1>2, FS_AddElement
<1>4. Cardinality(S \cup {m}) <= Cardinality(told[a])
  BY <1>2, FS_Subset
<1>5. Cardinality(told[a]) \in Nat
  BY FS_CardinalityType
<1>6. QED
  BY <1>3, <1>4, <1>5 DEF Shared

\* The wallet always has an address that it has not seen paid.
LEMMA GetAddressIsThere ==
    ASSUME FewDeposits
    PROVE  GetAddress \in Addr
<1> DEFINE U == Addr \ seen
<1>1. U # {}
  <2>1. SUFFICES ASSUME \A a \in Addr : a \in seen PROVE FALSE
    OBVIOUS
  <2> DEFINE f == [a \in Addr |-> CHOOSE d \in deps : d.addr = a]
  <2>2. \A a \in Addr : f[a] \in deps /\ f[a].addr = a
    BY <2>1 DEF FewDeposits
  <2>3. f \in [Addr -> deps]
    BY <2>2
  <2> HIDE DEF f
  <2>4. Cardinality(Addr) <= Cardinality(deps)
    BY <2>2, <2>3, CountByInjection DEF FewDeposits
  <2>5. Cardinality(Addr) = MaxDeposits + 1
    BY VaultAssumption, FS_Interval DEF Addr
  <2>6. Cardinality(deps) \in Nat
    BY FS_CardinalityType DEF FewDeposits
  <2>7. QED
    BY <2>4, <2>5, <2>6, VaultAssumption DEF FewDeposits
<1>2. U \in SUBSET Nat
  BY VaultAssumption DEF Addr
<1>3. Min(U) \in U
  BY <1>1, <1>2, MinOfNaturals
<1>4. QED
  BY <1>3 DEF GetAddress

-----------------------------------------------------------------------------
(* The channels. *)

ChanType == [uid : Nat, lp : LP, addr : Addr, st : {"new", "funded", "gone"}]
ChansTyped == chans \in Seq(ChanType)

LEMMA ChanFields ==
    ASSUME ChansTyped
    PROVE  /\ Len(chans) \in Nat /\ DOMAIN chans = 1..Len(chans)
           /\ \A c \in DOMAIN chans :
                 /\ chans[c] \in ChanType /\ chans[c].uid \in Nat /\ chans[c].lp \in LP
                 /\ chans[c].addr \in Addr
<1>1. Len(chans) \in Nat /\ DOMAIN chans = 1..Len(chans)
  BY LenProperties DEF ChansTyped
<1>2. \A c \in DOMAIN chans : chans[c] \in ChanType
  BY <1>1, ElementOfSeq DEF ChansTyped
<1>3. QED
  BY <1>1, <1>2 DEF ChanType

\* Channels keep their id, LP and address.
ChansKept ==
    /\ ChansTyped' /\ DOMAIN chans' = DOMAIN chans
    /\ \A c \in DOMAIN chans : /\ chans'[c].uid = chans[c].uid /\ chans'[c].lp = chans[c].lp
                               /\ chans'[c].addr = chans[c].addr

AddChan(uid, l, a) ==
    /\ ChansTyped' /\ DOMAIN chans' = DOMAIN chans \cup {Len(chans) + 1}
    /\ Len(chans) + 1 \notin DOMAIN chans
    /\ \A c \in DOMAIN chans : chans'[c] = chans[c]
    /\ chans'[Len(chans) + 1].uid = uid /\ chans'[Len(chans) + 1].lp = l
    /\ chans'[Len(chans) + 1].addr = a

LEMMA ChansUnchanged ==
    ASSUME ChansTyped, UNCHANGED chans
    PROVE  ChansKept
  BY DEF ChansTyped, ChansKept

LEMMA FundKeeps ==
    ASSUME ChansTyped, NEW c \in DOMAIN chans, Fund(c)
    PROVE  ChansKept
<1>1. PICK st \in {"funded", "gone"} : chans' = [chans EXCEPT ![c].st = st]
  BY DEF Fund
<1> DEFINE new == [chans[c] EXCEPT !.st = st]
<1>2. new \in ChanType /\ new.uid = chans[c].uid /\ new.lp = chans[c].lp /\ new.addr = chans[c].addr
  BY ChanFields DEF ChanType
<1>3. chans' = [chans EXCEPT ![c] = new]
  BY <1>1
<1> HIDE DEF new
<1>4. chans' \in Seq(ChanType) /\ Len(chans') = Len(chans)
      /\ \A e \in 1..Len(chans) : chans'[e] = IF e = c THEN new ELSE chans[e]
  BY <1>2, <1>3, ChanFields, ExceptSeq DEF ChansTyped
<1>5. DOMAIN chans' = DOMAIN chans
  BY <1>3
<1>6. QED
  BY <1>2, <1>4, <1>5, ChanFields DEF ChansKept, ChansTyped

LEMMA RestartKeeps ==
    ASSUME ChansTyped, Restart
    PROVE  ChansKept
<1> DEFINE new(c) == IF chans[c].st = "new" THEN [chans[c] EXCEPT !.st = "gone"] ELSE chans[c]
<1>1. \A c \in DOMAIN chans : /\ new(c) \in ChanType /\ new(c).uid = chans[c].uid
                              /\ new(c).lp = chans[c].lp /\ new(c).addr = chans[c].addr
  <2> SUFFICES ASSUME NEW c \in DOMAIN chans
               PROVE  /\ new(c) \in ChanType /\ new(c).uid = chans[c].uid
                      /\ new(c).lp = chans[c].lp /\ new(c).addr = chans[c].addr
    OBVIOUS
  <2>1. chans[c] \in ChanType
    BY ChanFields
  <2>2. QED
    BY <2>1 DEF ChanType
<1>2. chans' = [c \in DOMAIN chans |-> new(c)]
  BY DEF Restart
<1>3. chans' \in [1..Len(chans) -> ChanType] /\ DOMAIN chans' = DOMAIN chans
  BY <1>1, <1>2, ChanFields
<1>4. chans' \in Seq(ChanType)
  BY <1>3, ChanFields, SeqDef
<1>5. \A c \in DOMAIN chans : chans'[c] = new(c)
  BY <1>2
<1> HIDE DEF new
<1>6. QED
  BY <1>1, <1>3, <1>4, <1>5 DEF ChansKept, ChansTyped

LEMMA OpenAdds ==
    ASSUME ChansTyped, NEW w, w.lp \in LP, w.addr \in Addr, nextUid \in Nat, OpenChannel(w)
    PROVE  AddChan(nextUid, w.lp, w.addr)
<1> DEFINE new == [uid |-> nextUid, lp |-> w.lp, addr |-> w.addr, st |-> "new"]
<1>1. new \in ChanType /\ new.uid = nextUid /\ new.lp = w.lp /\ new.addr = w.addr
  BY DEF ChanType
<1>2. chans' = Append(chans, new)
  BY DEF OpenChannel
<1> HIDE DEF new
<1>3. /\ chans' \in Seq(ChanType) /\ Len(chans') = Len(chans) + 1
      /\ \A c \in 1..Len(chans) : chans'[c] = chans[c]
      /\ chans'[Len(chans) + 1] = new
  BY <1>1, <1>2, AppendProperties DEF ChansTyped
<1>4. DOMAIN chans' = 1..Len(chans')
  BY <1>3, LenProperties
<1>5. QED
  BY <1>1, <1>3, <1>4, ChanFields DEF AddChan, ChansTyped

-----------------------------------------------------------------------------
(* Types and steps. *)

Visit == [addr : Addr, lp : LP]

TickTyped == tick \in [pc : {"sleep", "open", "bind"}, tip : 0..tip, todo : SUBSET Visit]

WatchTyped ==
    /\ DOMAIN watch \subseteq Addr
    /\ \A a \in DOMAIN watch : watch[a] \in [lp : LP, until : Nat]

IdsTyped ==
    /\ nextUid \in Nat
    /\ \A u \in DOMAIN opening : u \in Nat /\ u < nextUid /\ opening[u] \in LP

BoundTyped == DOMAIN bound \subseteq DOMAIN chans /\ \A c \in DOMAIN bound : bound[c] \in LP

RestTyped ==
    /\ tip \in 1..MaxHeight
    /\ deps \subseteq [n : 1..MaxDeposits, lp : LP, addr : Addr, h : 1..MaxHeight]
    /\ told \in [Addr -> SUBSET LP] /\ seen \subseteq Addr /\ again \subseteq Addr
    /\ faults \in 0..MaxFaults

LEMMA TypeOKParts ==
    TypeOK <=> /\ TickTyped /\ WatchTyped /\ IdsTyped /\ BoundTyped /\ RestTyped /\ ChansTyped
               /\ restarted \in BOOLEAN
  BY DEF TypeOK, TickTyped, WatchTyped, IdsTyped, BoundTyped, RestTyped, ChansTyped, ChanType, Visit

\* RegisterLp: LP l is told address a, which is told again if it is consumed.
Registers(l, a) ==
    /\ watch' = With(watch, a, Armed(l)) /\ told' = [told EXCEPT ![a] = @ \cup {l}]
    /\ again \subseteq again' /\ again' \subseteq Addr
    /\ Reopened(a) => a \in again'
    /\ Fault \/ UNCHANGED faults
    /\ UNCHANGED <<tip, deps, seen, opening, nextUid, chans, bound, tick, restarted>>

\* OpenChannel: the visit becomes a channel.
Opens(w) ==
    /\ AddChan(nextUid, w.lp, w.addr) /\ Confirmed(w.addr, tick.tip)
    /\ watch' = Without(watch, w.addr) /\ opening' = With(opening, nextUid, w.lp)
    /\ nextUid' = nextUid + 1 /\ tick'.todo = tick.todo \ {w}
    /\ UNCHANGED <<tip, deps, told, seen, again, bound, faults, restarted>>

\* Everything else: nothing is forgotten but a binding that was made.
GoesOn ==
    /\ ChansKept /\ UNCHANGED <<deps, told, again, watch, restarted>>
    /\ seen' \in {seen, {d.addr : d \in deps}}
    /\ tip' \in {tip, tip + 1}
    /\ \/ tick'.todo \subseteq tick.todo
       \/ tick'.todo = {[addr |-> a, lp |-> watch[a].lp] : a \in Pending}
    /\ nextUid' \in {nextUid, nextUid + 1}
    /\ opening' = opening \/ \E u : opening' = Without(opening, u)

VaultMoves ==
    \/ \E l \in LP, a \in Addr : Registers(l, a)
    \/ \E l \in LP, a \in Addr : Deposit(l, a)
    \/ \E w \in tick.todo : Opens(w)
    \/ Restart /\ ChansKept
    \/ GoesOn

LEMMA VisitedFacts ==
    ASSUME TickTyped, NEW w, Visited(w), UNCHANGED tip
    PROVE  TickTyped' /\ tick'.todo = tick.todo \ {w}
  BY DEF TickTyped, Visited

LEMMA IdleTick ==
    ASSUME tick' = Idle, tip' \in Nat
    PROVE  TickTyped' /\ tick'.todo = {}
  BY DEF TickTyped, Idle

LEMMA StartFacts ==
    ASSUME WatchTyped, RestTyped, StartTick
    PROVE  TickTyped' /\ tick'.todo = {[addr |-> a, lp |-> watch[a].lp] : a \in Pending}
<1> DEFINE T == {[addr |-> a, lp |-> watch[a].lp] : a \in Pending}
<1>1. T \in SUBSET Visit
  BY DEF WatchTyped, Pending, Visit
<1>2. tick' = [pc |-> "open", tip |-> tip, todo |-> T] /\ tip' = tip
  BY DEF StartTick
<1> HIDE DEF T
<1>3. tip \in 0..tip
  BY VaultAssumption DEF RestTyped
<1>4. TickTyped'
  BY <1>1, <1>2, <1>3 DEF TickTyped
<1>5. tick'.todo = T
  BY <1>2
<1>6. QED
  BY <1>4, <1>5 DEF T

\* The step of the orchestrator's tick.
LEMMA TickStep ==
    ASSUME TypeOK, [Next]_vars
    PROVE  TickTyped'
<1>0. TickTyped /\ WatchTyped /\ RestTyped /\ tip \in Nat
  BY TypeOKParts, VaultAssumption DEF RestTyped
<1>1. CASE UNCHANGED <<tick, tip>>
  BY <1>0, <1>1 DEF TickTyped
<1>2. CASE StartTick
  BY <1>0, <1>2, StartFacts
<1>3. CASE EndOpens
  BY <1>0, <1>3 DEF EndOpens, TickTyped
<1>4. CASE EndTick \/ Restart
  BY <1>0, <1>4, IdleTick DEF EndTick, Restart
<1>5. CASE \E w \in tick.todo : OpenChannel(w) \/ OpenRefused(w) \/ Skip(w)
  BY <1>0, <1>5, VisitedFacts DEF OpenChannel, OpenRefused, Skip
<1>6. CASE NewBlock
  <2>1. 0..tip \subseteq 0..(tip + 1)
    BY <1>0
  <2>2. QED
    BY <1>0, <1>6, <2>1 DEF NewBlock, TickTyped
<1>7. QED
  <2>1. CASE \E c \in DOMAIN chans : BindFunding(c) \/ Fund(c)
    BY <1>1, <2>1 DEF BindFunding, Fund
  <2>2. CASE \E l \in LP : RegisterLp(l) \/ \E a \in Addr : Deposit(l, a)
    BY <1>1, <2>2 DEF RegisterLp, Deposit
  <2>3. CASE Sync \/ UNCHANGED vars
    BY <1>1, <2>3 DEF Sync, vars
  <2>4. QED
    BY <1>2, <1>3, <1>4, <1>5, <1>6, <2>1, <2>2, <2>3 DEF Next, Orchestrate

LEMMA RegisterMoves ==
    ASSUME WatchTyped, RestTyped, FewDeposits, NEW l \in LP, RegisterLp(l)
    PROVE  \E a \in Addr : Registers(l, a)
<1>1. PICK a \in (IF Known(l) # {} THEN Known(l) ELSE {GetAddress}) :
         /\ watch' = With(watch, a, Armed(l)) /\ told' = [told EXCEPT ![a] = @ \cup {l}]
         /\ \/ Reopened(a) /\ again' = again \cup {a} /\ Fault
            \/ ~Reopened(a) /\ UNCHANGED <<again, faults>>
  BY DEF RegisterLp
<1>2. a \in Addr /\ again \subseteq Addr
  BY <1>1, GetAddressIsThere DEF Known, WatchTyped, RestTyped
<1>3. UNCHANGED <<tip, deps, seen, opening, nextUid, chans, bound, tick, restarted>>
  BY DEF RegisterLp
<1>4. Registers(l, a)
  BY <1>1, <1>2, <1>3 DEF Registers
<1>5. QED
  BY <1>2, <1>4

\* Every step is one of the five.
LEMMA VaultStep ==
    ASSUME TypeOK, FewDeposits, [Next]_vars
    PROVE  VaultMoves
<1>0. TickTyped /\ WatchTyped /\ RestTyped /\ IdsTyped /\ ChansTyped
  BY TypeOKParts
<1>1. CASE \E l \in LP : RegisterLp(l)
  BY <1>0, <1>1, RegisterMoves DEF VaultMoves
<1>2. CASE \E l \in LP : \E a \in Addr : Deposit(l, a)
  BY <1>2 DEF VaultMoves
<1>3. ASSUME NEW w \in tick.todo, OpenChannel(w) PROVE VaultMoves
  <2>1. w.lp \in LP /\ w.addr \in Addr
    BY <1>0 DEF TickTyped, Visit
  <2>2. AddChan(nextUid, w.lp, w.addr)
    BY <1>0, <1>3, <2>1, OpenAdds DEF IdsTyped
  <2>3. tick'.todo = tick.todo \ {w}
    BY <1>0, <1>3, VisitedFacts DEF OpenChannel
  <2>4. Opens(w)
    BY <1>3, <2>2, <2>3 DEF OpenChannel, Opens, MarkOpening, TakeUid
  <2>5. QED
    BY <2>4 DEF VaultMoves
<1>4. CASE Restart
  BY <1>0, <1>4, RestartKeeps DEF VaultMoves
<1>5. CASE \E w \in tick.todo : OpenRefused(w) \/ Skip(w)
  <2>1. tick'.todo \subseteq tick.todo
    BY <1>0, <1>5, VisitedFacts DEF OpenRefused, Skip
  <2>2. ChansKept
    BY <1>0, <1>5, ChansUnchanged DEF OpenRefused, Skip
  <2>3. QED
    BY <1>5, <2>1, <2>2 DEF OpenRefused, Skip, registry, GoesOn, VaultMoves
<1>6. CASE StartTick
  <2>1. ChansKept /\ tick'.todo = {[addr |-> a, lp |-> watch[a].lp] : a \in Pending}
    BY <1>0, <1>6, ChansUnchanged, StartFacts DEF StartTick
  <2>2. QED
    BY <1>6, <2>1 DEF StartTick, registry, GoesOn, VaultMoves
<1>7. CASE EndOpens \/ EndTick
  <2>1. ChansKept
    BY <1>0, <1>7, ChansUnchanged DEF EndOpens, EndTick
  <2>2. tick'.todo \subseteq tick.todo
    BY <1>0, <1>7 DEF EndOpens, EndTick, TickTyped, Idle
  <2>3. QED
    BY <1>7, <2>1, <2>2 DEF EndOpens, EndTick, registry, GoesOn, VaultMoves
<1>8. CASE \E c \in DOMAIN chans : BindFunding(c)
  <2>1. ChansKept
    BY <1>0, <1>8, ChansUnchanged DEF BindFunding
  <2>2. QED
    BY <1>8, <2>1 DEF BindFunding, GoesOn, VaultMoves
<1>9. CASE \E c \in DOMAIN chans : Fund(c)
  <2>1. ChansKept
    BY <1>0, <1>9, FundKeeps
  <2>2. QED
    BY <1>9, <2>1 DEF Fund, registry, GoesOn, VaultMoves
<1>10. CASE NewBlock \/ Sync \/ UNCHANGED vars
  <2>1. ChansKept
    BY <1>0, <1>10, ChansUnchanged DEF NewBlock, Sync, vars
  <2>2. QED
    BY <1>10, <2>1 DEF NewBlock, Sync, vars, registry, GoesOn, VaultMoves
<1>11. QED
  BY <1>1, <1>2, <1>3, <1>4, <1>5, <1>6, <1>7, <1>8, <1>9, <1>10 DEF Next, Orchestrate

LEMMA TypeStep ==
    ASSUME TypeOK, FewDeposits, [Next]_vars
    PROVE  WatchTyped' /\ IdsTyped' /\ ChansTyped' /\ RestTyped'
<1>0. TickTyped /\ WatchTyped /\ RestTyped /\ IdsTyped /\ ChansTyped /\ tip \in Nat
  BY TypeOKParts, VaultAssumption DEF RestTyped
<1>1. RestTyped'
  <2>1. ASSUME NEW l \in LP, NEW a \in Addr, Deposit(l, a) PROVE RestTyped'
    <3>1. Cardinality(deps) \in Nat /\ Cardinality(deps) < MaxDeposits
      BY <2>1, FS_CardinalityType DEF Deposit, FewDeposits
    <3>2. Cardinality(deps) + 1 \in 1..MaxDeposits
      BY <3>1, VaultAssumption
    <3>3. QED
      BY <1>0, <2>1, <3>2 DEF Deposit, RestTyped
  <2>2. ASSUME NEW l \in LP, NEW a \in Addr, Registers(l, a) PROVE RestTyped'
    <3>1. told' \in [Addr -> SUBSET LP]
      BY <1>0, <2>2 DEF Registers, RestTyped
    <3>2. faults' \in 0..MaxFaults
      BY <1>0, <2>2, VaultAssumption DEF Registers, Fault, RestTyped
    <3>3. QED
      BY <1>0, <2>2, <3>1, <3>2 DEF Registers, RestTyped
  <2>3. CASE NewBlock
    BY <1>0, <2>3, VaultAssumption DEF NewBlock, RestTyped
  <2>4. ASSUME UNCHANGED <<tip, deps, told, seen, again>>, Fault \/ UNCHANGED faults PROVE RestTyped'
    BY <1>0, <2>4, VaultAssumption DEF RestTyped, Fault
  <2>5. CASE StartTick \/ EndOpens \/ EndTick \/ Restart \/ UNCHANGED vars
    BY <2>4, <2>5 DEF StartTick, EndOpens, EndTick, Restart, vars
  <2>6. CASE \E w \in tick.todo : OpenChannel(w) \/ OpenRefused(w) \/ Skip(w)
    BY <2>4, <2>6 DEF OpenChannel, OpenRefused, Skip
  <2>7. CASE \E c \in DOMAIN chans : BindFunding(c) \/ Fund(c)
    BY <2>4, <2>7 DEF BindFunding, Fund
  <2>8. CASE Sync
    BY <1>0, <2>8 DEF Sync, RestTyped
  <2>9. ASSUME NEW l \in LP, RegisterLp(l) PROVE RestTyped'
    BY <1>0, <2>2, <2>9, RegisterMoves
  <2>10. QED
    BY <2>1, <2>3, <2>5, <2>6, <2>7, <2>8, <2>9 DEF Next, Orchestrate
<1>2. CASE \E l \in LP, a \in Addr : Registers(l, a)
  <2>1. PICK l \in LP, a \in Addr : Registers(l, a)
    BY <1>2
  <2>2. Armed(l) \in [lp : LP, until : Nat]
    BY <1>0, VaultAssumption DEF Armed
  <2>3. WatchTyped'
    BY <1>0, <2>1, <2>2 DEF Registers, With, WatchTyped
  <2>4. QED
    BY <1>0, <1>1, <2>1, <2>3 DEF Registers, IdsTyped, ChansTyped
<1>3. CASE \E l \in LP, a \in Addr : Deposit(l, a)
  BY <1>0, <1>1, <1>3 DEF Deposit, registry, WatchTyped, IdsTyped, ChansTyped
<1>4. CASE \E w \in tick.todo : Opens(w)
  <2>1. PICK w \in tick.todo : Opens(w)
    BY <1>4
  <2>2. w.lp \in LP
    BY <1>0 DEF TickTyped, Visit
  <2>3. WatchTyped'
    BY <1>0, <2>1 DEF Opens, Without, WatchTyped
  <2>4. IdsTyped'
    <3>1. nextUid' = nextUid + 1 /\ nextUid \in Nat /\ opening' = With(opening, nextUid, w.lp)
      BY <1>0, <2>1 DEF Opens, IdsTyped
    <3>2. ASSUME NEW u \in DOMAIN opening' PROVE u \in Nat /\ u < nextUid' /\ opening'[u] \in LP
      <4>1. CASE u = nextUid
        BY <2>2, <3>1, <3>2, <4>1 DEF With
      <4>2. CASE u # nextUid
        <5>1. u \in DOMAIN opening /\ opening'[u] = opening[u]
          BY <3>1, <3>2, <4>2 DEF With
        <5>2. u \in Nat /\ u < nextUid /\ opening[u] \in LP
          BY <1>0, <5>1 DEF IdsTyped
        <5>3. QED
          BY <3>1, <5>1, <5>2
      <4>3. QED
        BY <4>1, <4>2
    <3>3. QED
      BY <3>1, <3>2 DEF IdsTyped
  <2>5. QED
    BY <1>1, <2>1, <2>3, <2>4 DEF Opens, AddChan
<1>5. CASE Restart /\ ChansKept
  BY <1>1, <1>5 DEF Restart, EmptyMap, ChansKept, WatchTyped, IdsTyped
<1>6. CASE GoesOn
  <2>1. WatchTyped' /\ ChansTyped'
    BY <1>0, <1>6 DEF GoesOn, WatchTyped, ChansKept
  <2>2. nextUid \in Nat /\ nextUid' \in {nextUid, nextUid + 1}
    BY <1>0, <1>6 DEF GoesOn, IdsTyped
  <2>3. ASSUME NEW u \in DOMAIN opening' PROVE u \in DOMAIN opening /\ opening'[u] = opening[u]
    BY <1>6, <2>3 DEF GoesOn, Without
  <2>4. IdsTyped'
    BY <1>0, <2>2, <2>3 DEF IdsTyped
  <2>5. QED
    BY <1>1, <2>1, <2>4
<1>7. QED
  BY <1>2, <1>3, <1>4, <1>5, <1>6, VaultStep DEF VaultMoves

-----------------------------------------------------------------------------
(* Who was told what. *)

LEMMA FewStep ==
    ASSUME TypeOK, FewDeposits, [Next]_vars
    PROVE  FewDeposits'
<1>0. told \in [Addr -> SUBSET LP]
  BY DEF TypeOK
<1>1. CASE UNCHANGED <<deps, told>> /\ seen' \in {seen, {d.addr : d \in deps}}
  BY <1>1 DEF FewDeposits
<1>2. ASSUME NEW l \in LP, NEW a \in Addr, Registers(l, a) PROVE FewDeposits'
  <2>1. UNCHANGED <<deps, seen>> /\ told' = [told EXCEPT ![a] = @ \cup {l}]
    BY <1>2 DEF Registers
  <2>2. \A b \in Addr : told'[b] = told[b] \/ told'[b] = told[b] \cup {l}
    BY <1>0, <2>1
  <2>3. \A b \in Addr : IsFiniteSet(told[b] \cup {l})
    BY FS_AddElement DEF FewDeposits
  <2>4. QED
    BY <2>1, <2>2, <2>3 DEF FewDeposits
<1>3. ASSUME NEW l \in LP, NEW a \in Addr, Deposit(l, a) PROVE FewDeposits'
  <2> DEFINE d == [n |-> Cardinality(deps) + 1, lp |-> l, addr |-> a, h |-> tip]
  <2>1. deps' = deps \cup {d} /\ UNCHANGED <<told, seen>> /\ Cardinality(deps) < MaxDeposits
    BY <1>3 DEF Deposit
  <2> HIDE DEF d
  <2>2. IsFiniteSet(deps) /\ Cardinality(deps) \in Nat
    BY FS_CardinalityType DEF FewDeposits
  <2>3. IsFiniteSet(deps') /\ Cardinality(deps') <= Cardinality(deps) + 1 /\ Cardinality(deps') \in Nat
    <3>1. IsFiniteSet(deps \cup {d}) /\
          Cardinality(deps \cup {d}) = IF d \in deps THEN Cardinality(deps) ELSE Cardinality(deps) + 1
      BY <2>2, FS_AddElement
    <3>2. Cardinality(deps \cup {d}) \in {Cardinality(deps), Cardinality(deps) + 1}
      BY <3>1
    <3>3. QED
      BY <2>1, <2>2, <3>1, <3>2
  <2>4. QED
    BY <2>1, <2>2, <2>3, VaultAssumption DEF FewDeposits
<1>4. QED
  BY <1>1, <1>2, <1>3, VaultStep DEF VaultMoves, Opens, Restart, GoesOn

\* Nothing that was told or paid is forgotten.
LEMMA NothingForgotten ==
    ASSUME TypeOK, FewDeposits, [Next]_vars
    PROVE  /\ \A a \in Addr : told[a] \subseteq told'[a]
           /\ \A a \in Addr : (Repeated(a) => Repeated(a)') /\ (Paid(a) => Paid(a)')
<1>0. told \in [Addr -> SUBSET LP]
  BY DEF TypeOK
<1>1. \A a \in Addr : told[a] \subseteq told'[a]
  BY <1>0, VaultStep DEF VaultMoves, Registers, Deposit, Opens, Restart, GoesOn
<1>2. deps \subseteq deps' /\ again \subseteq again'
  BY VaultStep DEF VaultMoves, Registers, Deposit, Opens, Restart, GoesOn
<1>3. QED
  BY <1>1, <1>2 DEF Paid, Repeated, Twice

LEMMA ToldStep ==
    ASSUME TypeOK, FewDeposits, OnlyTold, [Next]_vars
    PROVE  OnlyTold'
<1>0. /\ TickTyped /\ WatchTyped /\ RestTyped /\ IdsTyped /\ ChansTyped
      /\ \A w \in tick.todo : w.addr \in Addr /\ w.lp \in LP
  BY TypeOKParts DEF TickTyped, Visit
<1>1. \A a \in Addr : told[a] \subseteq told'[a]
  BY NothingForgotten
<1>2. \A c \in DOMAIN chans : chans[c].addr \in Addr
  BY <1>0, ChanFields
<1>3. \A d \in deps : d.addr \in Addr
  BY <1>0 DEF RestTyped
<1>4. CASE \E l \in LP, a \in Addr : Registers(l, a)
  <2>1. PICK l \in LP, a \in Addr : Registers(l, a)
    BY <1>4
  <2>2. UNCHANGED <<deps, chans, tick>> /\ watch' = With(watch, a, Armed(l)) /\ l \in told'[a]
    BY <1>0, <2>1 DEF Registers, RestTyped
  <2>3. \A b \in DOMAIN watch' : watch'[b].lp \in told'[b]
    BY <1>0, <1>1, <2>2 DEF With, Armed, WatchTyped, OnlyTold
  <2>4. QED
    BY <1>0, <1>1, <1>2, <1>3, <2>2, <2>3 DEF OnlyTold
<1>5. CASE \E l \in LP, a \in Addr : Deposit(l, a)
  BY <1>0, <1>5 DEF Deposit, registry, OnlyTold
<1>6. CASE \E w \in tick.todo : Opens(w)
  <2>1. PICK w \in tick.todo : Opens(w)
    BY <1>6
  <2>2. \A a \in DOMAIN watch' : a \in DOMAIN watch /\ watch'[a] = watch[a]
    BY <2>1 DEF Opens, Without
  <2>3. UNCHANGED <<deps, told>> /\ tick'.todo \subseteq tick.todo
    BY <2>1 DEF Opens
  <2>4. \A c \in DOMAIN chans' : chans'[c].lp \in told[chans'[c].addr]
    BY <2>1 DEF Opens, AddChan, OnlyTold
  <2>5. QED
    BY <2>2, <2>3, <2>4 DEF OnlyTold
<1>7. CASE Restart /\ ChansKept
  <2>1. tick'.todo = {} /\ DOMAIN watch' = {} /\ UNCHANGED <<deps, told>>
    BY <1>7 DEF Restart, Idle, EmptyMap
  <2>2. QED
    BY <1>7, <2>1 DEF OnlyTold, ChansKept
<1>8. CASE GoesOn
  <2>1. \A w \in tick'.todo : w.lp \in told[w.addr]
    BY <1>8 DEF GoesOn, OnlyTold, Pending
  <2>2. QED
    BY <1>8, <2>1 DEF GoesOn, OnlyTold, ChansKept
<1>9. QED
  BY <1>4, <1>5, <1>6, <1>7, <1>8, VaultStep DEF VaultMoves

-----------------------------------------------------------------------------
(* One channel for one deposit. *)

LEMMA ConsumedStep ==
    ASSUME TypeOK, FewDeposits, OnlyTold, Consumed, [Next]_vars
    PROVE  Consumed'
<1>0. /\ TickTyped /\ WatchTyped /\ RestTyped /\ ChansTyped
      /\ \A w \in tick.todo : w.addr \in Addr /\ w \in Visit
      /\ \A c \in DOMAIN chans : chans[c].addr \in Addr
  BY TypeOKParts, ChanFields DEF TickTyped, Visit
<1>1. \A a \in Addr : (Repeated(a) => Repeated(a)') /\ (Paid(a) => Paid(a)')
  BY NothingForgotten
\* A step that adds no channel and polls no new address.
<1>2. ASSUME ChansKept, NEW A \in SUBSET Addr,
             \A a \in DOMAIN watch' : a \in DOMAIN watch \cup A,
             \A w \in tick'.todo : w \in tick.todo \/ w.addr \in DOMAIN watch,
             \A a \in A : Reopened(a) => a \in again',
             A \cap DOMAIN watch = {}
      PROVE  Consumed'
  <2> SUFFICES ASSUME NEW c \in DOMAIN chans'
               PROVE  /\ Paid(chans[c].addr)'
                      /\ \/ Repeated(chans[c].addr)'
                         \/ /\ chans'[c].addr \notin DOMAIN watch'
                            /\ \A w \in tick'.todo : w.addr # chans'[c].addr
                            /\ \A e \in DOMAIN chans' : chans'[e].addr = chans'[c].addr => e = c
    BY DEF Consumed
  <2>1. c \in DOMAIN chans /\ chans'[c].addr = chans[c].addr /\ chans[c].addr \in Addr
    BY <1>0, <1>2 DEF ChansKept
  <2>2. /\ Paid(chans[c].addr)
        /\ \/ Repeated(chans[c].addr)
           \/ /\ chans[c].addr \notin DOMAIN watch
              /\ \A w \in tick.todo : w.addr # chans[c].addr
              /\ \A e \in DOMAIN chans : chans[e].addr = chans[c].addr => e = c
    BY <2>1 DEF Consumed
  <2>3. Paid(chans[c].addr)'
    BY <1>1, <2>1, <2>2 DEF Paid
  <2>4. CASE Repeated(chans[c].addr)
    BY <1>1, <2>1, <2>3, <2>4 DEF Repeated, Twice
  <2>5. CASE chans[c].addr \in A
    <3>1. Reopened(chans[c].addr)
      BY <1>2, <2>1, <2>5 DEF Reopened
    <3>2. chans'[c].addr \in again'
      BY <1>2, <2>1, <2>5, <3>1
    <3>3. QED
      BY <2>3, <3>2 DEF Repeated
  <2>6. CASE /\ chans[c].addr \notin A /\ chans[c].addr \notin DOMAIN watch
             /\ \A w \in tick.todo : w.addr # chans[c].addr
             /\ \A e \in DOMAIN chans : chans[e].addr = chans[c].addr => e = c
    BY <1>2, <2>1, <2>2, <2>3, <2>6 DEF ChansKept
  <2>7. QED
    BY <2>2, <2>4, <2>5, <2>6
<1>3. CASE \E l \in LP, a \in Addr : Registers(l, a)
  <2>1. PICK l \in LP, a \in Addr : Registers(l, a)
    BY <1>3
  <2>2. ChansKept /\ tick' = tick
    BY <1>0, <2>1, ChansUnchanged DEF Registers
  <2>3. CASE a \in DOMAIN watch
    <3>1. DOMAIN watch' = DOMAIN watch
      BY <2>1, <2>3 DEF Registers, With
    <3>2. {} \in SUBSET Addr
      OBVIOUS
    <3>3. QED
      BY <1>2, <2>2, <3>1, <3>2
  <2>4. CASE a \notin DOMAIN watch
    <3>1. DOMAIN watch' = DOMAIN watch \cup {a} /\ (Reopened(a) => a \in again')
      BY <2>1, <2>4 DEF Registers, With
    <3>2. /\ {a} \in SUBSET Addr /\ {a} \cap DOMAIN watch = {}
          /\ \A b \in {a} : Reopened(b) => b \in again'
      BY <2>4, <3>1
    <3>3. QED
      BY <1>2, <2>2, <3>1, <3>2
  <2>5. QED
    BY <2>3, <2>4
<1>4. CASE \E l \in LP, a \in Addr : Deposit(l, a)
  <2>1. ChansKept /\ UNCHANGED <<watch, tick>>
    BY <1>0, <1>4, ChansUnchanged DEF Deposit, registry
  <2>2. {} \in SUBSET Addr /\ DOMAIN watch' = DOMAIN watch \cup {}
    BY <2>1
  <2>3. QED
    BY <1>2, <2>1, <2>2
<1>5. CASE Restart /\ ChansKept
  <2>1. DOMAIN watch' = {} /\ tick'.todo = {}
    BY <1>5 DEF Restart, EmptyMap, Idle
  <2>2. QED
    BY <1>2, <1>5, <2>1
<1>6. CASE GoesOn
  <2>1. ChansKept /\ UNCHANGED watch
    BY <1>6 DEF GoesOn
  <2>2. \A w \in tick'.todo : w \in tick.todo \/ w.addr \in DOMAIN watch
    BY <1>6 DEF GoesOn, Pending
  <2>3. {} \in SUBSET Addr /\ DOMAIN watch' = DOMAIN watch \cup {}
    BY <2>1
  <2>4. QED
    BY <1>2, <2>1, <2>2, <2>3
<1>7. ASSUME NEW w \in tick.todo, Opens(w) PROVE Consumed'
  <2> DEFINE n == Len(chans) + 1
  <2>1. /\ DOMAIN chans' = DOMAIN chans \cup {n} /\ n \notin DOMAIN chans
        /\ \A c \in DOMAIN chans : chans'[c].addr = chans[c].addr
        /\ chans'[n].addr = w.addr /\ w.addr \in Addr
    BY <1>0, <1>7 DEF Opens, AddChan
  <2>2. tick'.todo = tick.todo \ {w} /\ UNCHANGED <<told, again, deps, tip>>
    BY <1>7 DEF Opens
  <2>3. DOMAIN watch' = DOMAIN watch \ {w.addr}
    BY <1>7 DEF Opens, Without
  <2> HIDE DEF n
  <2>4. Paid(w.addr)
    BY <1>7 DEF Opens, Confirmed, Paid
  \* Another visit of the address would be of another LP.
  <2>5. Repeated(w.addr) \/ \A v \in tick.todo : v.addr = w.addr => v = w
    BY <1>0 DEF OnlyTold, Repeated, Twice, Visit
  <2>6. Repeated(w.addr) \/ \A c \in DOMAIN chans : chans[c].addr # w.addr
    BY DEF Consumed
  <2> SUFFICES ASSUME NEW c \in DOMAIN chans'
               PROVE  /\ Paid(chans'[c].addr)
                      /\ \/ Repeated(chans'[c].addr)
                         \/ /\ chans'[c].addr \notin DOMAIN watch'
                            /\ \A v \in tick'.todo : v.addr # chans'[c].addr
                            /\ \A e \in DOMAIN chans' : chans'[e].addr = chans'[c].addr => e = c
    BY <2>2 DEF Consumed, Paid, Repeated, Twice
  <2>7. CASE c = n
    <3>1. chans'[c].addr = w.addr /\ chans'[c].addr \notin DOMAIN watch'
      BY <2>1, <2>3, <2>7
    <3>2. CASE Repeated(w.addr)
      BY <2>4, <3>1, <3>2
    <3>3. CASE ~Repeated(w.addr)
      BY <2>1, <2>2, <2>4, <2>5, <2>6, <2>7, <3>1, <3>3
    <3>4. QED
      BY <3>2, <3>3
  <2>8. CASE c \in DOMAIN chans
    <3>1. chans'[c].addr = chans[c].addr /\ Paid(chans[c].addr)
      BY <2>1, <2>8 DEF Consumed
    <3>2. CASE Repeated(chans[c].addr)
      BY <3>1, <3>2
    <3>3. CASE ~Repeated(chans[c].addr)
      <4>1. /\ chans[c].addr \notin DOMAIN watch
            /\ \A v \in tick.todo : v.addr # chans[c].addr
            /\ \A e \in DOMAIN chans : chans[e].addr = chans[c].addr => e = c
        BY <2>8, <3>3 DEF Consumed
      <4>2. chans[c].addr # w.addr
        BY <4>1
      <4>3. \A e \in DOMAIN chans' : chans'[e].addr = chans'[c].addr => e = c
        BY <2>1, <3>1, <4>1, <4>2
      <4>4. QED
        BY <2>2, <2>3, <3>1, <4>1, <4>3
    <3>4. QED
      BY <3>2, <3>3
  <2>9. QED
    BY <2>1, <2>7, <2>8
<1>8. QED
  BY <1>3, <1>4, <1>5, <1>6, <1>7, VaultStep DEF VaultMoves

-----------------------------------------------------------------------------
(* Bindings and watches. *)

LEMMA IdsStep ==
    ASSUME TypeOK, FewDeposits, IdsOwn, [Next]_vars
    PROVE  IdsOwn'
<1>0. /\ IdsTyped /\ ChansTyped /\ nextUid \in Nat
      /\ \A c \in DOMAIN chans : chans[c].uid \in Nat
  BY TypeOKParts, ChanFields DEF IdsTyped
<1>1. CASE UNCHANGED <<chans, opening, nextUid, restarted>>
  BY <1>1 DEF IdsOwn
<1>2. CASE (\E l \in LP, a \in Addr : Registers(l, a)) \/ (\E l \in LP, a \in Addr : Deposit(l, a))
  BY <1>1, <1>2 DEF Registers, Deposit, registry
<1>3. CASE Restart /\ ChansKept
  BY <1>3 DEF Restart, IdsOwn
<1>4. CASE GoesOn
  <2>1. \A u \in DOMAIN opening' : u \in DOMAIN opening /\ opening'[u] = opening[u]
    BY <1>4 DEF GoesOn, Without
  <2>2. /\ UNCHANGED restarted /\ nextUid' \in {nextUid, nextUid + 1} /\ DOMAIN chans' = DOMAIN chans
        /\ \A c \in DOMAIN chans : chans'[c].uid = chans[c].uid /\ chans'[c].lp = chans[c].lp
    BY <1>4 DEF GoesOn, ChansKept
  <2>3. QED
    BY <1>0, <2>1, <2>2 DEF IdsOwn
<1>5. ASSUME NEW w \in tick.todo, Opens(w) PROVE IdsOwn'
  <2> SUFFICES ASSUME ~restarted', NEW c \in DOMAIN chans'
               PROVE  /\ chans'[c].uid < nextUid'
                      /\ chans'[c].uid \in DOMAIN opening' => opening'[chans'[c].uid] = chans'[c].lp
    BY DEF IdsOwn
  <2>1. ~restarted /\ nextUid' = nextUid + 1 /\ opening' = With(opening, nextUid, w.lp)
    BY <1>5 DEF Opens
  <2>2. CASE c \in DOMAIN chans
    <3>1. chans'[c] = chans[c] /\ chans[c].uid < nextUid /\ chans[c].uid \in Nat
      BY <1>0, <1>5, <2>1, <2>2 DEF Opens, AddChan, IdsOwn
    <3>2. chans[c].uid # nextUid /\ chans[c].uid < nextUid'
      BY <1>0, <2>1, <3>1
    <3>3. QED
      BY <2>1, <2>2, <3>1, <3>2 DEF With, IdsOwn
  <2>3. CASE c \notin DOMAIN chans
    <3>1. chans'[c].uid = nextUid /\ chans'[c].lp = w.lp
      BY <1>5, <2>3 DEF Opens, AddChan
    <3>2. QED
      BY <1>0, <2>1, <3>1 DEF With
  <2>4. QED
    BY <2>2, <2>3
<1>6. QED
  BY <1>2, <1>3, <1>4, <1>5, VaultStep DEF VaultMoves

LEMMA BoundStep ==
    ASSUME TypeOK, FewDeposits, IdsOwn, BoundToItsLp, [Next]_vars
    PROVE  BoundTyped' /\ BoundToItsLp'
<1>0. BoundTyped /\ ChansTyped /\ IdsTyped
  BY TypeOKParts
<1>1. ASSUME NEW c \in DOMAIN chans, BindFunding(c) PROVE BoundTyped' /\ BoundToItsLp'
  <2>1. /\ UNCHANGED <<chans, restarted>> /\ bound' = With(bound, c, opening[chans[c].uid])
        /\ chans[c].uid \in DOMAIN opening
    BY <1>1 DEF BindFunding, Bindable
  <2>2. opening[chans[c].uid] \in LP /\ (opening[chans[c].uid] = chans[c].lp \/ restarted)
    BY <1>0, <2>1 DEF IdsTyped, IdsOwn
  <2>3. QED
    BY <1>0, <2>1, <2>2 DEF With, BoundTyped, BoundToItsLp
<1>2. ASSUME UNCHANGED bound PROVE BoundTyped' /\ BoundToItsLp'
  <2>1. /\ DOMAIN chans \subseteq DOMAIN chans'
        /\ \A c \in DOMAIN chans : chans'[c].lp = chans[c].lp
    <3>1. CASE \E uid, l, a : AddChan(uid, l, a)
      BY <3>1 DEF AddChan
    <3>2. CASE ChansKept
      BY <3>2 DEF ChansKept
    <3>3. CASE UNCHANGED chans
      BY <3>3
    <3>4. QED
      BY <3>1, <3>2, <3>3, VaultStep DEF VaultMoves, Registers, Deposit, Opens, GoesOn
  <2>2. restarted => restarted'
    BY VaultStep DEF VaultMoves, Registers, Deposit, Opens, Restart, GoesOn
  <2>3. QED
    BY <1>0, <1>2, <2>1, <2>2 DEF BoundTyped, BoundToItsLp
<1>3. CASE StartTick \/ EndOpens \/ EndTick \/ Restart \/ NewBlock \/ Sync \/ UNCHANGED vars
  BY <1>2, <1>3 DEF StartTick, EndOpens, EndTick, Restart, NewBlock, Sync, vars
<1>4. CASE \E w \in tick.todo : OpenChannel(w) \/ OpenRefused(w) \/ Skip(w)
  BY <1>2, <1>4 DEF OpenChannel, OpenRefused, Skip
<1>5. CASE \E l \in LP : RegisterLp(l) \/ \E a \in Addr : Deposit(l, a)
  BY <1>2, <1>5 DEF RegisterLp, Deposit
<1>6. CASE \E c \in DOMAIN chans : Fund(c)
  BY <1>2, <1>6 DEF Fund
<1>7. QED
  BY <1>1, <1>3, <1>4, <1>5, <1>6 DEF Next, Orchestrate

LEMMA WatchedStep ==
    ASSUME TypeOK, FewDeposits, OnlyTold, StaysWatched, [Next]_vars
    PROVE  StaysWatched'
<1>0. /\ TickTyped /\ WatchTyped /\ RestTyped /\ ChansTyped
      /\ \A w \in tick.todo : w.addr \in Addr /\ w.lp \in LP
  BY TypeOKParts DEF TickTyped, Visit
<1>1. CASE Restart
  BY <1>1 DEF Restart, StaysWatched
<1>2. restarted => restarted'
  BY VaultStep DEF VaultMoves, Registers, Deposit, Opens, Restart, GoesOn
<1>3. CASE \E l \in LP, a \in Addr : Registers(l, a)
  <2>1. PICK l \in LP, a \in Addr : Registers(l, a)
    BY <1>3
  <2>2. /\ UNCHANGED chans /\ watch' = With(watch, a, Armed(l)) /\ l \in told'[a]
        /\ \A b \in Addr : told'[b] = IF b = a THEN told[a] \cup {l} ELSE told[b]
    BY <1>0, <2>1 DEF Registers, RestTyped
  <2> SUFFICES ASSUME ~restarted', NEW b \in Addr, NEW m \in told'[b]
               PROVE  \/ b \in DOMAIN watch' /\ watch'[b].lp = m
                      \/ \E c \in OpensFor(m)' : chans'[c].addr = b
                      \/ Twice(b)'
    BY DEF StaysWatched
  <2>3. CASE b = a
    BY <2>2, <2>3 DEF With, Armed, Twice
  <2>4. CASE b # a
    <3>1. /\ m \in told[b] /\ told'[b] = told[b] /\ ~restarted
          /\ b \in DOMAIN watch => b \in DOMAIN watch' /\ watch'[b] = watch[b]
      BY <1>2, <2>2, <2>4 DEF With
    <3>2. QED
      BY <2>2, <3>1 DEF StaysWatched, OpensFor, Twice
  <2>5. QED
    BY <2>3, <2>4
<1>4. CASE \E l \in LP, a \in Addr : Deposit(l, a)
  BY <1>4 DEF Deposit, registry, StaysWatched, OpensFor, Twice
<1>5. CASE GoesOn
  <2>1. UNCHANGED <<told, watch, restarted>> /\ ChansKept
    BY <1>5 DEF GoesOn
  <2>2. QED
    BY <2>1 DEF ChansKept, StaysWatched, OpensFor, Twice
<1>6. ASSUME NEW w \in tick.todo, Opens(w) PROVE StaysWatched'
  <2> DEFINE n == Len(chans) + 1
  <2>1. /\ DOMAIN chans' = DOMAIN chans \cup {n}
        /\ \A c \in DOMAIN chans : chans'[c] = chans[c]
        /\ chans'[n].addr = w.addr /\ chans'[n].lp = w.lp
    BY <1>6 DEF Opens, AddChan
  <2> HIDE DEF n
  <2>2. UNCHANGED <<told, restarted>> /\ watch' = Without(watch, w.addr)
    BY <1>6 DEF Opens
  <2> SUFFICES ASSUME ~restarted', NEW a \in Addr, NEW l \in told'[a]
               PROVE  \/ a \in DOMAIN watch' /\ watch'[a].lp = l
                      \/ \E c \in OpensFor(l)' : chans'[c].addr = a
                      \/ Twice(a)'
    BY DEF StaysWatched
  <2>3. CASE a = w.addr
    <3>1. l = w.lp \/ Twice(a)
      BY <2>2, <2>3 DEF OnlyTold, Twice
    <3>2. QED
      BY <2>1, <2>2, <2>3, <3>1 DEF OpensFor, Twice
  <2>4. CASE a # w.addr
    <3>1. a \in DOMAIN watch => a \in DOMAIN watch' /\ watch'[a] = watch[a]
      BY <2>2, <2>4 DEF Without
    <3>2. \/ a \in DOMAIN watch /\ watch[a].lp = l
          \/ \E c \in OpensFor(l) : chans[c].addr = a
          \/ Twice(a)
      BY <2>2 DEF StaysWatched
    <3>3. QED
      BY <2>1, <2>2, <3>1, <3>2 DEF OpensFor, Twice
  <2>5. QED
    BY <2>3, <2>4
<1>7. QED
  BY <1>1, <1>3, <1>4, <1>5, <1>6, VaultStep DEF VaultMoves

-----------------------------------------------------------------------------
(* The theorems. *)

LEMMA Initially == Init => VaultInv
<1> SUFFICES ASSUME Init PROVE VaultInv
  OBVIOUS
<1>1. chans \in Seq(ChanType) /\ DOMAIN chans = {}
  BY EmptySeq DEF Init
<1>2. DOMAIN watch = {} /\ DOMAIN opening = {} /\ DOMAIN bound = {} /\ tick.todo = {}
  BY DEF Init, EmptyMap, Idle
<1>3. restarted \in BOOLEAN
  BY Zenon DEF Init
<1>4. TickTyped
  BY DEF Init, TickTyped, Idle
<1>5. WatchTyped /\ BoundTyped /\ ChansTyped
  BY <1>1, <1>2 DEF WatchTyped, BoundTyped, ChansTyped
<1>6. IdsTyped /\ RestTyped
  BY <1>2, VaultAssumption DEF Init, IdsTyped, RestTyped
<1>7. FewDeposits
  BY FS_EmptySet, VaultAssumption DEF Init, FewDeposits
<1>8. OnlyTold /\ Consumed /\ IdsOwn /\ BoundToItsLp
  BY <1>1, <1>2 DEF Init, OnlyTold, Consumed, IdsOwn, BoundToItsLp
<1>9. StaysWatched
  BY DEF Init, StaysWatched
<1>10. QED
  BY <1>3, <1>4, <1>5, <1>6, <1>7, <1>8, <1>9, TypeOKParts DEF VaultInv

\* The inductive invariant of the vault, for every interleaving of onboarding,
\* deposits, blocks, the orchestrator's tick, LDK and restarts.
THEOREM VaultCorrect == Spec => []VaultInv
<1>1. VaultInv /\ [Next]_vars => VaultInv'
  <2> SUFFICES ASSUME VaultInv, [Next]_vars PROVE VaultInv'
    OBVIOUS
  <2>1. /\ TypeOK /\ FewDeposits /\ OnlyTold /\ Consumed /\ IdsOwn /\ StaysWatched
        /\ BoundToItsLp
    BY DEF VaultInv
  <2>2. TickTyped' /\ WatchTyped' /\ IdsTyped' /\ ChansTyped' /\ RestTyped'
    BY <2>1, TickStep, TypeStep
  <2>3. BoundTyped' /\ BoundToItsLp'
    BY <2>1, BoundStep
  <2>4. restarted' \in BOOLEAN
    <3>1. restarted \in BOOLEAN /\ TRUE \in BOOLEAN
      BY <2>1, Zenon DEF TypeOK
    <3>2. restarted' = restarted \/ restarted' = TRUE
      BY <2>1, VaultStep DEF VaultMoves, Registers, Deposit, Opens, Restart, GoesOn
    <3>3. QED
      BY <3>1, <3>2, Zenon
  <2>5. TypeOK'
    BY <2>2, <2>3, <2>4 DEF TypeOK, TickTyped, WatchTyped, IdsTyped, BoundTyped, RestTyped,
                            ChansTyped, ChanType, Visit
  <2>6. FewDeposits' /\ OnlyTold' /\ Consumed' /\ IdsOwn' /\ StaysWatched'
    BY <2>1, FewStep, ToldStep, ConsumedStep, IdsStep, WatchedStep
  <2>7. QED
    BY <2>3, <2>5, <2>6 DEF VaultInv
<1>2. QED
  BY <1>1, Initially, PTL DEF Spec

\* Every watch, visit, open and binding is of an LP, an address and a channel
\* there is, and no id under opening is ahead of the counter.
THEOREM VaultTypeCorrect == Spec => []TypeOK
<1>1. VaultInv => TypeOK
  BY DEF VaultInv
<1>2. QED
  BY <1>1, VaultCorrect, PTL

\* No LP gets more channels than it made deposits, unless the wallet handed
\* its address to another LP as well, or out again when it was consumed.
THEOREM OpensArePaidForHolds == Spec => []OpensArePaidFor
<1>1. VaultInv => OpensArePaidFor
  <2> SUFFICES ASSUME VaultInv, NEW l \in LP, 
                      ~\E a \in Addr : l \in told[a] /\ (Shared(a) \/ a \in again)
               PROVE  Cardinality(OpensFor(l)) <= Cardinality(DepositsOf(l))
    BY DEF OpensArePaidFor
  <2>0. /\ FewDeposits /\ OnlyTold /\ Consumed /\ ChansTyped /\ RestTyped
    BY TypeOKParts DEF VaultInv
  <2>1. \A a \in Addr : l \in told[a] => a \notin again /\ \A m \in told[a] : m = l
    BY <2>0, TwiceIsShared DEF FewDeposits, Twice
  <2>2. ASSUME NEW c \in OpensFor(l)
        PROVE  /\ \E d \in DepositsOf(l) : d.addr = chans[c].addr
               /\ \A e \in OpensFor(l) : chans[e].addr = chans[c].addr => e = c
    <3>1. c \in DOMAIN chans /\ chans[c].addr \in Addr /\ l \in told[chans[c].addr]
      BY <2>0, ChanFields DEF OpensFor, OnlyTold
    <3>2. ~Repeated(chans[c].addr)
      BY <2>1, <3>1 DEF Repeated, Twice
    <3>3. Paid(chans[c].addr) /\ \A e \in DOMAIN chans : chans[e].addr = chans[c].addr => e = c
      BY <2>0, <3>1, <3>2 DEF Consumed
    <3>4. PICK d \in deps : d.addr = chans[c].addr
      BY <3>3 DEF Paid
    <3>5. d.lp = l
      BY <2>0, <2>1, <3>1, <3>4 DEF OnlyTold
    <3>6. QED
      BY <3>3, <3>4, <3>5 DEF OpensFor, DepositsOf
  <2> DEFINE f == [c \in OpensFor(l) |-> CHOOSE d \in DepositsOf(l) : d.addr = chans[c].addr]
  <2>3. \A c \in OpensFor(l) : f[c] \in DepositsOf(l) /\ f[c].addr = chans[c].addr
    BY <2>2
  <2>4. f \in [OpensFor(l) -> DepositsOf(l)]
    BY <2>3
  <2> HIDE DEF f
  <2>5. \A c, e \in OpensFor(l) : f[c] = f[e] => c = e
    BY <2>2, <2>3
  <2>6. IsFiniteSet(DepositsOf(l))
    <3>1. DepositsOf(l) \in SUBSET deps
      BY DEF DepositsOf
    <3>2. QED
      BY <2>0, <3>1, FS_Subset DEF FewDeposits
  <2>7. QED
    BY <2>4, <2>5, <2>6, CountByInjection
<1>2. QED
  BY <1>1, VaultCorrect, PTL

\* A channel is bound to the LP it was opened for, unless the process was
\* restarted.
THEOREM BoundToItsLpHolds == Spec => []BoundToItsLp
<1>1. VaultInv => BoundToItsLp
  BY DEF VaultInv
<1>2. QED
  BY <1>1, VaultCorrect, PTL

\* The first deposit at an address becomes a channel of its LP or finds the
\* address on record for it, unless the process was restarted or the address
\* was handed to two LPs.
THEOREM DepositNotOrphanedHolds == Spec => []DepositNotOrphaned
<1>1. VaultInv => DepositNotOrphaned
  <2> SUFFICES ASSUME VaultInv, NEW d \in deps, ~restarted, ~Shared(d.addr)
               PROVE  \/ d.addr \in DOMAIN watch /\ watch[d.addr].lp = d.lp
                      \/ \E c \in OpensFor(d.lp) : chans[c].addr = d.addr
    BY DEF DepositNotOrphaned
  <2>1. d.addr \in Addr /\ d.lp \in told[d.addr] /\ IsFiniteSet(told[d.addr])
    BY DEF VaultInv, TypeOK, OnlyTold, FewDeposits
  <2>2. ~Twice(d.addr)
    BY <2>1, TwiceIsShared
  <2>3. QED
    BY <2>1, <2>2 DEF VaultInv, StaysWatched
<1>2. QED
  BY <1>1, VaultCorrect, PTL
=============================================================================
