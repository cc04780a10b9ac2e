------------------------- MODULE DeadManExit_proofs -------------------------
(***************************************************************************)
(* What the heartbeat of the dead-man exits promises, for every set of     *)
(* channels, every number of wallet outputs, every interval and every      *)
(* bound on faults: a retirement spares the channels whose emission it     *)
(* tried, a channel taken for fresh has an exit that can be mined, but for *)
(* a retirement that passed it over, a lost reservation and a fee bump,    *)
(* and no exit opens while the heartbeat runs.                             *)
(***************************************************************************)
EXTENDS DeadManExit, FiniteSetTheorems, TLAPS

-----------------------------------------------------------------------------
(* The inductive invariant. *)

\* A tick that is not in progress has no trace, one in progress knows when it
\* began, and without a new output the old one stays designated.
TickShape ==
    /\ hb.pc = "sleep" => hb = Idle
    /\ hb.pc = "emit" => tip = hb.tip + since
    /\ hb.pc = "emit" /\ hb.fresh = NoOut => designated = hb.prev

\* Only channels on the EVM have exits, and only those have been recorded.
ExitsAreOpen ==
    \A c \in Chan : /\ cur[c] # NoExit => Open(c)
                    /\ st[c] \in {"none", "funded"} => last[c] = 0

\* Until an emission fails, a channel the loop is done with and did not pass
\* over has its exit on the new output.
DoneIsOnFresh ==
    hb.pc = "emit" /\ hb.ok =>
        \A c \in Chan : \/ c \in hb.todo \cup hb.skipped
                        \/ cur[c] = NoExit
                        \/ cur[c].fresh = hb.fresh

\* The output of the tick is reserved, and in the wallet unless a fee bump took
\* it; every output an exit needs is reserved, but for lost reservations.
Reserved ==
    /\ hb.fresh # NoOut =>
          /\ hb.fresh \in reserved
          /\ wallet[hb.fresh] = "held" \/ (wallet[hb.fresh] = "spent" /\ hb.fresh \in bumped)
    /\ \A c \in Chan : LET o == cur[c].fresh IN
          o \in Out /\ wallet[o] = "held" => o \in reserved \cup unguarded

\* Of the outputs that exits spend, the wallet's other business takes only those
\* that lost their reservation, and a fee bump any.
SpentIsKnown ==
    \A o \in Out : wallet[o] = "spent" /\ Backed(o) # {} => o \in unguarded \cup bumped

\* A recorded deadline beyond the margin is that of the exit.
FreshIsRecorded ==
    \A c \in Chan : (cur[c] # NoExit \/ st[c] = "open") /\ Fresh(c, tip) =>
        cur[c].dl = last[c]

\* The blocks n ticks may take.
Gaps(n) == GapBlocks * n

\* What the blocks since the last tick, and one gap for each fault, leave of an
\* exit on an output that was not left behind: one gap less on the output that
\* the tick in progress replaces.
InTime(dl, o) ==
    \/ o \in left \cup {NoOut}
    \/ /\ hb.pc = "emit" /\ o = hb.prev
       /\ dl + Gaps(faults) + GapBlocks + since > tip + Margin
    \/ /\ ~(hb.pc = "emit" /\ o = hb.prev) /\ o = designated
       /\ dl + Gaps(faults) + since > tip + Margin

CurrentInTime ==
    \A c \in Chan : LET o == cur[c].fresh IN
        cur[c] # NoExit /\ Spendable(o) =>
            /\ InTime(cur[c].dl, o)
            /\ hb.pc = "emit" /\ c \in hb.todo => o \in left \cup {NoOut, hb.prev}

SupersededInTime ==
    \A e \in old : /\ Spendable(e.fresh) /\ InTime(e.dl, e.fresh)
                   /\ \/ e.fresh \in left \cup {NoOut}
                      \/ hb.pc = "emit" /\ e.fresh = hb.prev

HeartbeatInv ==
    /\ TypeOK /\ TickShape /\ ExitsAreOpen /\ DoneIsOnFresh /\ Reserved /\ FreshIsRecorded
    /\ RetireSparesTried /\ SpentIsKnown /\ CurrentInTime /\ SupersededInTime

-----------------------------------------------------------------------------
(* Lemmas. *)

\* A set of naturals has the minimum that Min returns.
LEMMA MinOfNaturals ==
    ASSUME NEW S \in SUBSET Nat, S # {}
    PROVE  Min(S) \in S /\ \A y \in S : Min(S) <= y
<1> DEFINE R == {p \in Nat \X Nat : p[1] < p[2]}
<1>1. IsWellFoundedOn(R, Nat)
  BY NatLessThanWellFounded DEF OpToRel
<1>2. \A x, y \in Nat : x < y => <<x, y>> \in R
  OBVIOUS
<1> HIDE DEF R
<1>3. PICK x \in S : \A y \in S : ~(<<y, x>> \in R)
  BY <1>1, WFMin
<1>4. ASSUME NEW y \in S PROVE x <= y
  <2>1. ~(y < x)
    BY <1>2, <1>3
  <2>2. QED
    BY <2>1
<1>5. QED
  BY <1>4 DEF Min

\* The output a tick picks is in the wallet and not the designated one.
LEMMA PickIsHeld ==
    ASSUME TypeOK, Pick # NoOut
    PROVE  Pick \in Out /\ wallet[Pick] = "held" /\ Pick # designated
<1>1. IsFiniteSet(Out)
  BY HeartbeatAssumption, FS_Interval DEF Out
<1>2. IsFiniteSet(Held)
  BY <1>1, FS_Subset DEF Held
<1>3. Cardinality(Held) \in Nat /\ Cardinality(Held) >= 2
  BY <1>2, FS_CardinalityType DEF Pick
<1>4. Held \ {designated} # {}
  BY <1>2, <1>3, FS_RemoveElement, FS_EmptySet
<1>5. Held \ {designated} \in SUBSET Nat
  BY HeartbeatAssumption DEF Held, Out
<1>6. Min(Held \ {designated}) \in Held \ {designated}
  BY <1>4, <1>5, MinOfNaturals
<1>7. QED
  BY <1>3, <1>6 DEF Pick, Held

\* The margin covers a gap for each fault so far and two more.
LEMMA GapsFitMargin ==
    ASSUME NEW n \in 0..MaxFaults
    PROVE  /\ Gaps(n) \in Nat /\ Gaps(n + 1) = Gaps(n) + GapBlocks
           /\ Gaps(n) + 2 * GapBlocks <= Margin
<1>1. Gaps(n) \in Nat /\ Gaps(MaxFaults - n) \in Nat
  BY HeartbeatAssumption DEF Gaps
<1>2. Gaps(n + 1) = Gaps(n) + GapBlocks
  BY HeartbeatAssumption DEF Gaps
<1>3. GapBlocks * (MaxFaults + 2) = Gaps(n) + Gaps(MaxFaults - n) + 2 * GapBlocks
  BY HeartbeatAssumption DEF Gaps
<1>4. Margin \in Nat
  BY HeartbeatAssumption DEF Margin
<1>5. QED
  BY <1>1, <1>2, <1>3, <1>4, HeartbeatAssumption

\* The margin is at most half of the life of an exit, and not nothing.
LEMMA MarginFits == Margin \in Nat /\ 0 < Margin /\ Margin < Delta
<1>1. 2 * GapBlocks <= Margin
  BY GapsFitMargin, HeartbeatAssumption DEF Gaps
<1>2. QED
  BY <1>1, HeartbeatAssumption DEF Margin

-----------------------------------------------------------------------------
(* Types. *)

\* What the type invariant says of the tick in progress.
TickRecord == [pc : {"sleep", "emit"}, tip : 0..tip, prev : Out \cup {NoOut},
               fresh : Out \cup {NoOut}, todo : SUBSET Chan, skipped : SUBSET Chan,
               ok : BOOLEAN]
TickTyped ==
    /\ hb \in TickRecord
    /\ hb.fresh # NoOut => hb.fresh # hb.prev /\ designated = hb.fresh

\* What it says of everything else.
RestTyped ==
    /\ tip \in 1..MaxHeight /\ since \in 0..GapBlocks
    /\ wallet \in [Out -> {"held", "retired", "spent"}]
    /\ st \in [Chan -> {"none", "funded", "open", "spliced", "closed"}]
    /\ cur \in [Chan -> Exit]
    /\ \A e \in old : e.chan \in Chan /\ [dl |-> e.dl, fresh |-> e.fresh] \in Exit
    /\ designated \in Out \cup {NoOut} /\ reserved \subseteq Out
    /\ last \in [Chan -> 0..(MaxHeight + Delta)]
    /\ faults \in 0..MaxFaults
    /\ passedOver \subseteq Chan
    /\ left \subseteq Out /\ unguarded \subseteq Out /\ bumped \subseteq Out

\* The two halves are the type invariant.
LEMMA TypeOKHalves == TypeOK <=> TickTyped /\ RestTyped
  BY DEF TypeOK, TickTyped, TickRecord, RestTyped

\* The fields of the tick have their types.
LEMMA TickFields ==
    ASSUME hb \in TickRecord
    PROVE  /\ hb.pc \in {"sleep", "emit"} /\ hb.tip \in 0..tip /\ hb.prev \in Out \cup {NoOut}
           /\ hb.fresh \in Out \cup {NoOut} /\ hb.todo \subseteq Chan /\ hb.skipped \subseteq Chan
  BY DEF TickRecord

\* A tick that is over leaves a typed record.
LEMMA IdleTyped ==
    ASSUME tip \in Nat, tip' = tip, hb' = Idle
    PROVE  TickTyped'
<1>1. Idle.pc \in {"sleep", "emit"} /\ Idle.tip \in 0..tip /\ Idle.prev \in Out \cup {NoOut}
      /\ Idle.fresh \in Out \cup {NoOut} /\ Idle.todo \in SUBSET Chan
      /\ Idle.skipped \in SUBSET Chan
  BY DEF Idle
<1>2. Idle.ok \in BOOLEAN /\ Idle.fresh = NoOut
  BY Zenon DEF Idle
<1>3. Idle \in TickRecord
  BY <1>1, <1>2, Zenon DEF Idle, TickRecord
<1>4. QED
  BY <1>2, <1>3 DEF TickTyped, TickRecord

\* The loop over the channels keeps the record typed.
LEMMA PassOverTyped ==
    ASSUME TickTyped, NEW c \in Chan, PassOver(c), tip' = tip, designated' = designated
    PROVE  TickTyped'
  BY DEF TickTyped, TickRecord, PassOver

LEMMA TriedTyped ==
    ASSUME TickTyped, NEW c \in Chan, NEW ok \in BOOLEAN, Tried(c, ok),
           tip' = tip, designated' = designated
    PROVE  TickTyped'
  BY DEF TickTyped, TickRecord, Tried

\* Every step keeps the types.
LEMMA TypeStep == TypeOK /\ [Next]_vars => TypeOK'
<1> SUFFICES ASSUME TickTyped, RestTyped, [Next]_vars PROVE TickTyped' /\ RestTyped'
  BY DEF TypeOK, TickTyped, TickRecord, RestTyped
<1> USE HeartbeatAssumption
<1>0. tip \in Nat
  BY DEF RestTyped
<1>1. ASSUME NEW c \in Chan, Advance(c) PROVE TickTyped' /\ RestTyped'
  BY <1>1 DEF TickTyped, TickRecord, RestTyped, Advance, wall, history
<1>2. ASSUME NEW c \in Chan, NEW s \in {"spliced", "closed"}, SpendOutpoint(c, s)
      PROVE  TickTyped' /\ RestTyped'
  BY <1>2 DEF TickTyped, TickRecord, RestTyped, SpendOutpoint, wall, history, NoExit, Exit, NoOut
<1>3. CASE NewBlock
  BY <1>3 DEF TickTyped, TickRecord, RestTyped, NewBlock, wall, chans, history
<1>4. ASSUME NEW o \in Out, OrdinarySpend(o) \/ BumpSpend(o) PROVE TickTyped' /\ RestTyped'
  BY <1>4 DEF TickTyped, TickRecord, RestTyped, OrdinarySpend, BumpSpend, Spend, Killed
<1>5. CASE TickIdle
  BY <1>5 DEF TickTyped, TickRecord, RestTyped, TickIdle, wall, chans, history
<1>6. CASE TickFails
  BY <1>6 DEF TickTyped, TickRecord, RestTyped, TickFails, Fault, wall, chans, history
<1>7. CASE StartTick
  <2>1. Monitors \subseteq Chan
    BY DEF Monitors
  <2>2. Pick # NoOut => Pick \in Out /\ Pick # designated
    BY PickIsHeld, TypeOKHalves
  <2>3. RestTyped'
    BY <1>7, <2>2 DEF RestTyped, StartTick, Reserve, chans, history
  <2>4. hb' = [pc |-> "emit", tip |-> tip, prev |-> designated, fresh |-> Pick,
               todo |-> Monitors, skipped |-> {}, ok |-> TRUE]
    BY <1>7, Zenon DEF StartTick, Idle
  <2>5. hb'.fresh = Pick /\ hb'.prev = designated
    BY <2>4, Zenon
  <2>6. TRUE \in BOOLEAN /\ "emit" \in {"sleep", "emit"} /\ {} \in SUBSET Chan
        /\ tip \in 0..tip /\ designated \in Out \cup {NoOut} /\ Pick \in Out \cup {NoOut}
        /\ Monitors \in SUBSET Chan /\ tip' = tip
    BY <1>0, <1>7, <2>1, <2>2 DEF RestTyped, StartTick
  <2>7. hb' \in TickRecord'
    BY <2>4, <2>6, Zenon DEF TickRecord
  <2>8. QED
    BY <1>7, <2>2, <2>3, <2>5, <2>7 DEF TickTyped, StartTick
<1>8. ASSUME NEW c \in Chan, Skip(c) PROVE TickTyped' /\ RestTyped'
  BY <1>8, PassOverTyped DEF RestTyped, Skip, wall, chans, history
<1>9. ASSUME NEW c \in Chan, ReadFails(c) PROVE TickTyped' /\ RestTyped'
  BY <1>9, PassOverTyped DEF RestTyped, ReadFails, Fault, wall, chans, history
<1>10. ASSUME NEW c \in Chan, Emitted(c)
       PROVE  /\ cur' \in [Chan -> Exit] /\ passedOver' \subseteq Chan /\ st' = st
              /\ \A e \in old' : e.chan \in Chan /\ [dl |-> e.dl, fresh |-> e.fresh] \in Exit
  <2>1. [dl |-> hb.tip + Delta, fresh |-> hb.fresh] \in Exit
    BY DEF Exit, TickTyped, TickRecord, RestTyped
  <2>2. cur[c] \in Exit
    BY DEF RestTyped
  <2>3. QED
    BY <1>10, <2>1, <2>2 DEF Emitted, Exit, RestTyped
<1>11. ASSUME NEW c \in Chan, Emit(c) PROVE TickTyped' /\ RestTyped'
  <2>1. TRUE \in BOOLEAN /\ Tried(c, TRUE) /\ tip' = tip /\ designated' = designated
    BY <1>11 DEF Emit
  <2>2. TickTyped'
    BY <2>1, TriedTyped
  <2>3. hb.tip + Delta \in 0..(MaxHeight + Delta)
    BY TickFields DEF RestTyped, TickTyped
  <2>4. RestTyped'
    BY <1>10, <1>11, <2>3 DEF RestTyped, Emit, wall
  <2>5. QED
    BY <2>2, <2>4
<1>12. ASSUME NEW c \in Chan, SendFails(c) PROVE TickTyped' /\ RestTyped'
  <2>1. FALSE \in BOOLEAN /\ Tried(c, FALSE) /\ tip' = tip /\ designated' = designated
    BY <1>12 DEF SendFails
  <2>2. TickTyped'
    BY <2>1, TriedTyped
  <2>3. RestTyped'
    BY <1>10, <1>12 DEF RestTyped, SendFails, Fault, wall, chans
  <2>4. QED
    BY <2>2, <2>3
<1>13. CASE Retire
  BY <1>0, <1>13, IdleTyped, TickFields DEF TickTyped, RestTyped, Retire, Killed
<1>14. CASE LeavePrevious
  BY <1>0, <1>14, IdleTyped, TickFields DEF TickTyped, RestTyped, LeavePrevious, wall, chans
<1>15. CASE RetireFails
  BY <1>0, <1>15, IdleTyped, TickFields
     DEF TickTyped, RestTyped, RetireFails, Retirable, Fault, wall, chans
<1>16. CASE RetireEvicted \/ Restart
  BY <1>0, <1>16, IdleTyped, TickFields
     DEF TickTyped, RestTyped, RetireEvicted, Retirable, Restart, Fault, chans
<1>17. CASE UNCHANGED vars
  BY <1>17 DEF TickTyped, TickRecord, RestTyped, vars, wall, chans, history
<1> QED
  BY <1>1, <1>2, <1>3, <1>4, <1>5, <1>6, <1>7, <1>8, <1>9, <1>11, <1>12, <1>13, <1>14, <1>15,
     <1>16, <1>17 DEF Next, Heartbeat

-----------------------------------------------------------------------------
(* The invariant, part by part.  The types of a state and of the next one  *)
(* are given, and so are the parts before the one in hand.                 *)

\* The parts of the type invariant the proofs below use most.
LEMMA Types ==
    ASSUME TypeOK
    PROVE  /\ tip \in Nat /\ since \in Nat /\ since <= GapBlocks
           /\ hb.pc \in {"sleep", "emit"} /\ hb.tip \in Nat /\ hb.tip <= tip
           /\ hb.prev \in Out \cup {NoOut} /\ hb.fresh \in Out \cup {NoOut}
           /\ hb.todo \subseteq Chan /\ hb.skipped \subseteq Chan
           /\ \A c \in Chan : cur[c].dl \in Nat /\ cur[c].fresh \in Out \cup {NoOut}
           /\ \A c \in Chan : last[c] \in Nat
           /\ \A e \in old : e.dl \in Nat /\ e.fresh \in Out \cup {NoOut}
<1>1. TickTyped /\ RestTyped
  BY TypeOKHalves
<1>2. \A x \in Exit : x.dl \in Nat /\ x.fresh \in Out \cup {NoOut}
  BY HeartbeatAssumption DEF Exit
<1>3. ASSUME NEW e \in old PROVE e.dl \in Nat /\ e.fresh \in Out \cup {NoOut}
  <2>1. [dl |-> e.dl, fresh |-> e.fresh] \in Exit
    BY <1>1 DEF RestTyped
  <2>2. QED
    BY <1>2, <2>1
<1>4. QED
  BY <1>1, <1>2, <1>3, TickFields, HeartbeatAssumption DEF TickTyped, RestTyped

\* What a tick that begins, and one that is over, know of themselves.
LEMMA TickBegins ==
    ASSUME StartTick
    PROVE  /\ hb'.pc = "emit" /\ hb'.tip = tip /\ hb'.prev = designated /\ hb'.fresh = Pick
           /\ hb'.todo = Monitors
  BY Zenon DEF StartTick, Idle

LEMMA TickOver ==
    ASSUME hb = Idle
    PROVE  hb.pc = "sleep" /\ hb.prev = NoOut /\ hb.fresh = NoOut
  BY Zenon DEF Idle

LEMMA TickEnds ==
    ASSUME hb' = Idle
    PROVE  hb'.pc = "sleep" /\ hb'.prev = NoOut /\ hb'.fresh = NoOut
  BY Zenon DEF Idle

\* What the loop over the channels changes of the tick.
LEMMA LoopStep ==
    ASSUME TypeOK, NEW c \in Chan, PassOver(c) \/ Tried(c, TRUE) \/ Tried(c, FALSE)
    PROVE  /\ hb'.pc = hb.pc /\ hb'.tip = hb.tip /\ hb'.prev = hb.prev /\ hb'.fresh = hb.fresh
           /\ hb'.todo = hb.todo \ {c}
           /\ PassOver(c) => hb'.ok = hb.ok /\ hb'.skipped = hb.skipped \cup {c}
           /\ Tried(c, TRUE) \/ Tried(c, FALSE) => hb'.skipped = hb.skipped
           /\ Tried(c, TRUE) => (hb'.ok => hb.ok)
           /\ Tried(c, FALSE) => ~hb'.ok
  BY DEF TypeOK, PassOver, Tried

\* A tick knows when it began.
LEMMA ShapeStep == TypeOK /\ TickShape /\ [Next]_vars => TickShape'
<1> SUFFICES ASSUME TypeOK, TickShape, [Next]_vars PROVE TickShape'
  OBVIOUS
<1> USE Types DEF TickShape
<1>1. ASSUME NEW c \in Chan, Advance(c) \/ SpendOutpoint(c, "spliced") \/ SpendOutpoint(c, "closed")
      PROVE TickShape'
  BY <1>1 DEF Advance, SpendOutpoint
<1>2. CASE NewBlock
  BY <1>2, TickOver DEF NewBlock
<1>3. ASSUME NEW o \in Out, OrdinarySpend(o) \/ BumpSpend(o) PROVE TickShape'
  BY <1>3 DEF OrdinarySpend, BumpSpend, Spend
<1>4. CASE TickIdle \/ TickFails
  BY <1>4, TickOver DEF TickIdle, TickFails
<1>5. CASE StartTick
  BY <1>5, TickBegins DEF StartTick
<1>6. ASSUME NEW c \in Chan, Skip(c) \/ ReadFails(c) \/ Emit(c) \/ SendFails(c) PROVE TickShape'
  BY <1>6, LoopStep DEF Skip, ReadFails, Emit, SendFails, Due
<1>7. CASE Retire \/ LeavePrevious \/ RetireFails \/ RetireEvicted \/ Restart
  BY <1>7, TickEnds DEF Retire, LeavePrevious, RetireFails, RetireEvicted, Restart
<1>8. CASE UNCHANGED vars
  BY <1>8 DEF vars
<1> QED
  BY <1>1, <1>2, <1>3, <1>4, <1>5, <1>6, <1>7, <1>8 DEF Next, Heartbeat

\* Only channels on the EVM have exits, and only those are recorded.
LEMMA ExitsStep == TypeOK /\ ExitsAreOpen /\ [Next]_vars => ExitsAreOpen'
<1> SUFFICES ASSUME TypeOK, ExitsAreOpen, [Next]_vars PROVE ExitsAreOpen'
  OBVIOUS
<1> USE DEF ExitsAreOpen, Open, TypeOK
<1>1. ASSUME NEW c \in Chan, Advance(c) PROVE ExitsAreOpen'
  BY <1>1 DEF Advance
<1>2. ASSUME NEW c \in Chan, NEW s \in {"spliced", "closed"}, SpendOutpoint(c, s)
      PROVE  ExitsAreOpen'
  BY <1>2 DEF SpendOutpoint
<1>3. CASE NewBlock \/ TickIdle \/ TickFails \/ StartTick
  BY <1>3 DEF NewBlock, TickIdle, TickFails, StartTick, chans
<1>4. ASSUME NEW o \in Out, OrdinarySpend(o) \/ BumpSpend(o) PROVE ExitsAreOpen'
  BY <1>4 DEF OrdinarySpend, BumpSpend, Spend
<1>5. ASSUME NEW c \in Chan, Skip(c) \/ ReadFails(c) PROVE ExitsAreOpen'
  BY <1>5 DEF Skip, ReadFails, chans
<1>6. ASSUME NEW c \in Chan, Emit(c) \/ SendFails(c) PROVE ExitsAreOpen'
  BY <1>6 DEF Emit, SendFails, Emitted, Due, chans
<1>7. CASE Retire \/ LeavePrevious \/ RetireFails \/ RetireEvicted \/ Restart
  BY <1>7 DEF Retire, LeavePrevious, RetireFails, RetireEvicted, Restart, chans
<1>8. CASE UNCHANGED vars
  BY <1>8 DEF vars, chans
<1> QED
  BY <1>1, <1>2, <1>3, <1>4, <1>5, <1>6, <1>7, <1>8 DEF Next, Heartbeat

\* The emission of an exit puts it on the output of the tick.
LEMMA EmittedExit ==
    ASSUME TypeOK, NEW c \in Chan, Emitted(c)
    PROVE  /\ cur'[c].dl = hb.tip + Delta /\ cur'[c].fresh = hb.fresh
           /\ \A d \in Chan : d # c => cur'[d] = cur[d]
  BY DEF TypeOK, Emitted

\* A channel without exit has none on any output.
LEMMA NoExitFields == NoExit.dl = 0 /\ NoExit.fresh = NoOut
  BY DEF NoExit

\* A loop that has seen no failure leaves no channel behind.
LEMMA DoneStep == TypeOK /\ TickShape /\ ExitsAreOpen /\ DoneIsOnFresh /\ [Next]_vars => DoneIsOnFresh'
<1> SUFFICES ASSUME TypeOK, TickShape, ExitsAreOpen, DoneIsOnFresh, [Next]_vars,
                    hb'.pc = "emit", hb'.ok, NEW d \in Chan
             PROVE  d \in hb'.todo \cup hb'.skipped \/ cur'[d] = NoExit \/ cur'[d].fresh = hb'.fresh
  BY DEF DoneIsOnFresh
<1> USE DEF DoneIsOnFresh
<1> DEFINE Goal == d \in hb'.todo \cup hb'.skipped \/ cur'[d] = NoExit \/ cur'[d].fresh = hb'.fresh
<1>1. ASSUME NEW c \in Chan, Advance(c) PROVE Goal
  BY <1>1 DEF Advance
<1>2. ASSUME NEW c \in Chan, NEW s \in {"spliced", "closed"}, SpendOutpoint(c, s) PROVE Goal
  BY <1>2 DEF SpendOutpoint, TypeOK
<1>3. CASE NewBlock \/ TickIdle \/ TickFails
  BY <1>3 DEF NewBlock, TickIdle, TickFails, chans
<1>4. CASE StartTick
  BY <1>4, TickBegins DEF StartTick, Monitors, ExitsAreOpen, Open, chans
<1>5. ASSUME NEW o \in Out, OrdinarySpend(o) \/ BumpSpend(o) PROVE Goal
  BY <1>5 DEF OrdinarySpend, BumpSpend, Spend
<1>6. ASSUME NEW c \in Chan, Skip(c) \/ ReadFails(c) PROVE Goal
  BY <1>6, LoopStep DEF Skip, ReadFails, chans
<1>7. ASSUME NEW c \in Chan, Emit(c) \/ SendFails(c) PROVE Goal
  BY <1>7, LoopStep, EmittedExit DEF Emit, SendFails
<1>8. CASE Retire \/ LeavePrevious \/ RetireFails \/ RetireEvicted \/ Restart
  BY <1>8, TickEnds DEF Retire, LeavePrevious, RetireFails, RetireEvicted, Restart
<1>9. CASE UNCHANGED vars
  BY <1>9 DEF vars, chans
<1> QED
  BY <1>1, <1>2, <1>3, <1>4, <1>5, <1>6, <1>7, <1>8, <1>9 DEF Next, Heartbeat

\* The outputs in use stay reserved.
LEMMA ReservedStep == TypeOK /\ TickShape /\ Reserved /\ [Next]_vars => Reserved'
<1> SUFFICES ASSUME TypeOK, TickShape, Reserved, [Next]_vars PROVE Reserved'
  OBVIOUS
<1> USE DEF Reserved
<1>0. NoOut \notin Out
  BY HeartbeatAssumption DEF Out, NoOut
<1>1. ASSUME NEW c \in Chan, Advance(c) PROVE Reserved'
  BY <1>1 DEF Advance, wall, history
<1>2. ASSUME NEW c \in Chan, NEW s \in {"spliced", "closed"}, SpendOutpoint(c, s) PROVE Reserved'
  BY <1>0, <1>2, NoExitFields DEF SpendOutpoint, wall, history, TypeOK
<1>3. CASE NewBlock \/ TickIdle \/ TickFails
  BY <1>3 DEF NewBlock, TickIdle, TickFails, chans, wall, history
<1>4. CASE StartTick
  <2>1. Pick # NoOut => Pick \in Out /\ wallet[Pick] = "held" /\ Pick \in reserved'
    BY <1>4, PickIsHeld DEF StartTick, Reserve
  <2>2. reserved \subseteq reserved'
    BY <1>4 DEF StartTick, Reserve
  <2>3. QED
    BY <1>4, <2>1, <2>2, TickBegins DEF StartTick, chans, history
<1>5. ASSUME NEW o \in Out, OrdinarySpend(o) \/ BumpSpend(o) PROVE Reserved'
  BY <1>5, Types DEF OrdinarySpend, BumpSpend, Spend, TypeOK
<1>6. ASSUME NEW c \in Chan, Skip(c) \/ ReadFails(c) PROVE Reserved'
  BY <1>6, LoopStep DEF Skip, ReadFails, chans, wall, history
<1>7. ASSUME NEW c \in Chan, Emit(c) \/ SendFails(c) PROVE Reserved'
  <2>1. hb'.fresh = hb.fresh /\ UNCHANGED <<wallet, reserved, unguarded, bumped>>
    BY <1>7, LoopStep DEF Emit, SendFails, wall
  <2>2. CASE Emitted(c)
    BY <1>0, <2>1, <2>2, EmittedExit
  <2>3. CASE UNCHANGED cur
    BY <2>1, <2>3
  <2>4. QED
    BY <1>7, <2>2, <2>3 DEF Emit, SendFails, chans
<1>8. CASE Retire
  BY <1>8, TickEnds, Types DEF Retire, Retirable, TypeOK
<1>9. CASE LeavePrevious \/ RetireFails
  BY <1>9, TickEnds DEF LeavePrevious, RetireFails, wall, chans
<1>10. CASE RetireEvicted \/ Restart
  BY <1>10, TickEnds DEF RetireEvicted, Restart, chans
<1>11. CASE UNCHANGED vars
  BY <1>11 DEF vars, chans, wall, history
<1> QED
  BY <1>1, <1>2, <1>3, <1>4, <1>5, <1>6, <1>7, <1>8, <1>9, <1>10, <1>11 DEF Next, Heartbeat

\* A retirement spares the channels it tried.
LEMMA SparesStep ==
    TypeOK /\ TickShape /\ DoneIsOnFresh /\ Reserved /\ RetireSparesTried /\ [Next]_vars
        => RetireSparesTried'
<1> SUFFICES ASSUME TypeOK, TickShape, DoneIsOnFresh, Reserved, RetireSparesTried, [Next]_vars,
                    NEW o \in Out, NEW d \in Chan,
                    wallet'[o] = "retired", cur'[d] # NoExit, cur'[d].fresh = o
             PROVE  d \in passedOver'
  BY DEF RetireSparesTried, Backed
<1>0. wallet[o] = "retired" /\ cur[d] # NoExit /\ cur[d].fresh = o => d \in passedOver
  BY DEF RetireSparesTried, Backed
<1>1. ASSUME NEW c \in Chan, Advance(c) PROVE d \in passedOver'
  BY <1>0, <1>1 DEF Advance, wall, history
<1>2. ASSUME NEW c \in Chan, NEW s \in {"spliced", "closed"}, SpendOutpoint(c, s)
      PROVE  d \in passedOver'
  BY <1>0, <1>2 DEF SpendOutpoint, wall, history, TypeOK
<1>3. CASE NewBlock \/ TickIdle \/ TickFails \/ StartTick
  BY <1>0, <1>3 DEF NewBlock, TickIdle, TickFails, StartTick, chans, wall, history
<1>4. ASSUME NEW p \in Out, OrdinarySpend(p) \/ BumpSpend(p) PROVE d \in passedOver'
  BY <1>0, <1>4 DEF OrdinarySpend, BumpSpend, Spend, TypeOK
<1>5. ASSUME NEW c \in Chan, Skip(c) \/ ReadFails(c) PROVE d \in passedOver'
  BY <1>0, <1>5 DEF Skip, ReadFails, chans, wall, history
<1>6. ASSUME NEW c \in Chan, Emit(c) \/ SendFails(c) PROVE d \in passedOver'
  <2>1. wallet' = wallet
    BY <1>6 DEF Emit, SendFails, wall
  <2>2. CASE Emitted(c)
    <3>1. d # c
      BY <2>1, <2>2, EmittedExit, HeartbeatAssumption DEF Reserved, Out, NoOut
    <3>2. QED
      BY <1>0, <2>1, <2>2, <3>1, EmittedExit DEF Emitted
  <2>3. CASE UNCHANGED <<cur, passedOver>>
    BY <1>0, <2>1, <2>3
  <2>4. QED
    BY <1>6, <2>2, <2>3 DEF Emit, SendFails, chans
<1>7. CASE Retire
  <2>1. o # hb.prev => wallet[o] = "retired"
    BY <1>7 DEF Retire, TypeOK
  <2>2. o = hb.prev => d \in hb.skipped
    BY <1>7 DEF Retire, Retirable, LoopOver, DoneIsOnFresh
  <2>3. QED
    BY <1>0, <1>7, <2>1, <2>2 DEF Retire
<1>8. CASE LeavePrevious \/ RetireFails \/ RetireEvicted \/ Restart
  BY <1>0, <1>8 DEF LeavePrevious, RetireFails, RetireEvicted, Restart, wall, chans
<1>9. CASE UNCHANGED vars
  BY <1>0, <1>9 DEF vars, chans, wall, history
<1> QED
  BY <1>1, <1>2, <1>3, <1>4, <1>5, <1>6, <1>7, <1>8, <1>9 DEF Next, Heartbeat

\* The wallet's own builder leaves the outputs in use alone.
LEMMA GuardedStep ==
    TypeOK /\ TickShape /\ Reserved /\ SpentIsKnown /\ [Next]_vars => SpentIsKnown'
<1> SUFFICES ASSUME TypeOK, TickShape, Reserved, SpentIsKnown, [Next]_vars,
                    NEW o \in Out, NEW d \in Chan,
                    wallet'[o] = "spent", cur'[d] # NoExit, cur'[d].fresh = o
             PROVE  o \in (unguarded \cup bumped)'
  BY DEF SpentIsKnown, Backed
<1>0. wallet[o] = "spent" /\ cur[d] # NoExit /\ cur[d].fresh = o => o \in unguarded \cup bumped
  BY DEF SpentIsKnown, Backed
<1>1. ASSUME NEW c \in Chan, Advance(c) PROVE o \in (unguarded \cup bumped)'
  BY <1>0, <1>1 DEF Advance, wall, history
<1>2. ASSUME NEW c \in Chan, NEW s \in {"spliced", "closed"}, SpendOutpoint(c, s)
      PROVE  o \in (unguarded \cup bumped)'
  BY <1>0, <1>2 DEF SpendOutpoint, wall, history, TypeOK
<1>3. CASE NewBlock \/ TickIdle \/ TickFails \/ StartTick
  BY <1>0, <1>3 DEF NewBlock, TickIdle, TickFails, StartTick, chans, wall, history
<1>4. ASSUME NEW p \in Out, OrdinarySpend(p) \/ BumpSpend(p) PROVE o \in (unguarded \cup bumped)'
  BY <1>0, <1>4 DEF OrdinarySpend, BumpSpend, Spend, TypeOK, Reserved
<1>5. ASSUME NEW c \in Chan, Skip(c) \/ ReadFails(c) PROVE o \in (unguarded \cup bumped)'
  BY <1>0, <1>5 DEF Skip, ReadFails, chans, wall, history
<1>6. ASSUME NEW c \in Chan, Emit(c) \/ SendFails(c) PROVE o \in (unguarded \cup bumped)'
  <2>1. UNCHANGED <<wallet, unguarded, bumped>>
    BY <1>6 DEF Emit, SendFails, wall
  <2>2. CASE Emitted(c)
    <3>1. d = c => o = hb.fresh /\ o # NoOut
      BY <2>2, EmittedExit, HeartbeatAssumption DEF Out, NoOut
    <3>2. d = c => o \in bumped
      BY <2>1, <3>1 DEF Reserved
    <3>3. QED
      BY <1>0, <2>1, <2>2, <3>2, EmittedExit
  <2>3. CASE UNCHANGED cur
    BY <1>0, <2>1, <2>3
  <2>4. QED
    BY <1>6, <2>2, <2>3 DEF Emit, SendFails, chans
<1>7. CASE Retire
  BY <1>0, <1>7 DEF Retire, TypeOK
<1>8. CASE LeavePrevious \/ RetireFails \/ RetireEvicted \/ Restart
  BY <1>0, <1>8 DEF LeavePrevious, RetireFails, RetireEvicted, Restart, wall, chans
<1>9. CASE UNCHANGED vars
  BY <1>0, <1>9 DEF vars, chans, wall, history
<1> QED
  BY <1>1, <1>2, <1>3, <1>4, <1>5, <1>6, <1>7, <1>8, <1>9 DEF Next, Heartbeat

\* A recorded deadline beyond the margin is that of the exit.
LEMMA RecordedStep ==
    TypeOK /\ TypeOK' /\ TickShape /\ ExitsAreOpen /\ FreshIsRecorded /\ [Next]_vars => FreshIsRecorded'
<1> SUFFICES ASSUME TypeOK, tip' \in Nat, TickShape, ExitsAreOpen, FreshIsRecorded, [Next]_vars,
                    NEW d \in Chan, cur'[d] # NoExit \/ st'[d] = "open", last'[d] > tip' + Margin
             PROVE  cur'[d].dl = last'[d]
  BY HeartbeatAssumption DEF FreshIsRecorded, Fresh, TypeOK
<1> USE Types, MarginFits
<1>0. (cur[d] # NoExit \/ st[d] = "open") /\ last[d] > tip + Margin => cur[d].dl = last[d]
  BY DEF FreshIsRecorded, Fresh
<1>1. ASSUME NEW c \in Chan, Advance(c) PROVE cur'[d].dl = last'[d]
  <2>1. d = c => last[d] = 0
    BY <1>1 DEF ExitsAreOpen, Advance
  <2>2. d # c
    BY <1>1, <2>1 DEF Advance
  <2>3. QED
    BY <1>0, <1>1, <2>2 DEF Advance, TypeOK
<1>2. ASSUME NEW c \in Chan, NEW s \in {"spliced", "closed"}, SpendOutpoint(c, s)
      PROVE  cur'[d].dl = last'[d]
  BY <1>0, <1>2 DEF SpendOutpoint, TypeOK
<1>3. CASE NewBlock
  BY <1>0, <1>3 DEF NewBlock, chans
<1>4. CASE TickIdle \/ TickFails \/ StartTick
  BY <1>0, <1>4 DEF TickIdle, TickFails, StartTick, chans
<1>5. ASSUME NEW o \in Out, OrdinarySpend(o) \/ BumpSpend(o) PROVE cur'[d].dl = last'[d]
  BY <1>0, <1>5 DEF OrdinarySpend, BumpSpend, Spend
<1>6. ASSUME NEW c \in Chan, Skip(c) \/ ReadFails(c) PROVE cur'[d].dl = last'[d]
  BY <1>0, <1>6 DEF Skip, ReadFails, chans
<1>7. ASSUME NEW c \in Chan, Emit(c) PROVE cur'[d].dl = last'[d]
  BY <1>0, <1>7, EmittedExit DEF Emit, Emitted, TypeOK
<1>8. ASSUME NEW c \in Chan, SendFails(c) PROVE cur'[d].dl = last'[d]
  <2>1. d # c
    BY <1>8 DEF SendFails, Due, Fresh
  <2>2. QED
    BY <1>0, <1>8, <2>1, EmittedExit DEF SendFails, Emitted, chans
<1>9. CASE Retire \/ LeavePrevious \/ RetireFails \/ RetireEvicted
  BY <1>0, <1>9 DEF Retire, LeavePrevious, RetireFails, RetireEvicted, chans
<1>10. CASE Restart
  BY <1>10 DEF Restart
<1>11. CASE UNCHANGED vars
  BY <1>0, <1>11 DEF vars, chans
<1> QED
  BY <1>1, <1>2, <1>3, <1>4, <1>5, <1>6, <1>7, <1>8, <1>9, <1>10, <1>11 DEF Next, Heartbeat

\* A wallet output that is gone does not come back.
LEMMA GoneForGood ==
    ASSUME TypeOK, [Next]_vars
    PROVE  \A o \in Out : wallet'[o] = "held" => wallet[o] = "held"
<1>1. ASSUME NEW p \in Out, OrdinarySpend(p) \/ BumpSpend(p)
      PROVE  \A o \in Out : wallet'[o] = "held" => wallet[o] = "held"
  BY <1>1 DEF OrdinarySpend, BumpSpend, Spend, TypeOK
<1>2. CASE Retire
  BY <1>2 DEF Retire, TypeOK
<1>3. CASE UNCHANGED wallet
  BY <1>3
<1>4. QED
  BY <1>1, <1>2, <1>3
     DEF Next, Heartbeat, TickIdle, TickFails, StartTick, LeavePrevious, RetireFails, RetireEvicted,
         Skip, ReadFails, Emit, SendFails, NewBlock, Restart, Advance, SpendOutpoint, vars, wall

\* The blocks the faults may have cost are a number, and each fault adds a gap.
LEMMA FaultGaps ==
    ASSUME TypeOK
    PROVE  /\ Gaps(faults) \in Nat /\ Gaps(faults) + 2 * GapBlocks <= Margin
           /\ Fault => Gaps(faults') = Gaps(faults) + GapBlocks
           /\ GapBlocks \in Nat /\ Delta \in Nat /\ Margin \in Nat /\ Margin < Delta
  BY GapsFitMargin, MarginFits, HeartbeatAssumption DEF TypeOK, Fault

\* The exits in force stay in time.
LEMMA CurrentStep ==
    TypeOK /\ TickShape /\ ExitsAreOpen /\ FreshIsRecorded /\ CurrentInTime /\ [Next]_vars
        => CurrentInTime'
<1> SUFFICES ASSUME TypeOK, TickShape, ExitsAreOpen, FreshIsRecorded, CurrentInTime, [Next]_vars,
                    NEW d \in Chan, cur'[d] # NoExit,
                    cur'[d].fresh = NoOut \/ wallet'[cur'[d].fresh] = "held"
             PROVE  /\ InTime(cur[d].dl, cur[d].fresh)'
                    /\ hb'.pc = "emit" /\ d \in hb'.todo => cur'[d].fresh \in left' \cup {NoOut, hb'.prev}
  BY DEF CurrentInTime, Spendable
<1> DEFINE o == cur[d].fresh
           Goal == /\ InTime(cur[d].dl, cur[d].fresh)'
                   /\ hb'.pc = "emit" /\ d \in hb'.todo =>
                          cur'[d].fresh \in left' \cup {NoOut, hb'.prev}
<1> USE Types, FaultGaps DEF InTime
<1>0. ASSUME cur'[d] = cur[d]
      PROVE  /\ InTime(cur[d].dl, o)
             /\ hb.pc = "emit" /\ d \in hb.todo => o \in left \cup {NoOut, hb.prev}
  <2>1. Spendable(o)
    BY <1>0, GoneForGood DEF Spendable
  <2>2. QED
    BY <1>0, <2>1 DEF CurrentInTime
<1>1. ASSUME NEW c \in Chan, Advance(c) PROVE Goal
  BY <1>0, <1>1 DEF Advance, history
<1>2. ASSUME NEW c \in Chan, NEW s \in {"spliced", "closed"}, SpendOutpoint(c, s) PROVE Goal
  <2>1. cur'[d] = cur[d]
    BY <1>2 DEF SpendOutpoint, TypeOK
  <2>2. QED
    BY <1>0, <1>2, <2>1 DEF SpendOutpoint, history
<1>3. CASE NewBlock
  BY <1>0, <1>3 DEF NewBlock, chans, history
<1>4. CASE TickIdle
  <2>1. hb.pc = "sleep" /\ cur[d] # NoExit /\ cur'[d] = cur[d]
    BY <1>4, TickOver DEF TickIdle, chans
  <2>2. cur[d].dl > tip + Margin
    BY <1>4, <2>1 DEF TickIdle, ExitsAreOpen, Open, Monitors, Fresh, FreshIsRecorded
  <2>3. QED
    BY <1>0, <1>4, <2>1, <2>2 DEF TickIdle, chans, history
<1>5. CASE TickFails
  BY <1>0, <1>5, TickOver DEF TickFails, chans, history
<1>6. CASE StartTick
  BY <1>0, <1>6, TickOver, TickBegins DEF StartTick, chans, history
<1>7. ASSUME NEW p \in Out, OrdinarySpend(p) \/ BumpSpend(p) PROVE Goal
  BY <1>0, <1>7 DEF OrdinarySpend, BumpSpend, Spend
<1>8. ASSUME NEW c \in Chan, Skip(c) PROVE Goal
  BY <1>0, <1>8, LoopStep DEF Skip, chans, history
<1>9. ASSUME NEW c \in Chan, ReadFails(c) PROVE Goal
  <2>1. /\ UNCHANGED <<tip, since, cur, designated, left>> /\ Fault
        /\ hb'.pc = hb.pc /\ hb'.prev = hb.prev /\ hb'.todo = hb.todo \ {c}
    BY <1>9, LoopStep DEF ReadFails, chans, history
  <2>2. QED
    BY <1>0, <2>1
<1>10. ASSUME NEW c \in Chan, Emit(c) \/ SendFails(c) PROVE Goal
  <2>1. /\ UNCHANGED <<tip, since, designated, left>> /\ hb.pc = "emit"
        /\ hb'.pc = hb.pc /\ hb'.prev = hb.prev /\ hb'.todo = hb.todo \ {c}
        /\ faults' = faults \/ Fault
    BY <1>10, LoopStep DEF Emit, SendFails, Due
  <2>2. CASE cur'[d] = cur[d]
    BY <1>0, <2>1, <2>2
  <2>3. CASE d = c /\ Emitted(c)
    <3>1. cur'[d].fresh # NoOut => cur'[d].fresh = designated /\ designated # hb.prev
      BY <2>3, EmittedExit DEF TypeOK
    <3>2. cur'[d].dl + since > tip + Margin
      BY <2>1, <2>3, EmittedExit DEF TickShape
    <3>3. QED
      BY <2>1, <2>3, <3>1, <3>2, EmittedExit
  <2>4. QED
    BY <1>10, <2>2, <2>3, EmittedExit DEF Emit, SendFails, chans
<1>11. CASE Retire
  <2>1. cur'[d] = cur[d] /\ o # hb.prev
    BY <1>11 DEF Retire, Retirable, TypeOK
  <2>2. QED
    BY <1>0, <1>11, <2>1, TickEnds DEF Retire
<1>12. CASE LeavePrevious
  BY <1>0, <1>12, TickEnds DEF LeavePrevious, chans
<1>13. CASE RetireFails \/ RetireEvicted
  BY <1>0, <1>13, TickEnds DEF RetireFails, RetireEvicted, chans
<1>14. CASE Restart
  BY <1>0, <1>14, TickEnds DEF Restart, chans
<1>15. CASE UNCHANGED vars
  BY <1>0, <1>15 DEF vars, chans, history
<1> QED
  BY <1>1, <1>2, <1>3, <1>4, <1>5, <1>6, <1>7, <1>8, <1>9, <1>10, <1>11, <1>12, <1>13, <1>14, <1>15
     DEF Next, Heartbeat

\* The superseded exits stay in time.
LEMMA SupersededStep ==
    TypeOK /\ TickShape /\ CurrentInTime /\ SupersededInTime /\ [Next]_vars => SupersededInTime'
<1> SUFFICES ASSUME TypeOK, TickShape, CurrentInTime, SupersededInTime, [Next]_vars, NEW e \in old'
             PROVE  /\ e.fresh = NoOut \/ wallet'[e.fresh] = "held"
                    /\ InTime(e.dl, e.fresh)'
                    /\ \/ e.fresh \in left' \cup {NoOut}
                       \/ hb'.pc = "emit" /\ e.fresh = hb'.prev
  BY DEF SupersededInTime, Spendable
<1> DEFINE Goal == /\ e.fresh = NoOut \/ wallet'[e.fresh] = "held"
                   /\ InTime(e.dl, e.fresh)'
                   /\ \/ e.fresh \in left' \cup {NoOut}
                      \/ hb'.pc = "emit" /\ e.fresh = hb'.prev
<1> USE Types, FaultGaps DEF InTime
<1>0. ASSUME e \in old
      PROVE  /\ e.fresh \in Out \cup {NoOut} /\ e.dl \in Nat
             /\ e.fresh = NoOut \/ wallet[e.fresh] = "held"
             /\ InTime(e.dl, e.fresh)
             /\ \/ e.fresh \in left \cup {NoOut}
                \/ hb.pc = "emit" /\ e.fresh = hb.prev
  BY <1>0 DEF SupersededInTime, Spendable
<1>1. ASSUME NEW c \in Chan, Advance(c) PROVE Goal
  BY <1>0, <1>1 DEF Advance, wall, history
<1>2. ASSUME NEW c \in Chan, NEW s \in {"spliced", "closed"}, SpendOutpoint(c, s) PROVE Goal
  BY <1>0, <1>2 DEF SpendOutpoint, wall, history
<1>3. CASE NewBlock
  BY <1>0, <1>3 DEF NewBlock, chans, wall, history
<1>4. CASE TickIdle \/ TickFails
  BY <1>0, <1>4, TickOver DEF TickIdle, TickFails, chans, wall, history
<1>5. CASE StartTick
  BY <1>0, <1>5, TickOver, TickBegins DEF StartTick, chans, history
<1>6. ASSUME NEW p \in Out, OrdinarySpend(p) \/ BumpSpend(p) PROVE Goal
  BY <1>0, <1>6 DEF OrdinarySpend, BumpSpend, Spend, Killed, TypeOK
<1>7. ASSUME NEW c \in Chan, Skip(c) \/ ReadFails(c) PROVE Goal
  <2>1. /\ UNCHANGED <<tip, since, old, designated, wallet, left>>
        /\ faults' = faults \/ Fault
        /\ hb'.pc = hb.pc /\ hb'.prev = hb.prev
    BY <1>7, LoopStep DEF Skip, ReadFails, chans, wall, history
  <2>2. QED
    BY <1>0, <2>1
<1>8. ASSUME NEW c \in Chan, Emit(c) \/ SendFails(c) PROVE Goal
  <2>1. /\ UNCHANGED <<tip, since, designated, wallet, left>>
        /\ faults' = faults \/ Fault
        /\ hb'.pc = hb.pc /\ hb'.prev = hb.prev /\ hb.pc = "emit" /\ c \in hb.todo
    BY <1>8, LoopStep DEF Emit, SendFails, Due, wall
  <2>2. CASE e \in old
    BY <1>0, <2>1, <2>2
  <2>3. CASE e \notin old
    <3>0. /\ cur[c] # NoExit /\ Spendable(cur[c].fresh)
          /\ e = [chan |-> c, dl |-> cur[c].dl, fresh |-> cur[c].fresh]
      BY <1>8, <2>3 DEF Emit, SendFails, Emitted, chans
    <3>1. /\ cur[c] # NoExit /\ Spendable(cur[c].fresh)
          /\ e.dl = cur[c].dl /\ e.fresh = cur[c].fresh
      BY <3>0
    <3>2. InTime(cur[c].dl, cur[c].fresh) /\ cur[c].fresh \in left \cup {NoOut, hb.prev}
      BY <2>1, <3>1 DEF CurrentInTime
    <3>3. QED
      BY <2>1, <3>1, <3>2 DEF Spendable
  <2>4. QED
    BY <2>2, <2>3
<1>9. CASE Retire
  BY <1>0, <1>9, TickEnds DEF Retire, Killed, TypeOK
<1>10. CASE LeavePrevious \/ RetireFails \/ RetireEvicted \/ Restart
  <2>1. /\ UNCHANGED <<old, wallet>> /\ hb'.pc = "sleep" /\ left \cup ({hb.prev} \ {NoOut}) \subseteq left'
    BY <1>10, TickEnds DEF LeavePrevious, RetireFails, RetireEvicted, Restart, chans, wall
  <2>2. QED
    BY <1>0, <2>1
<1>11. CASE UNCHANGED vars
  BY <1>0, <1>11 DEF vars, chans, wall, history
<1> QED
  BY <1>1, <1>2, <1>3, <1>4, <1>5, <1>6, <1>7, <1>8, <1>9, <1>10, <1>11 DEF Next, Heartbeat

-----------------------------------------------------------------------------
(* The theorems. *)

\* The invariant holds before the first tick.
LEMMA InvInitially == Init => HeartbeatInv
<1> SUFFICES ASSUME Init PROVE HeartbeatInv
  OBVIOUS
<1>1. TypeOK
  <2>1. TickTyped
    <3>1. Idle.pc \in {"sleep", "emit"} /\ Idle.tip \in 0..tip /\ Idle.prev \in Out \cup {NoOut}
          /\ Idle.fresh \in Out \cup {NoOut} /\ Idle.todo \in SUBSET Chan
          /\ Idle.skipped \in SUBSET Chan
      BY DEF Idle, Init
    <3>2. Idle.ok \in BOOLEAN /\ Idle.fresh = NoOut
      BY Zenon DEF Idle
    <3>3. Idle \in TickRecord
      BY <3>1, <3>2, Zenon DEF Idle, TickRecord
    <3>4. QED
      BY <3>2, <3>3 DEF TickTyped, Init
  <2>2. RestTyped
    BY HeartbeatAssumption DEF RestTyped, Init, NoExit, Exit, NoOut
  <2>3. QED
    BY <2>1, <2>2, TypeOKHalves
<1>2. hb.pc = "sleep" /\ hb.prev = NoOut /\ hb.fresh = NoOut
  BY TickOver DEF Init
<1>3. \A c \in Chan : cur[c] = NoExit
  BY DEF Init
<1>4. QED
  BY <1>1, <1>2, <1>3, NoExitFields, HeartbeatAssumption
     DEF HeartbeatInv, TickShape, ExitsAreOpen, DoneIsOnFresh, Reserved, FreshIsRecorded, Fresh,
         RetireSparesTried, SpentIsKnown, Backed, CurrentInTime, SupersededInTime, Init, Out, NoOut

\* Every step keeps the invariant.
LEMMA InvStep == HeartbeatInv /\ [Next]_vars => HeartbeatInv'
  BY TypeStep, ShapeStep, ExitsStep, DoneStep, ReservedStep, SparesStep, GuardedStep, RecordedStep,
     CurrentStep, SupersededStep
     DEF HeartbeatInv

\* An exit that is in time does not open.
LEMMA InTimeIsFuture ==
    ASSUME TypeOK, NEW dl \in Nat, NEW o, InTime(dl, o), dl <= tip
    PROVE  o \in left \cup {NoOut}
  BY Types, FaultGaps DEF InTime

\* What the invariant says of the exits that could open.
LEMMA InvNoExitOpens == HeartbeatInv => NoExitOpens
<1> SUFFICES ASSUME HeartbeatInv PROVE NoExitOpens
  OBVIOUS
<1>1. ASSUME NEW c \in Chan, cur[c] # NoExit, cur[c].dl <= tip, Spendable(cur[c].fresh)
      PROVE  cur[c].fresh \in left \cup {NoOut}
  BY <1>1, Types, InTimeIsFuture DEF HeartbeatInv, CurrentInTime
<1>2. ASSUME NEW e \in old, e.dl <= tip PROVE e.fresh \in left \cup {NoOut}
  BY <1>2, Types, InTimeIsFuture DEF HeartbeatInv, SupersededInTime
<1>3. QED
  BY <1>1, <1>2 DEF NoExitOpens

\* The invariant of run_deadman_exit_heartbeat holds in every reachable state.
THEOREM HeartbeatCorrect == Spec => []HeartbeatInv
  BY InvInitially, InvStep, PTL DEF Spec

\* The tick in progress, the wallet and the records are well typed: the output
\* a tick designates is never the one it replaces, however small the wallet.
THEOREM TypeCorrect == Spec => []TypeOK
<1>1. HeartbeatInv => TypeOK
  BY DEF HeartbeatInv
<1>2. QED
  BY <1>1, HeartbeatCorrect, PTL

\* The retirement at the end of run_deadman_exit_heartbeat never takes the exit
\* of a channel the tick tried: a failed emission vetoes it.
THEOREM RetireSparesTriedHolds == Spec => []RetireSparesTried
<1>1. HeartbeatInv => RetireSparesTried
  BY DEF HeartbeatInv
<1>2. QED
  BY <1>1, HeartbeatCorrect, PTL

\* A channel that last_cltv calls fresh has the exit it is fresh by, and the
\* output of that exit is in the wallet, but for the cases the code leaves open:
\* a retirement that passed the channel over, a reservation lost by a restart or
\* with an evicted retirement, and a fee bump.
THEOREM FreshHasExitHolds == Spec => []FreshHasExit
<1>1. ASSUME HeartbeatInv PROVE FreshHasExit
  <2> SUFFICES ASSUME NEW c \in Chan, st[c] = "open", Fresh(c, tip)
               PROVE  /\ cur[c].dl = last[c]
                      /\ \/ Spendable(cur[c].fresh) \/ c \in passedOver
                         \/ cur[c].fresh \in unguarded \cup bumped
    BY DEF FreshHasExit
  <2>1. cur[c].dl = last[c]
    BY <1>1 DEF HeartbeatInv, FreshIsRecorded
  <2>2. cur[c] # NoExit
    BY <1>1, <2>1, Types, MarginFits, NoExitFields DEF HeartbeatInv, Fresh
  <2>3. /\ cur[c].fresh \in Out \cup {NoOut}
        /\ cur[c].fresh \in Out => wallet[cur[c].fresh] \in {"held", "retired", "spent"}
    BY <1>1, Types DEF HeartbeatInv, TypeOK
  <2>4. QED
    BY <1>1, <2>1, <2>2, <2>3 DEF HeartbeatInv, RetireSparesTried, SpentIsKnown, Backed, Spendable
<1>2. QED
  BY <1>1, HeartbeatCorrect, PTL

\* No exit opens while the heartbeat keeps its interval, whatever fails, but
\* for those on an output that was replaced and not retired, or on none.
THEOREM NoExitOpensHolds == Spec => []NoExitOpens
  BY InvNoExitOpens, HeartbeatCorrect, PTL
=============================================================================
