--------------------------- MODULE SwapOut_proofs ---------------------------
(***************************************************************************)
(* What the on-chain swap-out rail promises, for every number of requests, *)
(* channels, splices and faults: no request is given up, no visit of the   *)
(* watcher pays twice, and a splice is credited to the swap it was made    *)
(* for on every channel where no delivery lost its event.                  *)
(***************************************************************************)
EXTENDS SwapOut, SequenceTheorems, FiniteSetTheorems, TLAPS

-----------------------------------------------------------------------------
(* The inductive invariant. *)

\* A drive is about a request of the pass; it initiates one splice, and from then
\* to its end or the event it holds the slot of its channel.
DriveShape ==
    /\ drv.pc = "idle" => drv = Idle
    /\ drv.pc # "idle" => drv.swap \in todo
    /\ drv.pc # "complete" => drv.splice = 0
    /\ drv.pc = "complete" => /\ drv.splice \in DOMAIN splices
                              /\ splices[drv.splice].st # "flight"
    /\ drv.pc = "wait" => drv.chan \in Chan /\ slot[drv.chan].by = "drive"
    /\ \A c \in Chan : slot[c].by = "drive" => drv.pc = "wait" /\ drv.chan = c
    /\ \A c \in Chan : slot[c].by # "none" => slot[c].swap \in Swap

\* It has initiated nothing while it may still choose or reverse.
OwnShape ==
    /\ drv.pc \in {"idle", "pick"} => drv.own = {}
    /\ drv.pc \in {"wait", "complete"} => \E k \in 1..MaxSplices : drv.own = {k}

\* The pass is about requests that are not handled.
PassShape == \A s \in todo : s \notin handled /\ evm[s] # "none"

\* Every splice is reported once, after its negotiation.
EventsOnce ==
    /\ events \in Seq(DOMAIN splices)
    /\ \A k \in DOMAIN events : splices[events[k]].st # "flight"
    /\ \A k, l \in DOMAIN events : events[k] = events[l] => k = l

\* Nothing was proved by a splice under negotiation.
FlightUncredited ==
    \A i \in DOMAIN splices : splices[i].st = "flight" => splices[i].credit = NoSwap

\* A splice of which the drive or the correlator has not heard yet.
Unheard(i) == splices[i].st = "flight" \/ \E k \in DOMAIN events : events[k] = i

\* On a channel where no delivery lost its event, the splice that is still to be
\* reported is the one the drive waits for, a completion is about the splice of
\* its own swap, and no task watches.
UncutIsOwn ==
    /\ \A i \in DOMAIN splices : splices[i].chan \notin cut /\ Unheard(i) =>
          /\ drv.pc = "wait" /\ drv.own = {i}
          /\ splices[i].chan = drv.chan /\ splices[i].swap = drv.swap
    /\ drv.pc = "complete" /\ splices[drv.splice].chan \notin cut =>
          splices[drv.splice].swap = drv.swap
    /\ \A t \in late : splices[t.splice].st # "flight" /\ splices[t.splice].chan \in cut
    /\ \A c \in Chan : slot[c].by = "watch" => c \in cut

SwapOutInv ==
    /\ TypeOK /\ DriveShape /\ OwnShape /\ PassShape /\ HandledIsSettled
    /\ EventsOnce /\ FlightUncredited /\ UncutIsOwn /\ CreditedToItsSwap

-----------------------------------------------------------------------------
(* Lemmas about the splices. *)

SplicesTyped == splices \in Seq(SpliceType) /\ Len(splices) <= MaxSplices

State == {"flight", "sent", "locked", "dead"}

LEMMA SpliceFields ==
    ASSUME SplicesTyped
    PROVE  /\ Len(splices) \in Nat /\ DOMAIN splices = 1..Len(splices)
           /\ \A i \in DOMAIN splices :
                 /\ splices[i].swap \in Swap /\ splices[i].chan \in Chan
                 /\ splices[i].st \in State /\ splices[i].credit \in Swap \cup {NoSwap}
                 /\ splices[i] = [swap |-> splices[i].swap, chan |-> splices[i].chan,
                                  st |-> splices[i].st, credit |-> splices[i].credit]
<1>1. Len(splices) \in Nat /\ DOMAIN splices = 1..Len(splices)
  BY LenProperties DEF SplicesTyped
<1>2. \A i \in DOMAIN splices : splices[i] \in SpliceType
  BY <1>1, ElementOfSeq DEF SplicesTyped
<1>3. QED
  BY <1>1, <1>2 DEF SpliceType, State

\* What a new state of splice i changes.
SetState(i, st) ==
    /\ SplicesTyped' /\ Len(splices') = Len(splices) /\ DOMAIN splices' = DOMAIN splices
    /\ \A j \in DOMAIN splices :
          /\ splices'[j].swap = splices[j].swap /\ splices'[j].chan = splices[j].chan
          /\ splices'[j].credit = splices[j].credit
          /\ splices'[j].st = IF j = i THEN st ELSE splices[j].st

LEMMA StateIsSet ==
    ASSUME SplicesTyped, NEW i \in DOMAIN splices, NEW st \in State,
           splices' = [splices EXCEPT ![i].st = st]
    PROVE  SetState(i, st)
<1> DEFINE new == [splices[i] EXCEPT !.st = st]
<1>1. new \in SpliceType /\ new.swap = splices[i].swap /\ new.chan = splices[i].chan
      /\ new.st = st /\ new.credit = splices[i].credit
  BY SpliceFields DEF SpliceType, State
<1>2. splices' = [splices EXCEPT ![i] = new]
  OBVIOUS
<1> HIDE DEF new
<1>3. splices' \in Seq(SpliceType) /\ Len(splices') = Len(splices)
      /\ \A j \in 1..Len(splices) : splices'[j] = IF j = i THEN new ELSE splices[j]
  BY <1>1, <1>2, SpliceFields, ExceptSeq DEF SplicesTyped
<1>4. DOMAIN splices' = DOMAIN splices
  BY <1>2
<1>5. QED
  BY <1>1, <1>3, <1>4, SpliceFields DEF SetState, SplicesTyped

\* What the acceptance of splice i for swap s changes.
SetCredit(i, s) ==
    /\ SplicesTyped' /\ Len(splices') = Len(splices) /\ DOMAIN splices' = DOMAIN splices
    /\ \A j \in DOMAIN splices :
          /\ splices'[j].swap = splices[j].swap /\ splices'[j].chan = splices[j].chan
          /\ splices'[j].st = splices[j].st
          /\ splices'[j].credit = IF j = i THEN s ELSE splices[j].credit

LEMMA CreditIsSet ==
    ASSUME SplicesTyped, NEW i \in DOMAIN splices, NEW s \in Swap,
           splices' = [splices EXCEPT ![i].credit = s]
    PROVE  SetCredit(i, s)
<1> DEFINE new == [splices[i] EXCEPT !.credit = s]
<1>1. new \in SpliceType /\ new.swap = splices[i].swap /\ new.chan = splices[i].chan
      /\ new.st = splices[i].st /\ new.credit = s
  BY SpliceFields DEF SpliceType, State
<1>2. splices' = [splices EXCEPT ![i] = new]
  OBVIOUS
<1> HIDE DEF new
<1>3. splices' \in Seq(SpliceType) /\ Len(splices') = Len(splices)
      /\ \A j \in 1..Len(splices) : splices'[j] = IF j = i THEN new ELSE splices[j]
  BY <1>1, <1>2, SpliceFields, ExceptSeq DEF SplicesTyped
<1>4. DOMAIN splices' = DOMAIN splices
  BY <1>2
<1>5. QED
  BY <1>1, <1>3, <1>4, SpliceFields DEF SetCredit, SplicesTyped

\* What the initiation of a splice of channel c for swap s changes.
AddSplice(s, c) ==
    /\ SplicesTyped' /\ Len(splices') = Len(splices) + 1
    /\ DOMAIN splices' = DOMAIN splices \cup {Len(splices')}
    /\ Len(splices') \notin DOMAIN splices
    /\ \A j \in DOMAIN splices : splices'[j] = splices[j]
    /\ splices'[Len(splices')] = [swap |-> s, chan |-> c, st |-> "flight", credit |-> NoSwap]

LEMMA SpliceIsAdded ==
    ASSUME SplicesTyped, Len(splices) < MaxSplices, NEW s \in Swap, NEW c \in Chan,
           splices' = Append(splices, [swap |-> s, chan |-> c, st |-> "flight",
                                       credit |-> NoSwap])
    PROVE  AddSplice(s, c)
<1> DEFINE new == [swap |-> s, chan |-> c, st |-> "flight", credit |-> NoSwap]
<1>1. new \in SpliceType
  BY DEF SpliceType
<1>2. splices' = Append(splices, new)
  OBVIOUS
<1> HIDE DEF new
<1>3. /\ splices' \in Seq(SpliceType) /\ Len(splices') = Len(splices) + 1
      /\ \A j \in 1..Len(splices) : splices'[j] = splices[j]
      /\ splices'[Len(splices) + 1] = new
  BY <1>1, <1>2, AppendProperties DEF SplicesTyped
<1>4. DOMAIN splices' = 1..Len(splices')
  BY <1>3, LenProperties
<1>5. QED
  BY <1>3, <1>4, SpliceFields, SwapOutAssumption DEF AddSplice, SplicesTyped, new

\* What the death of the last splice changes.
DropSplice(i) ==
    /\ SplicesTyped' /\ i \in DOMAIN splices /\ splices[i].st = "flight"
    /\ DOMAIN splices' = DOMAIN splices \ {i}
    /\ \A j \in DOMAIN splices' : splices'[j] = splices[j]

LEMMA SpliceIsDropped ==
    ASSUME SplicesTyped, NEW i \in DOMAIN splices, i = Len(splices), splices[i].st = "flight",
           splices' = SubSeq(splices, 1, i - 1)
    PROVE  DropSplice(i)
<1>1. Len(splices) \in Nat /\ DOMAIN splices = 1..Len(splices) /\ i \in Nat /\ i >= 1
      /\ i - 1 \in Int
  BY SpliceFields
<1>2. \A j \in 1..(i - 1) : splices[j] \in SpliceType
  BY <1>1, ElementOfSeq DEF SplicesTyped
<1>3. /\ splices' \in Seq(SpliceType) /\ Len(splices') = i - 1
      /\ \A j \in 1..(i - 1) : splices'[j] = splices[j]
  <2>1. /\ SubSeq(splices, 1, i - 1) \in Seq(SpliceType)
        /\ Len(SubSeq(splices, 1, i - 1)) = IF 1 <= i - 1 THEN (i - 1) - 1 + 1 ELSE 0
        /\ \A j \in 1..((i - 1) - 1 + 1) : SubSeq(splices, 1, i - 1)[j] = splices[1 + j - 1]
    BY <1>1, <1>2, SubSeqProperties
  <2>2. QED
    BY <1>1, <2>1
<1>4. DOMAIN splices' = 1..(i - 1)
  BY <1>3, LenProperties
<1>5. DOMAIN splices' = DOMAIN splices \ {i}
  BY <1>1, <1>4
<1>6. Len(splices') <= MaxSplices
  BY <1>1, <1>3, SwapOutAssumption DEF SplicesTyped
<1>7. QED
  BY <1>1, <1>3, <1>4, <1>5, <1>6 DEF DropSplice, SplicesTyped

-----------------------------------------------------------------------------
(* Types. *)

SlotTyped ==
    slot \in [Chan -> [by : {"none", "drive", "watch"}, swap : Swap \cup {NoSwap}]]

DrvTyped ==
    drv \in [pc : {"idle", "pick", "wait", "complete"}, swap : Swap \cup {NoSwap},
             cands : SUBSET Chan, chan : Chan \cup {NoChan},
             own : SUBSET (1..MaxSplices), splice : {0} \cup DOMAIN splices]

LateTyped == late \subseteq [swap : Swap, splice : DOMAIN splices]

RestTyped ==
    /\ evm \in [Swap -> Outcome] /\ buried \subseteq SettledSwaps
    /\ todo \subseteq Swap /\ handled \subseteq Swap
    /\ faults \in 0..MaxFaults
    /\ dormant \subseteq Swap /\ cut \subseteq Chan

EventsTyped == events \in Seq(DOMAIN splices)

LEMMA TypeOKParts ==
    /\ TypeOK => SplicesTyped /\ SlotTyped /\ DrvTyped /\ LateTyped /\ RestTyped
    /\ SplicesTyped /\ SlotTyped /\ DrvTyped /\ LateTyped /\ RestTyped /\ EventsTyped => TypeOK
<1>1. EventsTyped => \A k \in DOMAIN events : events[k] \in DOMAIN splices
  BY ElementOfSeq, LenProperties DEF EventsTyped
<1>2. QED
  BY <1>1 DEF TypeOK, SplicesTyped, SlotTyped, DrvTyped, LateTyped, RestTyped

\* What the next step of the drive may be, field by field.
DrvBecomes(pc, swap, cands, chan, own, splice) ==
    /\ drv'.pc = pc /\ drv'.swap = swap /\ drv'.cands = cands /\ drv'.chan = chan
    /\ drv'.own = own /\ drv'.splice = splice
    /\ drv' = [pc |-> pc, swap |-> swap, cands |-> cands, chan |-> chan, own |-> own,
               splice |-> splice]

LEMMA DrvStays ==
    ASSUME DrvTyped, drv.splice \in {0} \cup DOMAIN splices', drv' = drv
    PROVE  DrvTyped'
  BY DEF DrvTyped

LEMMA DrvIdles ==
    ASSUME drv' = Idle
    PROVE  DrvTyped' /\ DrvBecomes("idle", NoSwap, {}, NoChan, {}, 0)
  BY DEF DrvTyped, Idle, DrvBecomes

LEMMA StartFacts ==
    ASSUME NEW s \in Swap, NEW C \in SUBSET Chan,
           drv' = [Idle EXCEPT !.pc = "pick", !.swap = s, !.cands = C]
    PROVE  DrvTyped' /\ DrvBecomes("pick", s, C, NoChan, {}, 0)
  BY DEF DrvTyped, Idle, DrvBecomes

LEMMA InitiateFacts ==
    ASSUME DrvTyped, NEW c \in Chan, NEW k \in 1..MaxSplices, drv.splice = 0,
           drv' = [drv EXCEPT !.pc = "wait", !.cands = {}, !.chan = c, !.own = @ \cup {k}]
    PROVE  DrvTyped' /\ DrvBecomes("wait", drv.swap, {}, c, drv.own \cup {k}, 0)
  BY DEF DrvTyped, DrvBecomes

LEMMA InitiateFailsFacts ==
    ASSUME DrvTyped, NEW c \in Chan, UNCHANGED splices,
           drv' = [drv EXCEPT !.cands = @ \ {c}]
    PROVE  /\ DrvTyped'
           /\ DrvBecomes(drv.pc, drv.swap, drv.cands \ {c}, drv.chan, drv.own, drv.splice)
  BY DEF DrvTyped, DrvBecomes

LEMMA HandFacts ==
    ASSUME DrvTyped, NEW i \in DOMAIN splices, UNCHANGED splices,
           drv' = [drv EXCEPT !.pc = "complete", !.chan = NoChan, !.splice = i]
    PROVE  DrvTyped' /\ DrvBecomes("complete", drv.swap, drv.cands, NoChan, drv.own, i)
  BY DEF DrvTyped, DrvBecomes

\* What a completion for swap s and splice i does to the chains.
LEMMA CompletionEffect ==
    ASSUME SplicesTyped, RestTyped, NEW s \in Swap, NEW i \in DOMAIN splices,
           CompleteErr(i) \/ NoLadder(i) \/ Deliver(s, i) \/ DeliverReverts(s, i)
    PROVE  \/ UNCHANGED <<evm, splices>>
           \/ /\ evm[s] = "pending" /\ evm' = [evm EXCEPT ![s] = "delivered"]
              /\ splices[i].st = "locked" /\ SetCredit(i, s)
<1>1. CASE Deliver(s, i)
  BY <1>1, CreditIsSet DEF Deliver, Deliverable
<1>2. CASE ~Deliver(s, i)
  BY <1>2 DEF CompleteErr, NoLadder, DeliverReverts
<1>3. QED
  BY <1>1, <1>2

\* The drive works on a request of the pass, and completes a splice there is.
LEMMA DriveTypes ==
    ASSUME TypeOK, DriveShape
    PROVE  /\ drv.pc # "idle" => drv.swap \in Swap
           /\ drv.pc = "complete" => drv.splice \in DOMAIN splices
           /\ drv.pc \in {"idle", "pick", "wait", "complete"}
           /\ \A t \in late : t.swap \in Swap /\ t.splice \in DOMAIN splices
  BY DEF TypeOK, DriveShape

\* What a step may do to the splices: nothing, or one of four things.
LEMMA SplicesStep ==
    ASSUME TypeOK, DriveShape, [Next]_vars
    PROVE  \/ UNCHANGED splices
           \/ \E i \in DOMAIN splices :
                 /\ splices[i].st = "flight" /\ SetState(i, "sent") /\ events' = Append(events, i)
                 /\ SpliceEnds(i)
           \/ \E i \in DOMAIN splices :
                 splices[i].st = "flight" /\ SetState(i, "dead") /\ UNCHANGED events /\ SpliceEnds(i)
           \/ \E i \in DOMAIN splices : DropSplice(i) /\ UNCHANGED events /\ SpliceEnds(i)
           \/ \E i \in DOMAIN splices :
                 splices[i].st = "sent" /\ SetState(i, "locked") /\ UNCHANGED events /\ SpliceLocks(i)
           \/ /\ drv.pc = "complete" /\ CompleteDelivery /\ SetCredit(drv.splice, drv.swap)
              /\ splices[drv.splice].st = "locked"
           \/ \E t \in late : /\ CompleteLate(t) /\ SetCredit(t.splice, t.swap)
                            /\ splices[t.splice].st = "locked"
           \/ \E c \in Chan : Initiate(c) /\ AddSplice(drv.swap, c)
<1>0. SplicesTyped /\ RestTyped
  BY TypeOKParts
<1>1. CASE \E i \in DOMAIN splices : SpliceEnds(i)
  BY <1>0, <1>1, StateIsSet, SpliceIsDropped DEF SpliceEnds, State
<1>2. CASE \E i \in DOMAIN splices : SpliceLocks(i)
  BY <1>0, <1>2, StateIsSet DEF SpliceLocks, State
<1>3. CASE CompleteDelivery
  <2>1. drv.pc = "complete" /\ drv.swap \in Swap /\ drv.splice \in DOMAIN splices
    BY <1>3, DriveTypes DEF CompleteDelivery
  <2>2. \/ CompleteErr(drv.splice) \/ NoLadder(drv.splice)
        \/ Deliver(drv.swap, drv.splice) \/ DeliverReverts(drv.swap, drv.splice)
    BY <1>3 DEF CompleteDelivery
  <2>3. QED
    BY <1>0, <1>3, <2>1, <2>2, CompletionEffect
<1>4. ASSUME NEW t \in late, CompleteLate(t) PROVE
         UNCHANGED splices \/ (SetCredit(t.splice, t.swap) /\ splices[t.splice].st = "locked")
  <2>1. \/ CompleteErr(t.splice) \/ NoLadder(t.splice)
        \/ Deliver(t.swap, t.splice) \/ DeliverReverts(t.swap, t.splice)
    BY <1>4 DEF CompleteLate
  <2>2. QED
    BY <1>0, <2>1, DriveTypes, CompletionEffect
<1>5. ASSUME NEW c \in Chan, Initiate(c) PROVE AddSplice(drv.swap, c)
  <2>1. drv.swap \in Swap
    BY <1>5, DriveTypes DEF Initiate
  <2>2. QED
    BY <1>0, <1>5, <2>1, SpliceIsAdded DEF Initiate
<1>6. CASE Poll \/ LockTimeout \/ Reverse \/ ReverseFails \/ Restart \/ Resolve \/ Bury \/ UNCHANGED vars
  BY <1>6 DEF Poll, LockTimeout, Reverse, ReverseFails, Restart, Resolve, Bury, vars, btcVars
<1>7. CASE \E s \in Swap : \/ StartDrive(s) \/ StartFails(s)
                           \/ RequestSwapOutOnchain(s) \/ RefundExpiredSwapOut(s)
  BY <1>7 DEF StartDrive, StartFails, RequestSwapOutOnchain, RefundExpiredSwapOut, btcVars
<1>8. CASE \E c \in Chan : InitiateFails(c) \/ WatchExpires(c)
  BY <1>8 DEF InitiateFails, WatchExpires, btcVars
<1>9. QED
  <2>1. CASE \E t \in late : CompleteLate(t)
    BY <1>4, <2>1
  <2>2. CASE \E c \in Chan : Initiate(c)
    BY <1>5, <2>2
  <2>3. QED
    BY <1>1, <1>2, <1>3, <1>6, <1>7, <1>8, <2>1, <2>2 DEF Next, Drive, Tasks, Chains

\* Splices keep their swap and channel, and those whose negotiation ended with a
\* transaction are not forgotten.
SplicesKept ==
    /\ SplicesTyped'
    /\ \A i \in DOMAIN splices : splices[i].st # "flight" =>
          i \in DOMAIN splices' /\ splices'[i].st # "flight"
    /\ \A i \in DOMAIN splices : i \in DOMAIN splices' =>
          splices'[i].swap = splices[i].swap /\ splices'[i].chan = splices[i].chan

LEMMA SplicesAreKept ==
    ASSUME TypeOK, DriveShape, [Next]_vars
    PROVE  SplicesKept
<1>1. SplicesTyped
  BY TypeOKParts
<1>2. CASE UNCHANGED splices
  BY <1>1, <1>2 DEF SplicesTyped, SplicesKept
<1>3. ASSUME NEW i, NEW st, st # "flight", SetState(i, st) PROVE SplicesKept
  BY <1>3 DEF SetState, SplicesKept
<1>4. CASE \E i, s : SetCredit(i, s)
  BY <1>4 DEF SetCredit, SplicesKept
<1>5. ASSUME NEW c, AddSplice(drv.swap, c) PROVE SplicesKept
  BY <1>5 DEF AddSplice, SplicesKept
<1>6. ASSUME NEW i, DropSplice(i) PROVE SplicesKept
  BY <1>6 DEF DropSplice, SplicesKept
<1>7. QED
  BY <1>2, <1>3, <1>4, <1>5, <1>6, SplicesStep

\* The event the correlator reads next.
LEMMA HeadOfEvents ==
    ASSUME SplicesTyped, EventsTyped, events # <<>>
    PROVE  /\ Head(events) \in DOMAIN splices /\ splices[Head(events)].chan \in Chan
           /\ 1 \in DOMAIN events /\ events[1] = Head(events)
           /\ Tail(events) \in Seq(DOMAIN splices)
           /\ \A k \in DOMAIN Tail(events) : k + 1 \in DOMAIN events /\ Tail(events)[k] = events[k + 1]
           /\ DOMAIN Tail(events) \subseteq Nat /\ DOMAIN events \subseteq Nat
<1>1. /\ Head(events) \in DOMAIN splices /\ Tail(events) \in Seq(DOMAIN splices)
      /\ Len(Tail(events)) = Len(events) - 1
      /\ \A k \in 1..Len(Tail(events)) : Tail(events)[k] = events[k + 1]
  BY HeadTailProperties DEF EventsTyped
<1>2. Len(events) \in Nat /\ DOMAIN events = 1..Len(events) /\ Len(events) > 0
  BY EmptySeq, LenProperties DEF EventsTyped
<1>3. events[1] = Head(events)
  BY <1>2 DEF EventsTyped
<1>4. DOMAIN Tail(events) = 1..Len(Tail(events))
  BY <1>1, LenProperties
<1>5. QED
  BY <1>1, <1>2, <1>3, <1>4, SpliceFields

LEMMA SlotStep ==
    ASSUME TypeOK, DriveShape, EventsTyped, [Next]_vars
    PROVE  SlotTyped'
<1>0. SlotTyped /\ DrvTyped /\ SplicesTyped
  BY TypeOKParts
<1>1. CASE UNCHANGED slot
  BY <1>0, <1>1 DEF SlotTyped
<1>2. ASSUME NEW c \in Chan, slot' \in {slot, [slot EXCEPT ![c] = Free]} PROVE SlotTyped'
  BY <1>0, <1>2 DEF SlotTyped, Free
<1>3. CASE Resolve
  BY <1>0, <1>2, <1>3, HeadOfEvents DEF Resolve, Hand
<1>4. CASE LockTimeout
  BY <1>0, <1>4 DEF LockTimeout, SlotTyped, DriveShape
<1>5. CASE \E c \in Chan : Initiate(c)
  BY <1>0, <1>5, DriveTypes DEF Initiate, SlotTyped
<1>6. CASE Restart
  BY <1>6 DEF Restart, SlotTyped, Free
<1>7. CASE \E c \in Chan : InitiateFails(c) \/ WatchExpires(c)
  BY <1>2, <1>7 DEF InitiateFails, WatchExpires
<1>8. QED
  <2>1. CASE Poll \/ Reverse \/ ReverseFails \/ CompleteDelivery \/ Bury \/ UNCHANGED vars
    BY <1>1, <2>1 DEF Poll, Reverse, ReverseFails, CompleteDelivery, Bury, vars
  <2>2. CASE \E s \in Swap : \/ StartDrive(s) \/ StartFails(s)
                             \/ RequestSwapOutOnchain(s) \/ RefundExpiredSwapOut(s)
    BY <1>1, <2>2 DEF StartDrive, StartFails, RequestSwapOutOnchain, RefundExpiredSwapOut
  <2>3. CASE \E i \in DOMAIN splices : SpliceEnds(i) \/ SpliceLocks(i)
    BY <1>1, <2>3 DEF SpliceEnds, SpliceLocks
  <2>4. CASE \E t \in late : CompleteLate(t)
    BY <1>1, <2>4 DEF CompleteLate
  <2>5. QED
    BY <1>3, <1>4, <1>5, <1>6, <1>7, <2>1, <2>2, <2>3, <2>4 DEF Next, Drive, Tasks, Chains

LEMMA DrvStep ==
    ASSUME TypeOK, DriveShape, EventsTyped, [Next]_vars
    PROVE  DrvTyped'
<1>0. DrvTyped /\ SplicesTyped /\ drv.splice \in {0} \cup DOMAIN splices'
  BY TypeOKParts, SplicesAreKept DEF SplicesKept, DriveShape
<1>1. CASE UNCHANGED drv
  BY <1>0, <1>1, DrvStays
<1>2. CASE drv' = Idle
  BY <1>2, DrvIdles
<1>3. CASE Resolve
  BY <1>0, <1>1, <1>3, HeadOfEvents, HandFacts DEF Resolve, Hand
<1>4. CASE \E s \in Swap : StartDrive(s)
  BY <1>1, <1>4, StartFacts DEF StartDrive
<1>5. CASE \E c \in Chan : Initiate(c)
  <2>1. Len(splices) < MaxSplices => Len(splices) + 1 \in 1..MaxSplices
    BY <1>0, SpliceFields, SwapOutAssumption
  <2>2. QED
    BY <1>0, <1>5, <2>1, InitiateFacts DEF Initiate, DriveShape
<1>6. CASE \E c \in Chan : InitiateFails(c)
  BY <1>0, <1>6, InitiateFailsFacts DEF InitiateFails, btcVars
<1>7. QED
  <2>1. CASE Poll \/ Bury \/ UNCHANGED vars
    BY <1>1, <2>1 DEF Poll, Bury, vars
  <2>2. CASE LockTimeout \/ Reverse \/ ReverseFails \/ Restart \/ CompleteDelivery
    BY <1>2, <2>2 DEF LockTimeout, Reverse, ReverseFails, Restart, CompleteDelivery,
                      ReturnOk, ReturnErr
  <2>3. CASE \E s \in Swap : \/ StartFails(s)
                             \/ RequestSwapOutOnchain(s) \/ RefundExpiredSwapOut(s)
    BY <1>1, <2>3 DEF StartFails, RequestSwapOutOnchain, RefundExpiredSwapOut
  <2>4. CASE \E i \in DOMAIN splices : SpliceEnds(i) \/ SpliceLocks(i)
    BY <1>1, <2>4 DEF SpliceEnds, SpliceLocks
  <2>5. CASE \E t \in late : CompleteLate(t)
    BY <1>1, <2>5 DEF CompleteLate
  <2>6. CASE \E c \in Chan : WatchExpires(c)
    BY <1>1, <2>6 DEF WatchExpires
  <2>7. QED
    BY <1>3, <1>4, <1>5, <1>6, <2>1, <2>2, <2>3, <2>4, <2>5, <2>6 DEF Next, Drive, Tasks, Chains

\* Tasks begin only with an event on a watched channel.
LEMMA LateStep ==
    ASSUME TypeOK, DriveShape, EventsTyped, UncutIsOwn, [Next]_vars
    PROVE  LateTyped' /\ (late' \subseteq late \/ Resolve)
<1>0. LateTyped /\ SplicesTyped /\ \A t \in late : t.splice \in DOMAIN splices'
  BY TypeOKParts, SplicesAreKept DEF SplicesKept, UncutIsOwn, LateTyped
<1>1. CASE late' \subseteq late
  BY <1>0, <1>1 DEF LateTyped
<1>2. CASE Resolve
  <2> DEFINE i == Head(events)
             c == splices[i].chan
  <2>1. i \in DOMAIN splices /\ c \in Chan /\ UNCHANGED splices
    BY <1>0, <1>2, HeadOfEvents DEF Resolve
  <2>2. late' = late \/ (slot[c].by = "watch" /\ late' = late \cup {[swap |-> slot[c].swap, splice |-> i]})
    BY <1>2 DEF Resolve, Hand
  <2>3. slot[c].by = "watch" => slot[c].swap \in Swap
    BY <2>1 DEF DriveShape
  <2>4. QED
    BY <1>0, <1>2, <2>1, <2>2, <2>3 DEF LateTyped
<1>3. QED
  <2>1. CASE Poll \/ Bury \/ UNCHANGED vars \/ LockTimeout \/ Reverse \/ ReverseFails \/ Restart
             \/ CompleteDelivery
    BY <1>1, <2>1 DEF Poll, Bury, vars, LockTimeout, Reverse, ReverseFails, Restart,
                      CompleteDelivery
  <2>2. CASE \E s \in Swap : \/ StartDrive(s) \/ StartFails(s)
                             \/ RequestSwapOutOnchain(s) \/ RefundExpiredSwapOut(s)
    BY <1>1, <2>2 DEF StartDrive, StartFails, RequestSwapOutOnchain, RefundExpiredSwapOut
  <2>3. CASE \E i \in DOMAIN splices : SpliceEnds(i) \/ SpliceLocks(i)
    BY <1>1, <2>3 DEF SpliceEnds, SpliceLocks
  <2>4. CASE \E t \in late : CompleteLate(t)
    BY <1>1, <2>4 DEF CompleteLate
  <2>5. CASE \E c \in Chan : WatchExpires(c) \/ Initiate(c) \/ InitiateFails(c)
    BY <1>1, <2>5 DEF WatchExpires, Initiate, InitiateFails
  <2>6. QED
    BY <1>2, <2>1, <2>2, <2>3, <2>4, <2>5 DEF Next, Drive, Tasks, Chains

\* The record of a request only moves from none to pending and from pending to
\* settled, and blocks only bury what is settled.
EvmMoves ==
    /\ evm' \in [Swap -> Outcome] /\ buried' \subseteq SettledSwaps'
    /\ \A s \in Swap : /\ evm[s] # "none" => evm'[s] # "none"
                       /\ evm[s] \in Settled => evm'[s] = evm[s]

LEMMA EvmStep ==
    ASSUME TypeOK, DriveShape, [Next]_vars
    PROVE  EvmMoves
<1>0. evm \in [Swap -> Outcome] /\ buried \subseteq SettledSwaps /\ SplicesTyped /\ RestTyped
  BY TypeOKParts DEF TypeOK
<1>1. CASE UNCHANGED evmVars
  BY <1>0, <1>1 DEF EvmMoves, evmVars, SettledSwaps
<1>2. CASE Bury
  BY <1>0, <1>2 DEF EvmMoves, Bury, SettledSwaps
<1>3. CASE \E s \in Swap : RequestSwapOutOnchain(s) \/ RefundExpiredSwapOut(s)
  BY <1>0, <1>3 DEF EvmMoves, RequestSwapOutOnchain, RefundExpiredSwapOut, Outcome, Settled,
                      SettledSwaps
<1>4. CASE Reverse
  BY <1>0, <1>4, DriveTypes DEF EvmMoves, Reverse, Outcome, Settled, SettledSwaps
<1>5. ASSUME NEW s \in Swap, evm[s] = "pending", evm' = [evm EXCEPT ![s] = "delivered"],
             UNCHANGED buried
      PROVE  EvmMoves
  BY <1>0, <1>5 DEF EvmMoves, Outcome, Settled, SettledSwaps
<1>6. CASE CompleteDelivery
  <2>1. drv.swap \in Swap /\ drv.splice \in DOMAIN splices /\ UNCHANGED buried
    BY <1>6, DriveTypes DEF CompleteDelivery
  <2>2. \/ CompleteErr(drv.splice) \/ NoLadder(drv.splice)
        \/ Deliver(drv.swap, drv.splice) \/ DeliverReverts(drv.swap, drv.splice)
    BY <1>6 DEF CompleteDelivery
  <2>3. QED
    BY <1>0, <1>1, <1>5, <2>1, <2>2, CompletionEffect DEF evmVars
<1>7. ASSUME NEW t \in late, CompleteLate(t) PROVE EvmMoves
  <2>1. \/ CompleteErr(t.splice) \/ NoLadder(t.splice)
        \/ Deliver(t.swap, t.splice) \/ DeliverReverts(t.swap, t.splice)
    BY <1>7 DEF CompleteLate
  <2>2. UNCHANGED buried
    BY <1>7 DEF CompleteLate
  <2>3. QED
    BY <1>0, <1>1, <1>5, <2>1, <2>2, DriveTypes, CompletionEffect DEF evmVars
<1>8. QED
  <2>1. CASE Poll \/ UNCHANGED vars \/ LockTimeout \/ ReverseFails \/ Restart \/ Resolve
    BY <1>1, <2>1 DEF Poll, vars, LockTimeout, ReverseFails, Restart, Resolve
  <2>2. CASE \E s \in Swap : StartDrive(s) \/ StartFails(s)
    BY <1>1, <2>2 DEF StartDrive, StartFails
  <2>3. CASE \E i \in DOMAIN splices : SpliceEnds(i) \/ SpliceLocks(i)
    BY <1>1, <2>3 DEF SpliceEnds, SpliceLocks
  <2>4. CASE \E c \in Chan : WatchExpires(c) \/ Initiate(c) \/ InitiateFails(c)
    BY <1>1, <2>4 DEF WatchExpires, Initiate, InitiateFails
  <2>5. QED
    BY <1>2, <1>3, <1>4, <1>6, <1>7, <2>1, <2>2, <2>3, <2>4 DEF Next, Drive, Tasks, Chains

\* A lost event is never forgotten, a missing ladder only by a restart.
HistoryGrows ==
    /\ faults' \in 0..MaxFaults
    /\ dormant' \subseteq Swap /\ cut' \subseteq Chan /\ cut \subseteq cut'
    /\ dormant \subseteq dormant' \/ Restart

LEMMA HistoryStep ==
    ASSUME TypeOK, DriveShape, [Next]_vars
    PROVE  HistoryGrows
<1>0. faults \in 0..MaxFaults /\ dormant \subseteq Swap /\ cut \subseteq Chan
  BY DEF TypeOK
<1>1. CASE UNCHANGED <<faults, history>>
  BY <1>0, <1>1 DEF HistoryGrows, history
<1>2. Fault \/ UNCHANGED faults => faults' \in 0..MaxFaults
  BY <1>0, SwapOutAssumption DEF Fault
<1>3. ASSUME NEW s \in Swap, UNCHANGED cut,
             dormant' \in {dormant, dormant \cup {s}}, Fault \/ UNCHANGED faults
      PROVE  HistoryGrows
  BY <1>0, <1>2, <1>3 DEF HistoryGrows
<1>4. CASE LockTimeout
  <2>1. drv.chan \in Chan
    BY <1>4 DEF LockTimeout, DriveShape
  <2>2. QED
    BY <1>0, <1>2, <1>4, <2>1 DEF LockTimeout, HistoryGrows
<1>5. CASE Reverse \/ ReverseFails
  BY <1>3, <1>5, DriveTypes DEF Reverse, ReverseFails, history
<1>6. CASE \E s \in Swap : StartFails(s)
  BY <1>3, <1>6 DEF StartFails, history
<1>8. CASE CompleteDelivery
  <2>1. drv.swap \in Swap /\ UNCHANGED cut
    BY <1>8, DriveTypes DEF CompleteDelivery
  <2>2. dormant' \in {dormant, dormant \cup {drv.swap}} /\ (Fault \/ UNCHANGED faults)
    BY <1>8 DEF CompleteDelivery, CompleteErr, NoLadder, Deliver, DeliverReverts
  <2>3. QED
    BY <1>3, <2>1, <2>2
<1>9. ASSUME NEW t \in late, CompleteLate(t) PROVE HistoryGrows
  <2>1. t.swap \in Swap /\ UNCHANGED <<dormant, cut>> /\ (Fault \/ UNCHANGED faults)
    BY <1>9, DriveTypes
       DEF CompleteLate, CompleteErr, NoLadder, Deliver, DeliverReverts, history
  <2>2. QED
    BY <1>3, <2>1
<1>10. CASE Restart
  BY <1>0, <1>2, <1>10 DEF Restart, HistoryGrows
<1>11. QED
  <2>1. CASE Poll \/ UNCHANGED vars \/ Resolve \/ Bury
    BY <1>1, <2>1 DEF Poll, vars, Resolve, Bury
  <2>2. CASE \E s \in Swap : StartDrive(s) \/ RequestSwapOutOnchain(s) \/ RefundExpiredSwapOut(s)
    BY <1>1, <2>2 DEF StartDrive, RequestSwapOutOnchain, RefundExpiredSwapOut
  <2>3. CASE \E i \in DOMAIN splices : SpliceEnds(i) \/ SpliceLocks(i)
    BY <1>1, <2>3 DEF SpliceEnds, SpliceLocks
  <2>4. CASE \E c \in Chan : WatchExpires(c) \/ Initiate(c) \/ InitiateFails(c)
    BY <1>1, <2>4 DEF WatchExpires, Initiate, InitiateFails
  <2>5. QED
    BY <1>4, <1>5, <1>6, <1>8, <1>9, <1>10, <2>1, <2>2, <2>3, <2>4 DEF Next, Drive, Tasks, Chains

-----------------------------------------------------------------------------
(* The pass: no request is given up. *)

\* What a step may do to the pass: a request leaves it, handled when the chain
\* settled it or no ladder was found, or it begins or is forgotten as a whole.
PassMoves ==
    \/ UNCHANGED <<todo, handled>>
    \/ todo' = Requested \ handled /\ UNCHANGED <<handled, evm>>
    \/ todo' = {} /\ handled' = {}
    \/ \E s \in todo : todo' = todo \ {s} /\ UNCHANGED handled
    \/ \E s \in todo : /\ todo' = todo \ {s} /\ handled' = handled \cup {s}
                       /\ evm'[s] \in Settled \/ s \in dormant'

LEMMA PassStep ==
    ASSUME TypeOK, DriveShape, PassShape, [Next]_vars
    PROVE  PassMoves
<1>0. /\ evm \in [Swap -> Outcome] /\ todo \subseteq Swap /\ SplicesTyped /\ RestTyped
      /\ drv.pc # "idle" => drv.swap \in todo
  BY TypeOKParts DEF TypeOK, DriveShape
<1>1. CASE UNCHANGED <<todo, handled>>
  BY <1>1 DEF PassMoves
<1>2. CASE LockTimeout \/ ReverseFails
  BY <1>0, <1>2 DEF LockTimeout, ReverseFails, ReturnErr, PassMoves
<1>3. CASE Reverse
  <2>1. drv.swap \in todo /\ drv.swap \in Swap /\ evm[drv.swap] # "none"
    BY <1>0, <1>3 DEF Reverse, PassShape
  <2>2. evm'[drv.swap] \in Settled
    BY <1>0, <1>3, <2>1 DEF Reverse, Outcome, Settled
  <2>3. CASE ReturnOk
    BY <2>1, <2>2, <2>3 DEF ReturnOk, PassMoves
  <2>4. CASE ReturnErr
    BY <2>1, <2>4 DEF ReturnErr, PassMoves
  <2>5. QED
    BY <1>3, <2>3, <2>4 DEF Reverse
<1>4. CASE CompleteDelivery
  <2>1. drv.swap \in todo /\ drv.swap \in Swap
    BY <1>0, <1>4 DEF CompleteDelivery
  <2>2. CASE ReturnErr
    BY <2>1, <2>2 DEF ReturnErr, PassMoves
  <2>3. CASE ReturnOk /\ (evm'[drv.swap] \in Settled \/ drv.swap \in dormant')
    BY <2>1, <2>3 DEF ReturnOk, PassMoves
  <2>5. Deliver(drv.swap, drv.splice) => evm'[drv.swap] \in Settled
    BY <1>0, <2>1 DEF Deliver, Settled
  <2>6. DeliverReverts(drv.swap, drv.splice) /\ SwapOutResolved(drv.swap) =>
            evm'[drv.swap] \in Settled
    BY <1>0, <2>1 DEF DeliverReverts, SwapOutResolved, RestTyped, SettledSwaps
  <2>7. QED
    BY <1>4, <2>1, <2>2, <2>3, <2>5, <2>6 DEF CompleteDelivery
<1>5. ASSUME NEW s \in Swap, StartDrive(s) PROVE PassMoves
  <2>1. s \in todo
    BY <1>5 DEF StartDrive, IsNext
  <2>2. CASE SwapOutResolved(s)
    <3>1. todo' = todo \ {s} /\ handled' = handled \cup {s} /\ UNCHANGED evm
      BY <1>5, <2>2 DEF StartDrive, evmVars
    <3>2. evm[s] \in Settled
      BY <1>0, <2>2 DEF SwapOutResolved, RestTyped, SettledSwaps
    <3>3. QED
      BY <2>1, <3>1, <3>2 DEF PassMoves
  <2>3. CASE ~SwapOutResolved(s)
    BY <1>1, <1>5, <2>3 DEF StartDrive
  <2>4. QED
    BY <2>2, <2>3
<1>6. CASE \E s \in Swap : StartFails(s)
  BY <1>6 DEF StartFails, IsNext, PassMoves
<1>7. CASE Poll
  BY <1>7 DEF Poll, PassMoves, evmVars
<1>8. CASE Restart
  BY <1>8 DEF Restart, PassMoves
<1>9. QED
  <2>1. CASE UNCHANGED vars \/ Resolve \/ Bury
    BY <1>1, <2>1 DEF vars, Resolve, Bury
  <2>2. CASE \E s \in Swap : RequestSwapOutOnchain(s) \/ RefundExpiredSwapOut(s)
    BY <1>1, <2>2 DEF RequestSwapOutOnchain, RefundExpiredSwapOut
  <2>3. CASE \E i \in DOMAIN splices : SpliceEnds(i) \/ SpliceLocks(i)
    BY <1>1, <2>3 DEF SpliceEnds, SpliceLocks
  <2>4. CASE \E c \in Chan : WatchExpires(c) \/ Initiate(c) \/ InitiateFails(c)
    BY <1>1, <2>4 DEF WatchExpires, Initiate, InitiateFails
  <2>5. CASE \E t \in late : CompleteLate(t)
    BY <1>1, <2>5 DEF CompleteLate
  <2>6. QED
    BY <1>2, <1>3, <1>4, <1>5, <1>6, <1>7, <1>8, <2>1, <2>2, <2>3, <2>4, <2>5
       DEF Next, Drive, Tasks, Chains

LEMMA PassKept ==
    ASSUME TypeOK, DriveShape, PassShape, HandledIsSettled, [Next]_vars
    PROVE  RestTyped' /\ PassShape' /\ HandledIsSettled'
<1>0. EvmMoves /\ HistoryGrows /\ PassMoves /\ RestTyped
  BY EvmStep, HistoryStep, PassStep, TypeOKParts
<1>1. RestTyped'
  BY <1>0 DEF RestTyped, EvmMoves, HistoryGrows, PassMoves, Requested
<1>2. PassShape'
  BY <1>0 DEF PassShape, EvmMoves, PassMoves, RestTyped, Requested
<1>3. HandledIsSettled'
  <2>1. CASE Restart
    BY <2>1 DEF Restart, HandledIsSettled
  <2>2. CASE ~Restart
    BY <1>0, <2>2 DEF HandledIsSettled, EvmMoves, HistoryGrows, PassMoves, RestTyped
  <2>3. QED
    BY <2>1, <2>2
<1>4. QED
  BY <1>1, <1>2, <1>3

-----------------------------------------------------------------------------
(* The drive and its channel. *)

LEMMA DriveKept ==
    ASSUME TypeOK, DriveShape, EventsOnce, [Next]_vars
    PROVE  DriveShape'
<1>0. /\ SplicesTyped /\ DrvTyped /\ SlotTyped /\ SplicesKept /\ EventsTyped
      /\ drv.pc \in {"idle", "pick", "wait", "complete"}
  BY TypeOKParts, SplicesAreKept DEF TypeOK, EventsOnce, EventsTyped
<1>1. CASE UNCHANGED <<drv, slot, todo, splices>>
  BY <1>1 DEF DriveShape
<1>2. CASE Restart
  BY <1>2, DrvIdles DEF Restart, DriveShape, DrvBecomes, Free
<1>3. CASE Poll
  BY <1>3 DEF Poll, DriveShape, Idle, btcVars
<1>4. ASSUME drv' = Idle, drv.pc # "wait", UNCHANGED slot PROVE DriveShape'
  <2>1. \A c \in Chan : slot'[c].by # "drive" /\ (slot'[c].by # "none" => slot'[c].swap \in Swap)
    BY <1>4 DEF DriveShape
  <2>2. QED
    BY <1>4, <2>1, DrvIdles DEF DriveShape, DrvBecomes
<1>5. CASE LockTimeout
  <2>1. /\ drv' = Idle /\ drv.pc = "wait" /\ drv.chan \in Chan
        /\ slot' = [slot EXCEPT ![drv.chan].by = "watch"]
    BY <1>5 DEF LockTimeout, ReturnErr, DriveShape
  <2>2. \A c \in Chan : slot'[c].by # "drive" /\ (slot'[c].by # "none" => slot'[c].swap \in Swap)
    BY <1>0, <2>1 DEF DriveShape, SlotTyped
  <2>3. QED
    BY <2>1, <2>2, DrvIdles DEF DriveShape, DrvBecomes
<1>6. CASE Reverse \/ ReverseFails \/ CompleteDelivery
  <2>1. drv' = Idle /\ drv.pc # "wait" /\ UNCHANGED slot
    BY <1>6 DEF Reverse, ReverseFails, CompleteDelivery, ReturnOk, ReturnErr
  <2>2. QED
    BY <1>4, <2>1
<1>7. ASSUME NEW s \in Swap, StartDrive(s) PROVE DriveShape'
  <2>1. drv = Idle /\ s \in todo /\ UNCHANGED <<slot, splices>>
    BY <1>7 DEF StartDrive, IsNext, btcVars
  <2>2. \A c \in Chan : slot[c].by # "drive"
    BY <2>1 DEF DriveShape, Idle
  <2>3. CASE SwapOutResolved(s)
    BY <1>7, <2>1, <2>2, <2>3, DrvIdles DEF StartDrive, DriveShape, DrvBecomes
  <2>4. CASE ~SwapOutResolved(s)
    <3>1. UNCHANGED todo /\ \E C \in SUBSET Chan : DrvBecomes("pick", s, C, NoChan, {}, 0)
      BY <1>7, <2>4, StartFacts DEF StartDrive
    <3>2. QED
      BY <2>1, <2>2, <3>1 DEF DriveShape, DrvBecomes
  <2>5. QED
    BY <2>3, <2>4
<1>8. CASE \E s \in Swap : StartFails(s)
  BY <1>8 DEF StartFails, DriveShape, Idle, btcVars
<1>9. ASSUME NEW c \in Chan, Initiate(c) PROVE DriveShape'
  <2>1. /\ drv'.pc = "wait" /\ drv'.swap = drv.swap /\ drv'.chan = c /\ drv'.splice = 0
        /\ drv.pc = "pick" /\ UNCHANGED todo /\ drv.swap \in todo /\ drv.swap \in Swap
    BY <1>0, <1>9, DriveTypes DEF Initiate, DriveShape, DrvTyped
  <2>2. /\ \A d \in Chan : /\ slot'[d].by = "drive" => d = c
                           /\ slot'[d].by # "none" => slot'[d].swap \in Swap
        /\ slot'[c].by = "drive"
    BY <1>0, <1>9, <2>1 DEF Initiate, DriveShape, SlotTyped
  <2>3. QED
    BY <2>1, <2>2 DEF DriveShape
<1>10. ASSUME NEW c \in Chan, InitiateFails(c) PROVE DriveShape'
  <2>1. /\ DrvBecomes(drv.pc, drv.swap, drv.cands \ {c}, drv.chan, drv.own, drv.splice)
        /\ drv.pc = "pick" /\ UNCHANGED <<todo, splices>>
    BY <1>0, <1>10, InitiateFailsFacts DEF InitiateFails, btcVars
  <2>2. \A d \in Chan : slot'[d].by # "drive" /\ (slot'[d].by # "none" => slot'[d].swap \in Swap)
    BY <1>0, <1>10 DEF InitiateFails, DriveShape, SlotTyped, Free
  <2>3. QED
    BY <2>1, <2>2 DEF DriveShape, DrvBecomes
<1>11. ASSUME NEW c \in Chan, WatchExpires(c) PROVE DriveShape'
  BY <1>0, <1>11 DEF WatchExpires, DriveShape, SlotTyped, Free, btcVars
<1>12. CASE Resolve
  <2> DEFINE i == Head(events)
             c == splices[i].chan
  <2>1. /\ i \in DOMAIN splices /\ c \in Chan /\ UNCHANGED <<splices, todo>> /\ Hand(i, c)
        /\ splices[i].st # "flight"
    BY <1>0, <1>12, HeadOfEvents DEF Resolve, EventsOnce
  <2> HIDE DEF i, c
  <2>2. \A d \in Chan : slot'[d] = IF d = c THEN Free ELSE slot[d]
    BY <1>0, <2>1 DEF Hand, SlotTyped
  <2>3. CASE slot[c].by = "drive"
    <3>1. DrvBecomes("complete", drv.swap, drv.cands, NoChan, drv.own, i) /\ drv.pc = "wait"
      BY <1>0, <2>1, <2>3, HandFacts DEF Hand, DriveShape
    <3>2. \A d \in Chan : slot'[d].by # "drive" /\ (slot'[d].by # "none" => slot'[d].swap \in Swap)
      BY <2>1, <2>2, <2>3 DEF DriveShape, Free
    <3>3. QED
      BY <2>1, <3>1, <3>2 DEF DriveShape, DrvBecomes
  <2>4. CASE slot[c].by # "drive"
    <3>1. UNCHANGED drv
      BY <2>1, <2>4 DEF Hand
    <3>2. QED
      BY <2>1, <2>2, <2>4, <3>1 DEF DriveShape, Free
  <2>5. QED
    BY <2>3, <2>4
<1>13. ASSUME UNCHANGED <<drv, slot, todo>> PROVE DriveShape'
  BY <1>0, <1>13 DEF DriveShape, SplicesKept
<1>14. CASE \E i \in DOMAIN splices : SpliceEnds(i) \/ SpliceLocks(i)
  BY <1>13, <1>14 DEF SpliceEnds, SpliceLocks
<1>15. CASE \E t \in late : CompleteLate(t)
  BY <1>13, <1>15 DEF CompleteLate
<1>16. QED
  <2>1. CASE UNCHANGED vars \/ Bury
    BY <1>1, <2>1 DEF vars, Bury, btcVars
  <2>2. CASE \E s \in Swap : RequestSwapOutOnchain(s) \/ RefundExpiredSwapOut(s)
    BY <1>1, <2>2 DEF RequestSwapOutOnchain, RefundExpiredSwapOut, btcVars
  <2>3. QED
    BY <1>2, <1>3, <1>5, <1>6, <1>7, <1>8, <1>9, <1>10, <1>11, <1>12, <1>14, <1>15, <2>1, <2>2
       DEF Next, Drive, Tasks, Chains

\* A visit initiates one splice at most.
LEMMA OwnKept ==
    ASSUME TypeOK, DriveShape, EventsTyped, OwnShape, [Next]_vars
    PROVE  OwnShape'
<1>0. DrvTyped /\ SplicesTyped
  BY TypeOKParts
<1>1. CASE UNCHANGED drv
  BY <1>1 DEF OwnShape
<1>2. CASE drv' = Idle
  BY <1>2, DrvIdles DEF OwnShape, DrvBecomes
<1>3. CASE Resolve
  <2>1. CASE UNCHANGED drv
    BY <1>1, <2>1
  <2>2. CASE drv' # drv
    <3>1. PICK i : /\ slot[splices[i].chan].by = "drive"
                   /\ drv' = [drv EXCEPT !.pc = "complete", !.chan = NoChan, !.splice = i]
      BY <1>3, <2>2 DEF Resolve, Hand
    <3>2. drv'.pc = "complete" /\ drv'.own = drv.own
      BY <1>0, <3>1 DEF DrvTyped
    <3>3. Head(events) \in DOMAIN splices /\ slot[splices[Head(events)].chan].by = "drive"
      BY <1>0, <1>3, <2>2, HeadOfEvents DEF Resolve, Hand
    <3>4. drv.pc = "wait"
      BY <1>0, <3>3, SpliceFields DEF DriveShape
    <3>5. QED
      BY <3>2, <3>4 DEF OwnShape
  <2>3. QED
    BY <2>1, <2>2
<1>4. CASE \E s \in Swap : StartDrive(s)
  BY <1>1, <1>4, StartFacts DEF StartDrive, OwnShape, DrvBecomes
<1>5. CASE \E c \in Chan : Initiate(c)
  <2>1. Len(splices) + 1 \in 1..MaxSplices
    BY <1>0, <1>5, SpliceFields, SwapOutAssumption DEF Initiate
  <2>2. drv.own = {} /\ drv'.pc = "wait" /\ drv'.own = drv.own \cup {Len(splices) + 1}
    BY <1>0, <1>5 DEF Initiate, OwnShape, DrvTyped
  <2>3. QED
    BY <2>1, <2>2 DEF OwnShape
<1>6. CASE \E c \in Chan : InitiateFails(c)
  <2>1. drv'.pc = drv.pc /\ drv'.own = drv.own
    BY <1>0, <1>6 DEF InitiateFails, DrvTyped
  <2>2. QED
    BY <2>1 DEF OwnShape
<1>7. QED
  <2>1. CASE Poll \/ Bury \/ UNCHANGED vars
    BY <1>1, <2>1 DEF Poll, Bury, vars
  <2>2. CASE LockTimeout \/ Reverse \/ ReverseFails \/ Restart \/ CompleteDelivery
    BY <1>2, <2>2 DEF LockTimeout, Reverse, ReverseFails, Restart, CompleteDelivery,
                      ReturnOk, ReturnErr
  <2>3. CASE \E s \in Swap : \/ StartFails(s)
                             \/ RequestSwapOutOnchain(s) \/ RefundExpiredSwapOut(s)
    BY <1>1, <2>3 DEF StartFails, RequestSwapOutOnchain, RefundExpiredSwapOut
  <2>4. CASE \E i \in DOMAIN splices : SpliceEnds(i) \/ SpliceLocks(i)
    BY <1>1, <2>4 DEF SpliceEnds, SpliceLocks
  <2>5. CASE \E t \in late : CompleteLate(t)
    BY <1>1, <2>5 DEF CompleteLate
  <2>6. CASE \E c \in Chan : WatchExpires(c)
    BY <1>1, <2>6 DEF WatchExpires
  <2>7. QED
    BY <1>3, <1>4, <1>5, <1>6, <2>1, <2>2, <2>3, <2>4, <2>5, <2>6 DEF Next, Drive, Tasks, Chains

-----------------------------------------------------------------------------
(* Events, and the splices they are about. *)

\* What a step may do to the stream: one event is queued, read, or all are lost.
LEMMA EventsStep ==
    ASSUME TypeOK, DriveShape, [Next]_vars
    PROVE  \/ UNCHANGED events
           \/ events' = <<>> /\ Restart
           \/ Resolve
           \/ \E i \in DOMAIN splices : /\ splices[i].st = "flight" /\ SetState(i, "sent")
                                        /\ events' = Append(events, i)
<1>0. SplicesTyped
  BY TypeOKParts
<1>1. CASE \E i \in DOMAIN splices : SpliceEnds(i) \/ SpliceLocks(i)
  BY <1>0, <1>1, StateIsSet DEF SpliceEnds, SpliceLocks, State
<1>2. CASE Poll \/ LockTimeout \/ Reverse \/ ReverseFails \/ CompleteDelivery \/ Bury \/ UNCHANGED vars
  BY <1>2 DEF Poll, LockTimeout, Reverse, ReverseFails, CompleteDelivery, Bury, vars, btcVars
<1>3. CASE \E s \in Swap : \/ StartDrive(s) \/ StartFails(s)
                           \/ RequestSwapOutOnchain(s) \/ RefundExpiredSwapOut(s)
  BY <1>3 DEF StartDrive, StartFails, RequestSwapOutOnchain, RefundExpiredSwapOut, btcVars
<1>4. CASE \E c \in Chan : Initiate(c) \/ InitiateFails(c) \/ WatchExpires(c)
  BY <1>4 DEF Initiate, InitiateFails, WatchExpires, btcVars
<1>5. CASE \E t \in late : CompleteLate(t)
  BY <1>5 DEF CompleteLate
<1>6. CASE Restart
  BY <1>6 DEF Restart
<1>7. QED
  BY <1>1, <1>2, <1>3, <1>4, <1>5, <1>6 DEF Next, Drive, Tasks, Chains

LEMMA FlightKept ==
    ASSUME TypeOK, DriveShape, FlightUncredited, [Next]_vars
    PROVE  FlightUncredited'
<1>1. CASE UNCHANGED splices
  BY <1>1 DEF FlightUncredited
<1>2. ASSUME NEW i, NEW st, st # "flight", SetState(i, st) PROVE FlightUncredited'
  BY <1>2 DEF FlightUncredited, SetState
<1>3. ASSUME NEW i, NEW s, splices[i].st = "locked", SetCredit(i, s) PROVE FlightUncredited'
  BY <1>3 DEF FlightUncredited, SetCredit
<1>4. ASSUME NEW c, AddSplice(drv.swap, c) PROVE FlightUncredited'
  BY <1>4 DEF FlightUncredited, AddSplice
<1>5. ASSUME NEW i, DropSplice(i) PROVE FlightUncredited'
  BY <1>5 DEF FlightUncredited, DropSplice
<1>6. QED
  BY <1>1, <1>2, <1>3, <1>4, <1>5, SplicesStep

LEMMA AppendedEvent ==
    ASSUME EventsTyped, NEW i \in DOMAIN splices
    PROVE  /\ Append(events, i) \in Seq(DOMAIN splices)
           /\ DOMAIN Append(events, i) = DOMAIN events \cup {Len(events) + 1}
           /\ Len(events) + 1 \notin DOMAIN events
           /\ \A k \in DOMAIN events : Append(events, i)[k] = events[k]
           /\ Append(events, i)[Len(events) + 1] = i
<1>1. Len(events) \in Nat /\ DOMAIN events = 1..Len(events)
  BY LenProperties DEF EventsTyped
<1>2. /\ Append(events, i) \in Seq(DOMAIN splices) /\ Len(Append(events, i)) = Len(events) + 1
      /\ \A k \in 1..Len(events) : Append(events, i)[k] = events[k]
      /\ Append(events, i)[Len(events) + 1] = i
  BY AppendProperties DEF EventsTyped
<1>3. DOMAIN Append(events, i) = 1..(Len(events) + 1)
  BY <1>1, <1>2, LenProperties
<1>4. QED
  BY <1>1, <1>2, <1>3

LEMMA EventsKept ==
    ASSUME TypeOK, DriveShape, EventsOnce, [Next]_vars
    PROVE  /\ EventsOnce'
           /\ \A i \in DOMAIN splices :
                 (\E k \in DOMAIN events' : events'[k] = i) =>
                    splices[i].st = "flight" \/ \E k \in DOMAIN events : events[k] = i
<1>0. SplicesTyped /\ EventsTyped /\ SplicesKept
  BY TypeOKParts, SplicesAreKept DEF EventsOnce, EventsTyped
<1>1. \A k \in DOMAIN events : events[k] \in DOMAIN splices
  BY DEF TypeOK
<1>3. CASE UNCHANGED events
  <2>1. \A k \in DOMAIN events : events[k] \in DOMAIN splices' /\ splices'[events[k]].st # "flight"
    BY <1>0, <1>1 DEF EventsOnce, SplicesKept
  <2>2. Len(events) \in Nat /\ events \in [1..Len(events) -> DOMAIN splices]
    BY <1>0, LenProperties DEF EventsTyped
  <2>3. events \in Seq(DOMAIN splices')
    BY <2>1, <2>2, SeqDef
  <2>4. QED
    BY <1>3, <2>1, <2>3 DEF EventsOnce
<1>4. CASE events' = <<>>
  <2>1. DOMAIN events' = {} /\ events' \in Seq(DOMAIN splices')
    BY <1>4, EmptySeq
  <2>2. QED
    BY <2>1 DEF EventsOnce
<1>5. CASE Resolve
  <2>1. events # <<>> /\ events' = Tail(events) /\ UNCHANGED splices
    BY <1>5 DEF Resolve
  <2>2. /\ events' \in Seq(DOMAIN splices)
        /\ \A k \in DOMAIN events' : k + 1 \in DOMAIN events /\ events'[k] = events[k + 1]
        /\ DOMAIN events' \subseteq Nat
    BY <1>0, <2>1, HeadOfEvents
  <2>3. \A k, l \in DOMAIN events' : events'[k] = events'[l] => k = l
    <3>1. SUFFICES ASSUME NEW k \in DOMAIN events', NEW l \in DOMAIN events', events'[k] = events'[l]
                   PROVE  k = l
      OBVIOUS
    <3>2. k + 1 = l + 1
      BY <2>2, <3>1 DEF EventsOnce
    <3>3. QED
      BY <2>2, <3>2
  <2>4. QED
    BY <1>1, <2>1, <2>2, <2>3 DEF EventsOnce
<1>6. ASSUME NEW i \in DOMAIN splices, splices[i].st = "flight", SetState(i, "sent"),
             events' = Append(events, i)
      PROVE  /\ EventsOnce'
             /\ \A j \in DOMAIN splices :
                   (\E k \in DOMAIN events' : events'[k] = j) =>
                      splices[j].st = "flight" \/ \E k \in DOMAIN events : events[k] = j
  <2> DEFINE n == Len(events) + 1
  <2>1. /\ events' \in Seq(DOMAIN splices') /\ DOMAIN events' = DOMAIN events \cup {n}
        /\ n \notin DOMAIN events /\ events'[n] = i
        /\ \A k \in DOMAIN events : events'[k] = events[k]
    BY <1>0, <1>6, AppendedEvent DEF SetState
  <2>2. \A k \in DOMAIN events : events[k] # i
    BY <1>6 DEF EventsOnce
  <2> HIDE DEF n
  <2>3. \A k \in DOMAIN events' : events'[k] \in DOMAIN splices /\ splices'[events'[k]].st # "flight"
    <3>1. splices'[i].st = "sent" /\ \A j \in DOMAIN splices : j # i => splices'[j].st = splices[j].st
      BY <1>6 DEF SetState
    <3>2. \A k \in DOMAIN events : splices[events[k]].st # "flight"
      BY DEF EventsOnce
    <3>3. QED
      BY <1>1, <2>1, <2>2, <3>1, <3>2
  <2>4. \A k, l \in DOMAIN events' : events'[k] = events'[l] => k = l
    BY <2>1, <2>2 DEF EventsOnce
  <2>5. QED
    BY <1>6, <2>1, <2>3, <2>4 DEF EventsOnce
<1>7. QED
  BY <1>3, <1>4, <1>5, <1>6, EventsStep

-----------------------------------------------------------------------------
(* A splice is credited to its own swap. *)

\* The event at the head: on a channel that lost none the drive waits for it.
LEMMA ReadEventIsOwn ==
    ASSUME TypeOK, DriveShape, EventsOnce, UncutIsOwn, Resolve,
           splices[Head(events)].chan \notin cut
    PROVE  /\ drv.pc = "wait" /\ drv.own = {Head(events)}
           /\ splices[Head(events)].swap = drv.swap
<1>1. Head(events) \in DOMAIN splices /\ Unheard(Head(events))
  BY TypeOKParts, HeadOfEvents DEF Resolve, EventsOnce, EventsTyped, Unheard
<1>2. QED
  BY <1>1 DEF UncutIsOwn

LEMMA UnheardStays ==
    ASSUME TypeOK, DriveShape, EventsOnce, [Next]_vars, NEW i \in DOMAIN splices,
           i \in DOMAIN splices', Unheard(i)'
    PROVE  Unheard(i) /\ ~(Resolve /\ i = Head(events))
<1>1. Unheard(i)
  BY EventsKept, SplicesAreKept DEF Unheard, SplicesKept
<1>2. ASSUME Resolve, i = Head(events) PROVE FALSE
  <2>0. SplicesTyped /\ EventsTyped
    BY TypeOKParts DEF EventsOnce, EventsTyped
  <2>1. 1 \in DOMAIN events /\ events[1] = i /\ events' = Tail(events) /\ UNCHANGED splices
    BY <1>2, <2>0, HeadOfEvents DEF Resolve
  <2>2. splices[i].st # "flight"
    BY <2>1 DEF EventsOnce
  <2>3. PICK k \in DOMAIN Tail(events) : Tail(events)[k] = i
    BY <2>1, <2>2 DEF Unheard
  <2>4. k + 1 \in DOMAIN events /\ events[k + 1] = i /\ k \in Nat /\ k + 1 # 1
    <3>1. k + 1 \in DOMAIN events /\ events[k + 1] = i /\ k \in Nat
      BY <1>2, <2>0, <2>3, HeadOfEvents DEF Resolve
    <3>2. k # 0
      BY <2>0, <2>3, <1>2, HeadOfEvents, LenProperties DEF Resolve
    <3>3. QED
      BY <3>1, <3>2
  <2>5. QED
    BY <2>1, <2>4 DEF EventsOnce
<1>3. QED
  BY <1>1, <1>2

\* The drive stops waiting by its event, by its timeout, or by a restart.
LEMMA WaitEnds ==
    ASSUME TypeOK, DriveShape, [Next]_vars, drv.pc = "wait"
    PROVE  \/ UNCHANGED drv
           \/ LockTimeout \/ Restart
           \/ Resolve /\ slot[splices[Head(events)].chan].by = "drive"
<1>1. drv # Idle
  BY DEF Idle
<1>3. CASE Resolve
  BY <1>3 DEF Resolve, Hand
<1>4. CASE Poll \/ Reverse \/ ReverseFails \/ CompleteDelivery \/ Bury \/ UNCHANGED vars
  BY <1>1, <1>4 DEF Poll, Reverse, ReverseFails, CompleteDelivery, Bury, vars
<1>5. CASE \E s \in Swap : \/ StartDrive(s) \/ StartFails(s)
                           \/ RequestSwapOutOnchain(s) \/ RefundExpiredSwapOut(s)
  BY <1>1, <1>5 DEF StartDrive, StartFails, RequestSwapOutOnchain, RefundExpiredSwapOut
<1>6. CASE \E c \in Chan : Initiate(c) \/ InitiateFails(c) \/ WatchExpires(c)
  BY <1>1, <1>6 DEF Initiate, InitiateFails, WatchExpires
<1>7. CASE \E i \in DOMAIN splices : SpliceEnds(i) \/ SpliceLocks(i)
  BY <1>1, <1>7 DEF SpliceEnds, SpliceLocks
<1>8. CASE \E t \in late : CompleteLate(t)
  BY <1>1, <1>8 DEF CompleteLate
<1>9. QED
  BY <1>3, <1>4, <1>5, <1>6, <1>7, <1>8 DEF Next, Drive, Tasks, Chains

\* A completion begins with an event.
LEMMA CompletionBegins ==
    ASSUME TypeOK, DriveShape, [Next]_vars, drv'.pc = "complete"
    PROVE  drv' = drv \/ (Resolve /\ slot[splices[Head(events)].chan].by = "drive")
<1>0. DrvTyped
  BY TypeOKParts
<1>1. drv' # Idle
  BY DEF Idle
<1>2. CASE Poll \/ Reverse \/ ReverseFails \/ LockTimeout \/ Restart \/ CompleteDelivery \/ Bury
           \/ UNCHANGED vars
  BY <1>1, <1>2 DEF Poll, Reverse, ReverseFails, LockTimeout, Restart, CompleteDelivery, Bury, vars,
                    ReturnOk, ReturnErr
<1>3. CASE \E s \in Swap : StartDrive(s)
  BY <1>3 DEF StartDrive, Idle
<1>4. CASE \E s \in Swap : StartFails(s) \/ RequestSwapOutOnchain(s) \/ RefundExpiredSwapOut(s)
  BY <1>4 DEF StartFails, RequestSwapOutOnchain, RefundExpiredSwapOut
<1>5. CASE \E c \in Chan : Initiate(c) \/ InitiateFails(c)
  BY <1>0, <1>5 DEF Initiate, InitiateFails, DrvTyped
<1>6. CASE \E c \in Chan : WatchExpires(c)
  BY <1>6 DEF WatchExpires
<1>7. CASE \E i \in DOMAIN splices : SpliceEnds(i) \/ SpliceLocks(i)
  BY <1>7 DEF SpliceEnds, SpliceLocks
<1>8. CASE \E t \in late : CompleteLate(t)
  BY <1>8 DEF CompleteLate
<1>9. CASE Resolve
  BY <1>9 DEF Resolve, Hand
<1>10. QED
  BY <1>2, <1>3, <1>4, <1>5, <1>6, <1>7, <1>8, <1>9 DEF Next, Drive, Tasks, Chains

\* A channel is watched only after a timeout.
LEMMA WatchStep ==
    ASSUME TypeOK, DriveShape, EventsTyped, [Next]_vars, NEW c \in Chan, slot'[c].by = "watch"
    PROVE  slot[c].by = "watch" \/ c \in cut'
<1>0. SlotTyped /\ SplicesTyped
  BY TypeOKParts
<1>1. ASSUME NEW d \in Chan, slot' \in {slot, [slot EXCEPT ![d] = Free]} PROVE slot[c].by = "watch"
  BY <1>0, <1>1 DEF SlotTyped, Free
<1>2. CASE UNCHANGED slot
  BY <1>2
<1>3. CASE Resolve
  BY <1>0, <1>1, <1>3, HeadOfEvents DEF Resolve, Hand
<1>4. CASE LockTimeout
  BY <1>0, <1>4 DEF LockTimeout, SlotTyped, DriveShape
<1>5. CASE \E d \in Chan : Initiate(d)
  BY <1>0, <1>5 DEF Initiate, SlotTyped
<1>6. CASE Restart
  BY <1>6 DEF Restart, Free
<1>7. CASE \E d \in Chan : InitiateFails(d) \/ WatchExpires(d)
  BY <1>1, <1>7 DEF InitiateFails, WatchExpires
<1>8. QED
  <2>1. CASE Poll \/ Reverse \/ ReverseFails \/ CompleteDelivery \/ Bury \/ UNCHANGED vars
    BY <1>2, <2>1 DEF Poll, Reverse, ReverseFails, CompleteDelivery, Bury, vars
  <2>2. CASE \E s \in Swap : \/ StartDrive(s) \/ StartFails(s)
                             \/ RequestSwapOutOnchain(s) \/ RefundExpiredSwapOut(s)
    BY <1>2, <2>2 DEF StartDrive, StartFails, RequestSwapOutOnchain, RefundExpiredSwapOut
  <2>3. CASE \E i \in DOMAIN splices : SpliceEnds(i) \/ SpliceLocks(i)
    BY <1>2, <2>3 DEF SpliceEnds, SpliceLocks
  <2>4. CASE \E t \in late : CompleteLate(t)
    BY <1>2, <2>4 DEF CompleteLate
  <2>5. QED
    BY <1>3, <1>4, <1>5, <1>6, <1>7, <2>1, <2>2, <2>3, <2>4 DEF Next, Drive, Tasks, Chains

LEMMA UncutKept ==
    ASSUME TypeOK, DriveShape, OwnShape, EventsOnce, UncutIsOwn, [Next]_vars
    PROVE  UncutIsOwn'
<1>0. SplicesTyped /\ EventsTyped /\ DrvTyped /\ LateTyped /\ SplicesKept /\ HistoryGrows
  BY TypeOKParts, SplicesAreKept, HistoryStep DEF EventsOnce, EventsTyped
<1>1. \A i \in DOMAIN splices : splices[i].chan \notin cut /\ Unheard(i) =>
          /\ drv.pc = "wait" /\ drv.own = {i}
          /\ splices[i].chan = drv.chan /\ splices[i].swap = drv.swap
  BY DEF UncutIsOwn
<1>2. ASSUME NEW i \in DOMAIN splices', splices'[i].chan \notin cut', Unheard(i)'
      PROVE  /\ drv'.pc = "wait" /\ drv'.own = {i}
             /\ splices'[i].chan = drv'.chan /\ splices'[i].swap = drv'.swap
  <2>1. CASE i \in DOMAIN splices
    <3>1. /\ splices'[i].chan = splices[i].chan /\ splices'[i].swap = splices[i].swap
          /\ splices[i].chan \notin cut /\ Unheard(i) /\ ~(Resolve /\ i = Head(events))
      BY <1>0, <1>2, <2>1, UnheardStays DEF SplicesKept, HistoryGrows
    <3>2. /\ drv.pc = "wait" /\ drv.own = {i} /\ splices[i].chan = drv.chan
          /\ splices[i].swap = drv.swap
      BY <1>1, <2>1, <3>1
    <3>3. ~LockTimeout
      BY <1>2, <3>1, <3>2 DEF LockTimeout
    <3>4. ~Restart
      <4>1. SUFFICES ASSUME Restart PROVE FALSE
        OBVIOUS
      <4>2. DOMAIN events' = {} /\ UNCHANGED splices
        BY <4>1, EmptySeq DEF Restart
      <4>3. splices[i].st = "flight"
        BY <1>2, <4>2 DEF Unheard
      <4>4. splices[i].chan \in Chan /\ InFlight(splices[i].chan)
        BY <1>0, <2>1, <4>3, SpliceFields DEF InFlight
      <4>5. QED
        BY <1>2, <3>1, <4>1, <4>4 DEF Restart
    \* The event of another splice of the channel is not on its way: the drive
    \* would be waiting for that one.
    <3>5. ASSUME Resolve, slot[splices[Head(events)].chan].by = "drive" PROVE FALSE
      <4> DEFINE h == Head(events)
      <4>1. h \in DOMAIN splices /\ splices[h].chan \in Chan /\ Unheard(h)
        BY <1>0, <3>5, HeadOfEvents DEF Resolve, Unheard
      <4> HIDE DEF h
      <4>2. splices[h].chan = drv.chan
        BY <3>5, <4>1 DEF DriveShape, h
      <4>3. drv.own = {h}
        BY <1>1, <3>1, <3>2, <4>1, <4>2
      <4>4. h = i
        BY <3>2, <4>3
      <4>5. QED
        BY <3>1, <3>5, <4>4 DEF h
    <3>6. UNCHANGED drv
      BY <3>2, <3>3, <3>4, <3>5, WaitEnds
    <3>7. QED
      BY <3>1, <3>2, <3>6
  <2>2. CASE i \notin DOMAIN splices
    <3>1. PICK c \in Chan : Initiate(c) /\ AddSplice(drv.swap, c)
      BY <1>2, <2>2, SplicesStep DEF SetState, SetCredit, DropSplice
    <3>2. /\ i = Len(splices') /\ Len(splices') = Len(splices) + 1
          /\ splices'[i].chan = c /\ splices'[i].swap = drv.swap
      BY <1>2, <2>2, <3>1 DEF AddSplice
    <3>3. /\ drv'.pc = "wait" /\ drv'.chan = c /\ drv'.swap = drv.swap
          /\ drv'.own = drv.own \cup {Len(splices) + 1} /\ drv.pc = "pick"
      BY <1>0, <3>1 DEF Initiate, DrvTyped
    <3>4. drv.own = {}
      BY <3>3 DEF OwnShape
    <3>5. QED
      BY <3>2, <3>3, <3>4
  <2>3. QED
    BY <2>1, <2>2
<1>3. Resolve => /\ Head(events) \in DOMAIN splices /\ UNCHANGED <<splices, cut>>
                 /\ splices[Head(events)].chan \in Chan /\ splices[Head(events)].st # "flight"
                 /\ Hand(Head(events), splices[Head(events)].chan)
  BY <1>0, HeadOfEvents DEF Resolve, history, EventsOnce
<1>4. ASSUME drv'.pc = "complete", splices'[drv'.splice].chan \notin cut'
      PROVE  splices'[drv'.splice].swap = drv'.swap
  <2>1. CASE drv' = drv
    <3>1. drv.splice \in DOMAIN splices /\ drv.splice \in DOMAIN splices' /\ drv.pc = "complete"
      BY <1>0, <1>4, <2>1 DEF DriveShape, SplicesKept
    <3>2. splices[drv.splice].chan \notin cut
      BY <1>0, <1>4, <2>1, <3>1 DEF SplicesKept, HistoryGrows
    <3>3. QED
      BY <1>0, <2>1, <3>1, <3>2 DEF UncutIsOwn, SplicesKept
  <2>2. CASE Resolve /\ slot[splices[Head(events)].chan].by = "drive"
    <3>1. drv'.splice = Head(events) /\ drv'.swap = drv.swap
      BY <1>0, <1>3, <2>2 DEF Hand, DrvTyped
    <3>2. QED
      BY <1>3, <1>4, <2>2, <3>1, ReadEventIsOwn
  <2>3. QED
    BY <1>4, <2>1, <2>2, CompletionBegins
<1>5. ASSUME NEW t \in late'
      PROVE  splices'[t.splice].st # "flight" /\ splices'[t.splice].chan \in cut'
  <2>1. CASE t \in late
    <3>1. t.splice \in DOMAIN splices /\ splices[t.splice].st # "flight"
          /\ splices[t.splice].chan \in cut
      BY <1>0, <2>1 DEF LateTyped, UncutIsOwn
    <3>2. QED
      BY <1>0, <3>1 DEF SplicesKept, HistoryGrows
  <2>2. CASE t \notin late
    <3>1. Resolve
      BY <1>0, <1>5, <2>2, LateStep
    <3>2. t.splice = Head(events) /\ slot[splices[Head(events)].chan].by = "watch"
      BY <1>3, <1>5, <2>2, <3>1 DEF Hand
    <3>3. QED
      BY <1>3, <3>1, <3>2 DEF UncutIsOwn
  <2>3. QED
    BY <2>1, <2>2
<1>6. \A c \in Chan : slot'[c].by = "watch" => c \in cut'
  BY <1>0, WatchStep DEF UncutIsOwn, HistoryGrows
<1>7. QED
  BY <1>2, <1>4, <1>5, <1>6 DEF UncutIsOwn

LEMMA CreditKept ==
    ASSUME TypeOK, DriveShape, UncutIsOwn, CreditedToItsSwap, [Next]_vars
    PROVE  CreditedToItsSwap'
<1>0. SplicesTyped /\ LateTyped /\ SplicesKept /\ HistoryGrows
  BY TypeOKParts, SplicesAreKept, HistoryStep
<1> SUFFICES ASSUME NEW i \in DOMAIN splices'
             PROVE  splices'[i].credit \in {NoSwap, splices'[i].swap} \/ splices'[i].chan \in cut'
  BY DEF CreditedToItsSwap
<1>1. CASE i \notin DOMAIN splices
  <2>1. PICK c \in Chan : AddSplice(drv.swap, c)
    BY <1>1, SplicesStep DEF SetState, SetCredit, DropSplice
  <2>2. splices'[i].credit = NoSwap
    BY <1>1, <2>1 DEF AddSplice
  <2>3. QED
    BY <2>2
<1>2. CASE i \in DOMAIN splices
  <2>1. /\ splices'[i].swap = splices[i].swap /\ splices'[i].chan = splices[i].chan
        /\ splices[i].chan \in cut => splices'[i].chan \in cut'
    BY <1>0, <1>2 DEF SplicesKept, HistoryGrows
  <2>2. CASE splices'[i].credit = splices[i].credit
    BY <1>2, <2>1, <2>2 DEF CreditedToItsSwap
  <2>3. CASE SetCredit(drv.splice, drv.swap) /\ drv.pc = "complete"
    BY <1>2, <2>1, <2>2, <2>3 DEF SetCredit, UncutIsOwn
  <2>4. CASE \E t \in late : SetCredit(t.splice, t.swap)
    BY <1>2, <2>1, <2>2, <2>4 DEF SetCredit, UncutIsOwn
  <2>5. QED
    BY <1>2, <2>2, <2>3, <2>4, SplicesStep DEF SetState, AddSplice, DropSplice
<1>3. QED
  BY <1>1, <1>2

-----------------------------------------------------------------------------
(* The theorems. *)

LEMMA Initially == Init => SwapOutInv
<1> SUFFICES ASSUME Init PROVE SwapOutInv
  OBVIOUS
<1>1. DOMAIN splices = {} /\ splices \in Seq(SpliceType) /\ Len(splices) = 0 /\ Len(splices) <= MaxSplices
  BY EmptySeq, LenProperties, SwapOutAssumption DEF Init
<1>2. DOMAIN events = {} /\ events \in Seq(DOMAIN splices)
  BY EmptySeq DEF Init
<1>3. drv.pc = "idle" /\ drv.swap = NoSwap
  BY DEF Init, Idle
<1>4. TypeOK
  <2>1. SplicesTyped /\ EventsTyped
    BY <1>1, <1>2 DEF SplicesTyped, EventsTyped
  <2>2. SlotTyped
    BY DEF Init, SlotTyped, Free
  <2>3. DrvTyped
    BY DEF Init, DrvTyped, Idle
  <2>4. LateTyped /\ RestTyped
    BY SwapOutAssumption DEF Init, LateTyped, RestTyped, Outcome, SettledSwaps
  <2>5. QED
    BY <2>1, <2>2, <2>3, <2>4, TypeOKParts
<1>5. DriveShape
  BY <1>3 DEF Init, DriveShape, Free, Idle
<1>6. PassShape /\ HandledIsSettled /\ OwnShape
  BY DEF Init, PassShape, HandledIsSettled, OwnShape, Idle
<1>7. EventsOnce /\ FlightUncredited /\ UncutIsOwn /\ CreditedToItsSwap
  BY <1>1, <1>2, <1>3 DEF Init, EventsOnce, FlightUncredited, UncutIsOwn, CreditedToItsSwap, Free
<1>8. QED
  BY <1>4, <1>5, <1>6, <1>7 DEF SwapOutInv

\* The inductive invariant of the on-chain swap-out rail, for every interleaving
\* of the drive, its watch tasks, the correlator, both chains and restarts.
THEOREM SwapOutCorrect == Spec => []SwapOutInv
<1>1. SwapOutInv /\ [Next]_vars => SwapOutInv'
  <2> SUFFICES ASSUME SwapOutInv, [Next]_vars PROVE SwapOutInv'
    OBVIOUS
  <2>1. /\ TypeOK /\ DriveShape /\ OwnShape /\ PassShape /\ HandledIsSettled /\ EventsOnce
        /\ FlightUncredited /\ UncutIsOwn /\ CreditedToItsSwap /\ EventsTyped
    BY DEF SwapOutInv, EventsOnce, EventsTyped
  <2>2. SplicesTyped' /\ SlotTyped' /\ DrvTyped' /\ LateTyped'
    BY <2>1, SplicesAreKept, SlotStep, DrvStep, LateStep DEF SplicesKept
  <2>3. RestTyped' /\ PassShape' /\ HandledIsSettled'
    BY <2>1, PassKept
  <2>4. EventsOnce' /\ EventsTyped'
    BY <2>1, EventsKept DEF EventsOnce, EventsTyped
  <2>5. TypeOK'
    <3>1. \A k \in DOMAIN events' : events'[k] \in DOMAIN splices'
      BY <2>4, LenProperties, ElementOfSeq DEF EventsTyped
    <3>2. QED
      BY <2>2, <2>3, <3>1 DEF TypeOK, SplicesTyped, SlotTyped, DrvTyped, LateTyped, RestTyped
  <2>6. DriveShape' /\ OwnShape' /\ FlightUncredited' /\ UncutIsOwn' /\ CreditedToItsSwap'
    BY <2>1, DriveKept, OwnKept, FlightKept, UncutKept, CreditKept
  <2>7. QED
    BY <2>3, <2>4, <2>5, <2>6 DEF SwapOutInv
<1>2. QED
  BY <1>1, Initially, PTL DEF Spec

\* Every registration, event, task and drive names a splice that was initiated
\* and a request there is, across timeouts and restarts.
THEOREM SwapOutTypeCorrect == Spec => []TypeOK
<1>1. SwapOutInv => TypeOK
  BY DEF SwapOutInv
<1>2. QED
  BY <1>1, SwapOutCorrect, PTL

\* A request is marked handled only once the chain settled it, or after its
\* completion found no ladder: no error path of the drive gives a request up.
THEOREM HandledIsSettledHolds == Spec => []HandledIsSettled
<1>1. SwapOutInv => HandledIsSettled
  BY DEF SwapOutInv
<1>2. QED
  BY <1>1, SwapOutCorrect, PTL

\* A visit of the watcher to a request initiates one splice that may pay at most,
\* and neither tries another channel nor reverses while it has one.
THEOREM VisitPaysOnceHolds == Spec => []VisitPaysOnce
<1>1. SwapOutInv => VisitPaysOnce
  <2> SUFFICES ASSUME SwapOutInv PROVE VisitPaysOnce
    OBVIOUS
  <2> DEFINE paying == {i \in drv.own \cap DOMAIN splices : splices[i].st # "dead"}
  <2>1. drv.pc \in {"idle", "pick", "wait", "complete"}
    BY DEF SwapOutInv, TypeOK
  <2>2. CASE paying = {}
    BY <2>2, FS_EmptySet DEF VisitPaysOnce
  <2>3. CASE paying # {}
    <3>1. drv.pc # "pick" /\ \E k : drv.own = {k}
      BY <2>1, <2>3 DEF SwapOutInv, OwnShape
    <3>2. PICK k : paying = {k}
      BY <2>3, <3>1
    <3>3. Cardinality(paying) = 1
      BY <3>2, FS_Singleton
    <3>4. QED
      BY <3>1, <3>3 DEF VisitPaysOnce
  <2>4. QED
    BY <2>2, <2>3
<1>2. QED
  BY <1>1, SwapOutCorrect, PTL

\* The contract credits a splice to another swap than the one that caused it
\* only on a channel where a delivery timed out or was in flight in a restart.
THEOREM CreditedToItsSwapHolds == Spec => []CreditedToItsSwap
<1>1. SwapOutInv => CreditedToItsSwap
  BY DEF SwapOutInv
<1>2. QED
  BY <1>1, SwapOutCorrect, PTL

-----------------------------------------------------------------------------
(* The contract the driver talks to. *)

Credited == {i \in DOMAIN splices : splices[i].credit # NoSwap}

\* Only an accepted delivery changes which splices are accepted.
LEMMA CreditedStep ==
    ASSUME SplicesTyped
    PROVE  /\ UNCHANGED splices => UNCHANGED Credited
           /\ \A i, st : SetState(i, st) => UNCHANGED Credited
           /\ \A s, c : AddSplice(s, c) => UNCHANGED Credited
           /\ \A i : FlightUncredited /\ DropSplice(i) => UNCHANGED Credited
           /\ \A i \in DOMAIN splices, s \in Swap :
                 SetCredit(i, s) => Credited' = Credited \cup {i}
<1>1. UNCHANGED splices => UNCHANGED Credited
  BY DEF Credited
<1>2. ASSUME NEW i, NEW st, SetState(i, st) PROVE UNCHANGED Credited
  BY <1>2 DEF Credited, SetState
<1>3. ASSUME NEW s, NEW c, AddSplice(s, c) PROVE UNCHANGED Credited
  BY <1>3 DEF Credited, AddSplice
<1>4. ASSUME NEW i \in DOMAIN splices, NEW s \in Swap, SetCredit(i, s)
      PROVE  Credited' = Credited \cup {i}
  BY <1>4, SwapOutAssumption DEF Credited, SetCredit, Swap, NoSwap
<1>5. ASSUME NEW i, FlightUncredited, DropSplice(i) PROVE UNCHANGED Credited
  BY <1>5 DEF Credited, DropSplice, FlightUncredited
<1>6. QED
  BY <1>1, <1>2, <1>3, <1>4, <1>5

\* A completion delivers, on a splice that was not accepted before, or leaves
\* the contract as it is.
LEMMA CompletionLedger ==
    ASSUME TypeOK, NEW s \in Swap, NEW i \in DOMAIN splices,
           CompleteErr(i) \/ NoLadder(i) \/ Deliver(s, i) \/ DeliverReverts(s, i)
    PROVE  Ledger!Next \/ UNCHANGED Ledger!vars
<1>0. SplicesTyped /\ RestTyped /\ evm \in [Swap -> Outcome]
  BY TypeOKParts DEF TypeOK
<1>1. CASE Deliver(s, i)
  <2>1. /\ evm[s] = "pending" /\ splices[i].credit = NoSwap
        /\ evm' = [evm EXCEPT ![s] = "delivered"]
    BY <1>1 DEF Deliver, Deliverable
  <2>2. SetCredit(i, s)
    BY <1>0, <1>1, CreditIsSet DEF Deliver
  <2>3. Credited' = Credited \cup {i} /\ i \notin Credited
    BY <1>0, <2>1, <2>2, CreditedStep DEF Credited
  <2>5. i \in 1..MaxSplices
    BY <1>0, SpliceFields, SwapOutAssumption DEF SplicesTyped
  <2>6. Ledger!Deliver(s, i)
    BY <2>1, <2>3 DEF Ledger!Deliver, Ledger!Becomes, Ledger!Use, Credited
  <2>7. QED
    BY <2>5, <2>6 DEF Ledger!Next
<1>2. CASE ~Deliver(s, i)
  <2>1. UNCHANGED <<evm, splices>>
    BY <1>2 DEF CompleteErr, NoLadder, DeliverReverts
  <2>2. QED
    BY <2>1 DEF Ledger!vars
<1>3. QED
  BY <1>1, <1>2

\* Every step is a step of the ledger of swap-outs, or none.
LEMMA LedgerStep ==
    ASSUME TypeOK, DriveShape, FlightUncredited, [Next]_vars
    PROVE  Ledger!Next \/ UNCHANGED Ledger!vars
<1>0. SplicesTyped /\ evm \in [Swap -> Outcome]
  BY TypeOKParts DEF TypeOK
<1>1. ASSUME UNCHANGED evm, UNCHANGED Credited
      PROVE  UNCHANGED Ledger!vars
  BY <1>1 DEF Ledger!vars, Credited
<1>2. ASSUME NEW s \in Swap, evm[s] = "pending", UNCHANGED splices,
             evm' = [evm EXCEPT ![s] = "returned"]
      PROVE  Ledger!Next
  <2>1. Ledger!Return(s)
    BY <1>0, <1>2, CreditedStep DEF Ledger!Return, Ledger!Becomes, Credited
  <2>2. QED
    BY <2>1 DEF Ledger!Next
<1>3. ASSUME NEW s \in Swap, RequestSwapOutOnchain(s)
      PROVE  Ledger!Next
  <2>1. evm[s] = "none" /\ evm' = [evm EXCEPT ![s] = "pending"] /\ UNCHANGED splices
    BY <1>3 DEF RequestSwapOutOnchain, btcVars
  <2>2. Ledger!Request(s)
    BY <1>0, <2>1, CreditedStep DEF Ledger!Request, Ledger!Becomes, Credited
  <2>3. QED
    BY <2>2 DEF Ledger!Next
<1>4. ASSUME NEW s \in Swap, RefundExpiredSwapOut(s)
      PROVE  Ledger!Next
  BY <1>2, <1>4 DEF RefundExpiredSwapOut, btcVars
<1>5. CASE Reverse
  <2>1. drv.swap \in Swap
    BY <1>5, DriveTypes DEF Reverse
  <2>2. UNCHANGED splices /\ \/ UNCHANGED evm
                             \/ evm[drv.swap] = "pending" /\ evm' = [evm EXCEPT ![drv.swap] = "returned"]
    BY <1>5 DEF Reverse, btcVars
  <2>3. QED
    BY <1>0, <1>1, <1>2, <2>1, <2>2, CreditedStep
<1>6. CASE CompleteDelivery
  <2>1. drv.swap \in Swap /\ drv.splice \in DOMAIN splices
    BY <1>6, DriveTypes DEF CompleteDelivery
  <2>2. \/ CompleteErr(drv.splice) \/ NoLadder(drv.splice)
        \/ Deliver(drv.swap, drv.splice) \/ DeliverReverts(drv.swap, drv.splice)
    BY <1>6 DEF CompleteDelivery
  <2>3. QED
    BY <2>1, <2>2, CompletionLedger
<1>7. ASSUME NEW t \in late, CompleteLate(t) PROVE Ledger!Next \/ UNCHANGED Ledger!vars
  <2>1. \/ CompleteErr(t.splice) \/ NoLadder(t.splice)
        \/ Deliver(t.swap, t.splice) \/ DeliverReverts(t.swap, t.splice)
    BY <1>7 DEF CompleteLate
  <2>2. QED
    BY <2>1, DriveTypes, CompletionLedger
<1>8. CASE UNCHANGED evm /\ ~CompleteDelivery /\ ~\E t \in late : CompleteLate(t)
  <2>1. UNCHANGED Credited
    BY <1>0, <1>8, SplicesStep, CreditedStep
  <2>2. QED
    BY <1>1, <1>8, <2>1
<1>9. QED
  <2>1. CASE Poll \/ UNCHANGED vars \/ LockTimeout \/ ReverseFails \/ Restart \/ Resolve \/ Bury
    BY <1>6, <1>7, <1>8, <2>1 DEF Poll, vars, evmVars, LockTimeout, ReverseFails, Restart, Resolve, Bury
  <2>2. CASE \E s \in Swap : StartDrive(s) \/ StartFails(s)
    BY <1>6, <1>7, <1>8, <2>2 DEF StartDrive, StartFails, evmVars
  <2>3. CASE \E i \in DOMAIN splices : SpliceEnds(i) \/ SpliceLocks(i)
    BY <1>6, <1>7, <1>8, <2>3 DEF SpliceEnds, SpliceLocks, evmVars
  <2>4. CASE \E c \in Chan : WatchExpires(c) \/ Initiate(c) \/ InitiateFails(c)
    BY <1>6, <1>7, <1>8, <2>4 DEF WatchExpires, Initiate, InitiateFails, evmVars
  <2>5. QED
    BY <1>3, <1>4, <1>5, <1>6, <1>7, <2>1, <2>2, <2>3, <2>4 DEF Next, Drive, Tasks, Chains

\* The contract as the driver sees it is the ledger BTCChannels implements: a
\* request is settled once, by a reversal, a refund or a delivery, and no splice
\* pays for two requests, whatever is retried, late or restarted.
THEOREM SwapOutKeepsLedger == Spec => KeepsLedger
<1>1. Init => Ledger!Init
  <2> SUFFICES ASSUME Init PROVE Ledger!Init
    OBVIOUS
  <2>1. DOMAIN splices = {}
    BY EmptySeq DEF Init
  <2>2. QED
    BY <2>1 DEF Init, Ledger!Init
<1>2. SwapOutInv /\ [Next]_vars => [Ledger!Next]_(Ledger!vars)
  BY LedgerStep DEF SwapOutInv
<1>3. QED
  BY <1>1, <1>2, SwapOutCorrect, PTL DEF Spec, KeepsLedger, Ledger!Spec
=============================================================================
