------------------------ MODULE ChannelMirror_proofs ------------------------
(***************************************************************************)
(* What the mirror of a Lightning channel on the EVM promises, for every   *)
(* number of splices and faults: a record that follows the channel one     *)
(* transaction at a time, is never ahead of it, and is retired only by the *)
(* commitment that closed it; and a slot that no drive leaks.              *)
(***************************************************************************)
EXTENDS ChannelMirror, SequenceTheorems, TLAPS

-----------------------------------------------------------------------------
(* The inductive invariant. *)

\* A close is about the last funding transaction there will be.
EventShape ==
    \A i \in 1..Len(events) :
        events[i].kind = "closed" => events[i].tx = Len(amt) /\ fate # "live"

\* Once the pass has read the monitor it knows an outpoint.
RcShape == rc.pc \in {"state", "spend"} => rc.at \in 1..Len(amt)

\* The slot is claimed exactly while a drive holds it, and one drive holds it.
SlotHeld ==
    /\ active <=> \E d \in drives : d.slot
    /\ \A d, e \in drives : d.slot /\ e.slot => d = e

\* A drive is about a transaction there is, and past its read about one that
\* LDK has locked.
DriveShape ==
    \A d \in drives : d.kind \in {"open", "splice"} =>
        d.tx <= Len(amt) /\ (d.pc \in {"wait", "send"} => d.tx <= locked)

RecordBehind == RecordNeverAhead /\ (rec.at = 0 <=> rec.st = "none")

MirrorInv ==
    TypeOK /\ EventShape /\ RcShape /\ SlotHeld /\ DriveShape /\ RecordBehind

\* What a step does to the record: it follows the channel one transaction at a
\* time, and a closed record stays as it is.
RecordMoves ==
    /\ rec'.at \in {rec.at, rec.at + 1}
    /\ rec'.at # rec.at => rec'.st = "open"
    /\ rec.st = "closed" => UNCHANGED rec

-----------------------------------------------------------------------------
(* Types. *)

DriveType == [kind : {"open", "splice", "close", "force"}, tx : 1..Txs,
              pc : {"read", "wait", "send", "clear"}, slot : BOOLEAN, ev : BOOLEAN]

EventType == [kind : {"ready", "spliced", "closed"}, tx : 1..Len(amt)]

ChainTyped ==
    /\ amt \in Seq(Amounts) /\ locked \in 1..Len(amt) /\ Len(amt) <= MaxTxs
    /\ fate \in {"live", "coop", "force"} /\ buried \in 0..Txs

RecordTyped == rec \in RecType /\ claim \in BOOLEAN

MemoryTyped ==
    /\ bound \in {"no", "yes", "cleared"} /\ cidmap \in BOOLEAN
    /\ consent \subseteq 1..Len(amt) /\ active \in BOOLEAN /\ faults \in 0..MaxFaults
    /\ events \in Seq(EventType)

RcTyped ==
    rc \in [pc : {"idle", "monitor", "state", "spend"}, val : {0} \cup Amounts,
            at : 0..MaxTxs, seen : 0..MaxTxs, view : {"none", "same", "differs", "closed"}]

LEMMA TypeOKParts ==
    TypeOK <=> ChainTyped /\ RecordTyped /\ MemoryTyped /\ RcTyped /\ drives \subseteq DriveType
  BY DEF TypeOK, ChainTyped, RecordTyped, MemoryTyped, RcTyped, DriveType, EventType

LEMMA AmtFacts ==
    ASSUME ChainTyped
    PROVE  /\ Len(amt) \in Nat /\ Len(amt) >= 1 /\ Txs \in Nat /\ Len(amt) <= Txs
           /\ locked \in Nat /\ amt[locked] \in Amounts /\ MaxTxs \in Nat
<1>1. Len(amt) \in Nat /\ DOMAIN amt = 1..Len(amt)
  BY LenProperties DEF ChainTyped
<1>2. amt[locked] \in Amounts
  BY <1>1, ElementOfSeq DEF ChainTyped
<1>3. QED
  BY <1>1, <1>2, MirrorAssumption DEF ChainTyped, Txs

\* Bitcoin only moves on: no funding transaction is forgotten, a lock is not
\* undone, and a channel that closed stays closed.
ChainMoves ==
    /\ ChainTyped'
    /\ Len(amt) <= Len(amt') /\ locked <= locked' /\ Txs <= Txs' /\ buried <= buried'
    /\ fate # "live" => UNCHANGED <<amt, fate>>

LEMMA ChainStep ==
    ASSUME TypeOK, [Next]_vars
    PROVE  ChainMoves
<1>0. ChainTyped /\ Len(amt) \in Nat /\ locked \in Nat /\ Txs \in Nat /\ Len(amt) >= 1
  BY TypeOKParts, AmtFacts
<1>1. CASE UNCHANGED btc
  BY <1>0, <1>1 DEF btc, ChainMoves, ChainTyped, Txs
<1>2. ASSUME NEW v \in Amounts, Splice(v) PROVE ChainMoves
  <2>1. amt' \in Seq(Amounts) /\ Len(amt') = Len(amt) + 1
    BY <1>0, <1>2, AppendProperties DEF ChainTyped, Splice
  <2>2. QED
    BY <1>0, <1>2, <2>1, MirrorAssumption DEF ChainTyped, ChainMoves, Splice, Quiet, Txs
<1>3. CASE Lock
  BY <1>0, <1>3 DEF Lock, ChainTyped, ChainMoves, Txs
<1>4. CASE \E f \in {"coop", "force"} : Close(f)
  BY <1>0, <1>4 DEF Close, Quiet, ChainTyped, ChainMoves, Txs
<1>5. CASE Bury
  BY <1>0, <1>5 DEF Bury, ChainTyped, ChainMoves, Txs
<1>6. QED
  <2>1. CASE BindFunding \/ Restart \/ OnReady \/ OnSpliced \/ OnClosed \/ UNCHANGED vars
    BY <1>1, <2>1 DEF BindFunding, Restart, OnReady, OnSpliced, OnClosed, vars
  <2>2. CASE Reconcile \/ RcBlip
    BY <1>1, <2>2 DEF Reconcile, RcBlip, RcStart, RcMonitor, RcState, RcSpend, RcAct
  <2>3. CASE \E k \in 1..Len(amt) : PostConsent(k)
    BY <1>1, <2>3 DEF PostConsent
  <2>4. CASE \E d \in drives : DriveSteps(d) \/ DriveFails(d)
    BY <1>1, <2>4 DEF DriveSteps, DriveFails, DriveReads, DriveWaits, SendOpen, SendSplice,
                      SendClose, SendForceClose, ClearInflight
  <2>5. QED
    BY <1>2, <1>3, <1>4, <1>5, <2>1, <2>2, <2>3, <2>4 DEF Next, Driving

-----------------------------------------------------------------------------
(* Drives. *)

\* A drive before it has read anything.
Unread(n) ==
    /\ n \in DriveType /\ n.pc = "read"
    /\ n.kind \in {"open", "splice"} => n.tx <= Len(amt)

LEMMA NewDriveType ==
    ASSUME ChainTyped, NEW k \in {"open", "splice", "close", "force"}, NEW tx \in 1..Txs,
           k \in {"open", "splice"} => tx <= Len(amt), NEW slot \in BOOLEAN, NEW ev \in BOOLEAN
    PROVE  Unread(NewDrive(k, tx, slot, ev)) /\ NewDrive(k, tx, slot, ev).slot = slot
<1>1. /\ NewDrive(k, tx, slot, ev) \in DriveType /\ NewDrive(k, tx, slot, ev).pc = "read"
      /\ NewDrive(k, tx, slot, ev).kind = k /\ NewDrive(k, tx, slot, ev).tx = tx
      /\ NewDrive(k, tx, slot, ev).slot = slot
  BY Zenon DEF NewDrive, DriveType
<1>2. QED
  BY <1>1, Zenon DEF Unread

\* A drive enters, and claims the slot if it is to hold it.
Enters(n) ==
    /\ Unread(n) /\ drives' = drives \cup {n} /\ UNCHANGED btc
    /\ (n.slot /\ ~active /\ active') \/ (~n.slot /\ UNCHANGED active)

\* A drive goes on: to its wait after a read, to its call after its wait.
Advances(d, pc) ==
    /\ To(d, pc) /\ pc \in {"wait", "send", "clear"}
    /\ pc = "wait" => GoesOn(d) /\ UNCHANGED btc
    /\ pc = "send" => d.pc = "wait"

\* What a step may do to the drives.
DrivesMove ==
    \/ UNCHANGED <<drives, active>>
    \/ drives' = {} /\ active' = FALSE
    \/ \E d \in drives : End(d)
    \/ \E d \in drives : \E pc : Advances(d, pc)
    \/ \E n : Enters(n)

LEMMA SpawnWithSlotMoves ==
    ASSUME ChainTyped, NEW k \in {"open", "splice", "close", "force"}, NEW tx \in 1..Txs,
           k \in {"open", "splice"} => tx <= Len(amt), NEW ev \in BOOLEAN, UNCHANGED btc,
           SpawnWithSlot(k, tx, ev)
    PROVE  DrivesMove
<1>1. CASE active
  BY <1>1 DEF SpawnWithSlot, DrivesMove
<1>2. CASE ~active
  <2>1. TRUE \in BOOLEAN
    BY Zenon
  <2>2. Unread(NewDrive(k, tx, TRUE, ev)) /\ NewDrive(k, tx, TRUE, ev).slot = TRUE
    BY <2>1, NewDriveType, Zenon
  <2>3. active' = TRUE /\ drives' = drives \cup {NewDrive(k, tx, TRUE, ev)}
    BY <1>2 DEF SpawnWithSlot
  <2>4. Enters(NewDrive(k, tx, TRUE, ev))
    BY <1>2, <2>2, <2>3, Zenon DEF Enters
  <2>5. QED
    BY <2>4, Zenon DEF DrivesMove
<1>3. QED
  BY <1>1, <1>2

LEMMA SpawnWithoutSlotMoves ==
    ASSUME ChainTyped, NEW k \in {"open", "close"}, NEW tx \in 1..Txs,
           k = "open" => tx <= Len(amt), UNCHANGED btc, SpawnWithoutSlot(k, tx)
    PROVE  DrivesMove
<1>1. FALSE \in BOOLEAN
  BY Zenon
<1>2. k \in {"open", "splice"} => tx <= Len(amt)
  OBVIOUS
<1>3. Unread(NewDrive(k, tx, FALSE, FALSE)) /\ NewDrive(k, tx, FALSE, FALSE).slot = FALSE
  BY <1>1, <1>2, NewDriveType, Zenon
<1>4. UNCHANGED active /\ drives' = drives \cup {NewDrive(k, tx, FALSE, FALSE)}
  BY DEF SpawnWithoutSlot
<1>5. Enters(NewDrive(k, tx, FALSE, FALSE))
  BY <1>3, <1>4, Zenon DEF Enters
<1>6. QED
  BY <1>5, Zenon DEF DrivesMove

LEMMA OneDriveSteps ==
    ASSUME NEW d \in drives, DriveSteps(d) \/ DriveFails(d)
    PROVE  DrivesMove
<1>1. CASE End(d)
  BY <1>1 DEF DrivesMove
<1>2. CASE DriveReads(d)
  BY <1>1, <1>2 DEF DriveReads, DrivesMove, Advances
<1>3. CASE DriveWaits(d)
  BY <1>1, <1>3 DEF DriveWaits, DrivesMove, Advances
<1>4. CASE SendOpen(d) \/ SendSplice(d)
  BY <1>1, <1>4 DEF SendOpen, SendSplice, DrivesMove, Advances
<1>5. CASE SendClose(d) \/ SendForceClose(d) \/ ClearInflight(d) \/ DriveFails(d)
  BY <1>1, <1>5 DEF SendClose, SendForceClose, ClearInflight, DriveFails
<1>6. QED
  BY <1>2, <1>3, <1>4, <1>5 DEF DriveSteps

\* The reconciler's action: what the pass read is about a transaction there is.
LEMMA RcActMoves ==
    ASSUME TypeOK, RcShape, NEW spent \in {FALSE, Spent(rc.at)}, NEW commitment,
           RcAct(spent, commitment)
    PROVE  DrivesMove
<1> DEFINE a == SelectReconcileAction(spent, commitment)
           k == IF a \in {"close", "force"} THEN rc.at + 1 ELSE rc.at
<1>0. ChainTyped /\ rc.at \in 1..Len(amt) /\ Len(amt) \in Nat /\ Txs \in Nat /\ Len(amt) <= Txs
  BY TypeOKParts, AmtFacts DEF RcAct, RcShape
<1>1. a \in {"none", "open", "splice", "close", "force"}
  BY DEF SelectReconcileAction
<1>2. a \in {"close", "force"} => Spent(rc.at)
  BY DEF SelectReconcileAction
<1> HIDE DEF a
<1>3. k \in 1..Txs /\ (a \in {"open", "splice"} => k <= Len(amt))
  BY <1>0, <1>2 DEF Spent
<1>4. UNCHANGED btc
  BY DEF RcAct
<1>5. CASE a = "none"
  BY <1>5 DEF RcAct, a, DrivesMove
<1>6. CASE a # "none"
  <2>1. SpawnWithSlot(a, k, FALSE)
    BY <1>6 DEF RcAct, a
  <2> HIDE DEF k
  <2>2. FALSE \in BOOLEAN
    BY Zenon
  <2>3. a \in {"open", "splice", "close", "force"}
    BY <1>1, <1>6
  <2>4. QED
    BY <1>0, <1>3, <1>4, <2>1, <2>2, <2>3, SpawnWithSlotMoves, Zenon
<1>7. QED
  BY <1>5, <1>6

LEMMA HeadEvent ==
    ASSUME TypeOK, EventShape, events # <<>>
    PROVE  /\ Head(events) \in EventType /\ Head(events).tx \in 1..Len(amt)
           /\ Head(events).kind = "closed" => Head(events).tx = Len(amt) /\ fate # "live"
<1>1. events \in Seq(EventType)
  BY TypeOKParts DEF MemoryTyped
<1>2. Len(events) \in Nat /\ Len(events) >= 1 /\ Head(events) = events[1]
  BY <1>1, EmptySeq, LenProperties, HeadTailProperties
<1>3. events[1] \in EventType
  BY <1>1, <1>2, ElementOfSeq
<1>4. QED
  BY <1>2, <1>3 DEF EventShape, EventType

LEMMA EventMoves ==
    ASSUME TypeOK, EventShape, OnReady \/ OnSpliced \/ OnClosed
    PROVE  DrivesMove
<1> DEFINE k == Head(events).tx
<1>0. /\ ChainTyped /\ Len(amt) \in Nat /\ Txs \in Nat /\ Len(amt) <= Txs /\ k \in 1..Len(amt)
      /\ Head(events).kind = "closed" => k = Len(amt) /\ fate # "live"
  BY TypeOKParts, AmtFacts, HeadEvent DEF OnReady, OnSpliced, OnClosed
<1>1. k \in 1..Txs /\ k <= Len(amt)
  BY <1>0
<1>2. TRUE \in BOOLEAN /\ FALSE \in BOOLEAN
  BY Zenon
<1>3. UNCHANGED btc
  BY DEF OnReady, OnSpliced, OnClosed
<1>4. CASE OnReady
  <2>1. SpawnWithSlot("open", k, FALSE) \/ SpawnWithoutSlot("open", k)
    BY <1>4 DEF OnReady
  <2> HIDE DEF k
  <2>2. QED
    BY <1>0, <1>1, <1>2, <1>3, <2>1, SpawnWithSlotMoves, SpawnWithoutSlotMoves, Zenon
<1>5. CASE OnSpliced
  <2>1. SpawnWithSlot("splice", k, FALSE) \/ UNCHANGED <<active, drives>>
    BY <1>5 DEF OnSpliced
  <2>2. UNCHANGED <<active, drives>> => DrivesMove
    BY DEF DrivesMove
  <2> HIDE DEF k
  <2>3. QED
    BY <1>0, <1>1, <1>2, <1>3, <2>1, <2>2, SpawnWithSlotMoves, Zenon
<1>6. CASE OnClosed
  <2>1. SpawnWithSlot("close", k + 1, TRUE) \/ SpawnWithoutSlot("close", k + 1)
    BY <1>6 DEF OnClosed
  <2>2. k + 1 \in 1..Txs
    BY <1>0, <1>6 DEF OnClosed, Txs
  <2> HIDE DEF k
  <2>3. QED
    BY <1>0, <1>2, <1>3, <2>1, <2>2, SpawnWithSlotMoves, SpawnWithoutSlotMoves, Zenon
<1>7. QED
  BY <1>4, <1>5, <1>6

LEMMA DrivesStep ==
    ASSUME TypeOK, RcShape, EventShape, [Next]_vars
    PROVE  DrivesMove
<1>1. CASE OnReady \/ OnSpliced \/ OnClosed
  BY <1>1, EventMoves
<1>2. CASE \E d \in drives : DriveSteps(d) \/ DriveFails(d)
  BY <1>2, OneDriveSteps
<1>3. CASE RcSpend \/ RcBlip
  BY <1>3, RcActMoves, Zenon DEF RcSpend, RcBlip
<1>4. CASE RcStart \/ RcMonitor \/ RcState \/ Lock \/ Bury \/ BindFunding \/ UNCHANGED vars
  BY <1>4 DEF RcStart, RcMonitor, RcState, Lock, Bury, BindFunding, vars, DrivesMove
<1>5. CASE Restart
  BY <1>5 DEF Restart, DrivesMove
<1>6. CASE \E v \in Amounts : Splice(v)
  BY <1>6 DEF Splice, DrivesMove
<1>7. CASE \E f \in {"coop", "force"} : Close(f)
  BY <1>7 DEF Close, DrivesMove
<1>8. CASE \E k \in 1..Len(amt) : PostConsent(k)
  BY <1>8 DEF PostConsent, DrivesMove
<1>9. QED
  BY <1>1, <1>2, <1>3, <1>4, <1>5, <1>6, <1>7, <1>8 DEF Next, Reconcile, Driving

-----------------------------------------------------------------------------
(* The record. *)

LEMMA RecordStep ==
    ASSUME TypeOK, DriveShape, RecordBehind, [Next]_vars
    PROVE  RecordTyped' /\ RecordBehind' /\ RecordMoves
<1>0. /\ ChainTyped /\ RecordTyped /\ ChainMoves /\ drives \subseteq DriveType
      /\ locked \in Nat /\ locked' \in Nat /\ MaxTxs \in Nat /\ buried \in Nat /\ buried' \in Nat
      /\ Len(amt) \in Nat /\ Len(amt') \in Nat
  BY TypeOKParts, ChainStep, AmtFacts, MirrorAssumption DEF ChainMoves, ChainTyped
<1>1. /\ rec.at \in Nat /\ rec.at <= MaxTxs /\ rec.st \in {"none", "open", "closed"}
      /\ locked <= locked' /\ locked <= MaxTxs /\ buried <= buried' /\ locked >= 1
      /\ rec = [at |-> rec.at, st |-> rec.st]
  BY <1>0, AmtFacts DEF RecordTyped, RecType, ChainMoves, ChainTyped
<1>2. ASSUME UNCHANGED rec, claim' \in BOOLEAN
      PROVE  RecordTyped' /\ RecordBehind' /\ RecordMoves
  <2>1. rec.st = "closed" => fate' = "force" /\ rec.at = Len(amt') /\ buried' > rec.at
    BY <1>0, <1>1 DEF RecordBehind, RecordNeverAhead, ChainMoves
  <2>2. QED
    BY <1>0, <1>1, <1>2, <2>1 DEF RecordTyped, RecordBehind, RecordNeverAhead, RecordMoves
<1>3. ASSUME rec' = [at |-> rec'.at, st |-> rec'.st], rec'.st = "open", rec.st # "closed",
             rec'.at = rec.at + 1, rec'.at <= locked, rec'.at <= buried, claim' \in BOOLEAN
      PROVE  RecordTyped' /\ RecordBehind' /\ RecordMoves
  <2>1. rec' \in RecType /\ RecordBehind' /\ RecordMoves
    BY <1>0, <1>1, <1>3 DEF RecType, RecordBehind, RecordNeverAhead, RecordMoves
  <2>2. QED
    BY <1>3, <2>1 DEF RecordTyped
<1>4. claim \in BOOLEAN
  BY <1>0 DEF RecordTyped
<1>5. ASSUME NEW d \in drives, SendOpen(d) PROVE RecordTyped' /\ RecordBehind' /\ RecordMoves
  <2>1. CASE rec' = [at |-> 1, st |-> "open"] /\ claim' \in BOOLEAN /\ rec.at = 0 /\ buried >= 1
    <3>1. rec.st = "none"
      BY <2>1 DEF RecordBehind
    <3>2. rec'.at = 1 /\ rec'.st = "open"
      BY <2>1
    <3>3. QED
      BY <1>0, <1>1, <1>3, <2>1, <3>1, <3>2
  <2>2. CASE UNCHANGED evm
    BY <1>2, <1>4, <2>2 DEF evm
  <2>3. QED
    BY <1>5, <2>1, <2>2 DEF SendOpen
<1>6. ASSUME NEW d \in drives, SendSplice(d) PROVE RecordTyped' /\ RecordBehind' /\ RecordMoves
  <2>1. claim' \in BOOLEAN
    BY <1>4, <1>6 DEF SendSplice
  <2>2. CASE rec' = [rec EXCEPT !.at = d.tx] /\ SpliceAccepted(d.tx)
    <3>1. d.tx \in Nat /\ d.tx >= 1 /\ d.tx <= locked
      BY <1>0, <1>6, AmtFacts DEF SendSplice, DriveShape, DriveType
    <3>2. rec.st = "open" /\ d.tx = rec.at + 1 /\ d.tx <= buried
      BY <1>0, <1>1, <2>2, <3>1 DEF SpliceAccepted, SpendsChannel
    <3>3. rec' = [at |-> d.tx, st |-> "open"]
      BY <1>1, <2>2, <3>2
    <3>4. QED
      BY <1>1, <1>3, <2>1, <3>1, <3>2, <3>3
  <2>3. CASE rec' = rec
    BY <1>2, <2>1, <2>3
  <2>4. QED
    BY <1>6, <2>2, <2>3 DEF SendSplice
<1>7. ASSUME NEW d \in drives, SendForceClose(d) PROVE RecordTyped' /\ RecordBehind' /\ RecordMoves
  <2>1. claim' \in BOOLEAN
    BY <1>4, <1>7 DEF SendForceClose
  <2>2. CASE rec' = [rec EXCEPT !.st = "closed"] /\ IsCommitment(d.tx) /\ SpendsChannel(d.tx)
    <3>1. rec' = [at |-> rec.at, st |-> "closed"] /\ rec.st = "open" /\ UNCHANGED btc
      BY <1>1, <1>7, <2>2 DEF SpendsChannel, SendForceClose
    <3>2. d.tx \in Nat /\ d.tx >= 1
      BY <1>0, AmtFacts DEF DriveType
    <3>3. fate = "force" /\ d.tx = Len(amt) + 1 /\ rec.at = d.tx - 1 /\ buried >= d.tx
      BY <1>0, <2>2, <3>2 DEF IsCommitment, SpendsChannel, Txs
    <3>4. rec.at # 0 /\ rec.at <= locked
      BY <3>1 DEF RecordBehind, RecordNeverAhead
    <3>5. RecordBehind' /\ RecordMoves
      BY <1>0, <1>1, <3>1, <3>2, <3>3, <3>4 DEF btc, RecordBehind, RecordNeverAhead, RecordMoves
    <3>6. rec' \in RecType
      BY <1>1, <3>1, MirrorAssumption DEF RecType
    <3>7. QED
      BY <2>1, <3>5, <3>6 DEF RecordTyped
  <2>3. CASE rec' = rec
    BY <1>2, <2>1, <2>3
  <2>4. QED
    BY <1>7, <2>2, <2>3 DEF SendForceClose
<1>8. CASE UNCHANGED evm
  BY <1>2, <1>4, <1>8 DEF evm
<1>9. CASE RcState
  <2>1. FALSE \in BOOLEAN /\ UNCHANGED rec /\ claim' \in {claim, FALSE}
    BY <1>9, Zenon DEF RcState
  <2>2. claim' \in BOOLEAN
    BY <1>4, <2>1, Zenon
  <2>3. QED
    BY <1>2, <2>1, <2>2
<1>10. QED
  <2>1. CASE BindFunding \/ Restart \/ OnReady \/ OnSpliced \/ OnClosed \/ Lock \/ Bury \/ UNCHANGED vars
    BY <1>8, <2>1 DEF BindFunding, Restart, OnReady, OnSpliced, OnClosed, Lock, Bury, vars
  <2>2. CASE RcStart \/ RcMonitor \/ RcSpend \/ RcBlip
    BY <1>8, <2>2 DEF RcStart, RcMonitor, RcSpend, RcBlip, RcAct
  <2>3. CASE \E k \in 1..Len(amt) : PostConsent(k)
    BY <1>8, <2>3 DEF PostConsent
  <2>4. CASE \E d \in drives : \/ DriveReads(d) \/ DriveWaits(d) \/ SendClose(d)
                               \/ ClearInflight(d) \/ DriveFails(d)
    BY <1>8, <2>4 DEF DriveFails, DriveReads, DriveWaits, SendClose, ClearInflight
  <2>5. CASE (\E v \in Amounts : Splice(v)) \/ (\E f \in {"coop", "force"} : Close(f))
    BY <1>8, <2>5 DEF Splice, Close
  <2>6. QED
    BY <1>5, <1>6, <1>7, <1>9, <2>1, <2>2, <2>3, <2>4, <2>5 DEF Next, Reconcile, Driving, DriveSteps

-----------------------------------------------------------------------------
(* The rest of the state. *)

\* The pass and its fields.
LEMMA RcStep ==
    ASSUME TypeOK, RcShape, [Next]_vars
    PROVE  RcTyped' /\ RcShape'
<1>0. /\ ChainTyped /\ RecordTyped /\ RcTyped /\ ChainMoves /\ locked \in 1..Len(amt)
      /\ Len(amt) \in 0..MaxTxs /\ locked \in 0..MaxTxs /\ 0 \in 0..MaxTxs
      /\ amt[locked] \in Amounts /\ Len(amt) \in Nat /\ Len(amt') \in Nat /\ Len(amt) <= Len(amt')
  BY TypeOKParts, ChainStep, AmtFacts DEF ChainTyped, ChainMoves
<1>1. CASE UNCHANGED rc
  BY <1>0, <1>1 DEF RcTyped, RcShape
<1>2. CASE rc' = Idle
  BY <1>0, <1>2 DEF RcTyped, RcShape, Idle
<1>3. CASE RcStart
  BY <1>0, <1>3 DEF RcStart, RcTyped, RcShape, Idle
<1>4. CASE RcMonitor
  <2>1. /\ rc' = [rc EXCEPT !.pc = "state", !.at = locked, !.seen = Len(amt)] /\ amt' = amt
    BY <1>4 DEF RcMonitor, btc
  <2>2. RcTyped'
    BY <1>0, <2>1 DEF RcTyped
  <2>3. rc'.at = locked
    BY <1>0, <2>1 DEF RcTyped
  <2>4. QED
    BY <1>0, <2>1, <2>2, <2>3 DEF RcShape
<1>5. CASE RcState
  <2> DEFINE v == IF rec.st # "open" THEN rec.st
                  ELSE IF rc.val # amt[rec.at] THEN "differs" ELSE "same"
  <2>1. rc' = [rc EXCEPT !.pc = "spend", !.val = 0, !.view = v] /\ amt' = amt /\ rc.pc = "state"
    BY <1>5 DEF RcState, btc
  <2>2. v \in {"none", "same", "differs", "closed"}
    BY <1>0 DEF RecordTyped, RecType
  <2> HIDE DEF v
  <2>3. RcTyped' /\ rc'.at = rc.at
    BY <1>0, <2>1, <2>2 DEF RcTyped
  <2>4. QED
    BY <2>1, <2>3 DEF RcShape
<1>6. QED
  <2>1. CASE BindFunding \/ OnReady \/ OnSpliced \/ OnClosed \/ Lock \/ Bury \/ UNCHANGED vars
    BY <1>1, <2>1 DEF BindFunding, OnReady, OnSpliced, OnClosed, Lock, Bury, vars
  <2>2. CASE RcSpend \/ RcBlip \/ Restart
    BY <1>2, <2>2 DEF RcSpend, RcBlip, RcAct, Restart
  <2>3. CASE \E k \in 1..Len(amt) : PostConsent(k)
    BY <1>1, <2>3 DEF PostConsent
  <2>4. CASE \E d \in drives : DriveSteps(d) \/ DriveFails(d)
    BY <1>1, <2>4 DEF DriveSteps, DriveFails, DriveReads, DriveWaits, SendOpen, SendSplice,
                      SendClose, SendForceClose, ClearInflight
  <2>5. CASE (\E v \in Amounts : Splice(v)) \/ (\E f \in {"coop", "force"} : Close(f))
    BY <1>1, <2>5 DEF Splice, Close
  <2>6. QED
    BY <1>3, <1>4, <1>5, <2>1, <2>2, <2>3, <2>4, <2>5 DEF Next, Reconcile, Driving

\* The events: what is reported is about a transaction there is.
LEMMA EventStep ==
    ASSUME TypeOK, EventShape, [Next]_vars
    PROVE  EventShape' /\ events' \in Seq(EventType')
<1>0. /\ ChainTyped /\ ChainMoves /\ Len(amt) \in Nat /\ Len(amt') \in Nat
      /\ Len(amt) <= Len(amt') /\ Len(amt) >= 1 /\ events \in Seq(EventType)
  BY TypeOKParts, ChainStep, AmtFacts DEF ChainMoves, ChainTyped, MemoryTyped
<1>1. /\ Len(events) \in Nat
      /\ \A i \in 1..Len(events) : events[i] \in EventType /\ events[i] \in EventType'
  <2>1. Len(events) \in Nat /\ \A i \in 1..Len(events) : events[i] \in EventType
    BY <1>0, LenProperties, ElementOfSeq
  <2>2. 1..Len(amt) \subseteq 1..Len(amt')
    BY <1>0
  <2>3. EventType \subseteq EventType'
    BY <2>2, Zenon DEF EventType
  <2>4. QED
    BY <2>1, <2>3
<1>2. events \in Seq(EventType')
  BY <1>0, <1>1, LenProperties
<1>3. CASE UNCHANGED events
  <2>1. EventShape'
    BY <1>1, <1>3, <1>0 DEF EventShape, ChainMoves
  <2>2. QED
    BY <1>2, <1>3, <2>1
<1>4. CASE events' = <<>>
  BY <1>4 DEF EventShape
<1>5. CASE events # <<>> /\ events' = Tail(events) /\ UNCHANGED btc
  <2>1. /\ events' \in Seq(EventType') /\ Len(events') = Len(events) - 1
        /\ \A i \in 1..Len(events') : events'[i] = events[i + 1]
    BY <1>2, <1>5, HeadTailProperties
  <2>2. ASSUME NEW i \in 1..Len(events'), events'[i].kind = "closed"
        PROVE  events'[i].tx = Len(amt') /\ fate' # "live"
    <3>1. i + 1 \in 1..Len(events) /\ events'[i] = events[i + 1]
      BY <1>1, <2>1
    <3>2. QED
      BY <1>5, <2>2, <3>1 DEF EventShape, btc
  <2>3. QED
    BY <2>1, <2>2 DEF EventShape
<1>6. ASSUME NEW kind \in {"spliced", "closed"}, NEW k \in 1..Len(amt'), Report(kind, k),
             kind = "closed" => k = Len(amt') /\ fate' # "live", fate = "live"
      PROVE  EventShape' /\ events' \in Seq(EventType')
  <2> DEFINE e == [kind |-> kind, tx |-> k]
  <2>1. e \in EventType' /\ e.kind = kind /\ e.tx = k
    BY DEF EventType
  <2>2. events' = Append(events, e)
    BY <1>6 DEF Report
  <2> HIDE DEF e
  <2>3. /\ events' \in Seq(EventType') /\ Len(events') = Len(events) + 1
        /\ \A i \in 1..Len(events) : events'[i] = events[i]
        /\ events'[Len(events) + 1] = e
    BY <1>2, <2>1, <2>2, AppendProperties
  <2>4. \A i \in 1..Len(events) : events[i].kind # "closed"
    BY <1>6 DEF EventShape
  <2>5. \A i \in 1..Len(events') : i \in 1..Len(events) \/ i = Len(events) + 1
    BY <1>1, <2>3
  <2>6. EventShape'
    BY <1>6, <2>1, <2>3, <2>4, <2>5 DEF EventShape
  <2>7. QED
    BY <2>3, <2>6
<1>7. ASSUME NEW v \in Amounts, Splice(v) PROVE EventShape' /\ events' \in Seq(EventType')
  <2>1. Len(amt') = Len(amt) + 1
    BY <1>0, <1>7, AppendProperties DEF ChainTyped, Splice
  <2>2. Len(amt) + 1 \in 1..Len(amt') /\ Report("spliced", Len(amt) + 1) /\ fate = "live"
    BY <1>0, <1>7, <2>1 DEF Splice, Quiet
  <2>3. QED
    BY <1>6, <2>2
<1>8. ASSUME NEW f \in {"coop", "force"}, Close(f) PROVE EventShape' /\ events' \in Seq(EventType')
  <2>1. /\ locked \in 1..Len(amt') /\ Report("closed", locked) /\ fate = "live"
        /\ locked = Len(amt') /\ fate' # "live"
    BY <1>0, <1>8 DEF Close, Quiet, ChainTyped
  <2>2. QED
    BY <1>6, <2>1
<1>9. QED
  <2>1. CASE BindFunding \/ Lock \/ Bury \/ Reconcile \/ RcBlip \/ UNCHANGED vars
    BY <1>3, <2>1 DEF BindFunding, Lock, Bury, vars, Reconcile, RcBlip, RcStart, RcMonitor,
                      RcState, RcSpend, RcAct
  <2>2. CASE OnReady \/ OnSpliced \/ OnClosed
    BY <1>5, <2>2 DEF OnReady, OnSpliced, OnClosed
  <2>3. CASE Restart
    BY <1>4, <2>3 DEF Restart
  <2>4. CASE \E k \in 1..Len(amt) : PostConsent(k)
    BY <1>3, <2>4 DEF PostConsent
  <2>5. CASE \E d \in drives : DriveSteps(d) \/ DriveFails(d)
    BY <1>3, <2>5 DEF DriveSteps, DriveFails, DriveReads, DriveWaits, SendOpen, SendSplice,
                      SendClose, SendForceClose, ClearInflight
  <2>6. QED
    BY <1>7, <1>8, <2>1, <2>2, <2>3, <2>4, <2>5 DEF Next, Driving

LEMMA MemoryStep ==
    ASSUME TypeOK, RcShape, EventShape, [Next]_vars
    PROVE  MemoryTyped'
<1>0. ChainTyped /\ ChainMoves /\ MemoryTyped /\ Len(amt) \in Nat /\ Len(amt') \in Nat
  BY TypeOKParts, ChainStep, AmtFacts DEF ChainMoves, ChainTyped
<1>1. events' \in Seq(EventType')
  BY EventStep
<1>2. active' \in BOOLEAN
  <2>1. active \in BOOLEAN /\ TRUE \in BOOLEAN /\ FALSE \in BOOLEAN
    BY <1>0, Zenon DEF MemoryTyped
  <2>2. CASE \E d \in drives : End(d)
    BY <2>2, Zenon DEF End
  <2>3. CASE Restart
    BY <2>1, <2>3, Zenon DEF Restart
  <2>4. CASE UNCHANGED active
    BY <2>1, <2>4, Zenon
  <2>5. CASE \E k, tx, ev : SpawnWithSlot(k, tx, ev)
    BY <2>1, <2>5, Zenon DEF SpawnWithSlot
  <2>6. CASE OnReady \/ OnSpliced \/ OnClosed
    BY <2>4, <2>5, <2>6, Zenon DEF OnReady, OnSpliced, OnClosed, SpawnWithoutSlot
  <2>7. CASE \E d \in drives : DriveSteps(d) \/ DriveFails(d)
    BY <2>2, <2>4, <2>7 DEF DriveSteps, DriveFails, DriveReads, DriveWaits, SendOpen, SendSplice,
                            SendClose, SendForceClose, ClearInflight, To
  <2>8. CASE RcSpend \/ RcBlip
    <3>1. PICK b, c : RcAct(b, c)
      BY <2>8, Zenon DEF RcSpend, RcBlip
    <3>2. QED
      BY <2>4, <2>5, <3>1, Zenon DEF RcAct
  <2>9. CASE BindFunding \/ Lock \/ Bury \/ RcStart \/ RcMonitor \/ RcState \/ UNCHANGED vars
    BY <2>4, <2>9 DEF BindFunding, Lock, Bury, RcStart, RcMonitor, RcState, vars
  <2>10. CASE (\E v \in Amounts : Splice(v)) \/ (\E f \in {"coop", "force"} : Close(f))
              \/ (\E k \in 1..Len(amt) : PostConsent(k))
    BY <2>4, <2>10 DEF Splice, Close, PostConsent
  <2>11. QED
    BY <2>3, <2>6, <2>7, <2>8, <2>9, <2>10 DEF Next, Reconcile, Driving
<1>3. /\ bound' \in {"no", "yes", "cleared"} /\ cidmap' \in BOOLEAN
      /\ consent' \subseteq 1..Len(amt') /\ faults' \in 0..MaxFaults
  <2>0. /\ bound \in {"no", "yes", "cleared"} /\ cidmap \in BOOLEAN
        /\ consent \subseteq 1..Len(amt) /\ faults \in 0..MaxFaults /\ 1..Len(amt) \subseteq 1..Len(amt')
    BY <1>0 DEF MemoryTyped, ChainMoves
  <2>1. Fault \/ UNCHANGED faults => faults' \in 0..MaxFaults
    BY <2>0, MirrorAssumption DEF Fault
  <2>2. CASE UNCHANGED <<disk, consent>> /\ (Fault \/ UNCHANGED faults)
    BY <2>0, <2>1, <2>2 DEF disk
  <2>3. CASE OnReady
    <3>1. cidmap' \in BOOLEAN
      BY <2>3, Zenon DEF OnReady
    <3>2. QED
      BY <2>0, <2>3, <3>1 DEF OnReady
  <2>4. ASSUME NEW d \in drives, DriveReads(d)
        PROVE  /\ bound' \in {"no", "yes", "cleared"} /\ cidmap' \in BOOLEAN
               /\ consent' \subseteq 1..Len(amt') /\ faults' \in 0..MaxFaults
    <3>1. cidmap' \in BOOLEAN
      BY <2>4, Zenon DEF DriveReads
    <3>2. QED
      BY <2>0, <2>4, <3>1 DEF DriveReads
  <2>5. CASE \E d \in drives : ClearInflight(d)
    BY <2>0, <2>5 DEF ClearInflight
  <2>6. CASE Restart
    BY <2>0, <2>1, <2>6 DEF Restart, disk
  <2>7. CASE BindFunding
    BY <2>0, <2>7 DEF BindFunding
  <2>8. CASE \E k \in 1..Len(amt) : PostConsent(k)
    BY <2>0, <2>8 DEF PostConsent, disk
  <2>9. CASE OnSpliced \/ OnClosed \/ Lock \/ Bury \/ Reconcile \/ RcBlip \/ UNCHANGED vars
    BY <2>2, <2>9 DEF OnSpliced, OnClosed, Lock, Bury, vars, Reconcile, RcBlip, RcStart, RcMonitor,
                      RcState, RcSpend, RcAct
  <2>10. CASE (\E v \in Amounts : Splice(v)) \/ (\E f \in {"coop", "force"} : Close(f))
    BY <2>2, <2>10 DEF Splice, Close
  <2>11. CASE \E d \in drives : \/ DriveWaits(d) \/ SendOpen(d) \/ SendSplice(d) \/ SendClose(d)
                                \/ SendForceClose(d) \/ DriveFails(d)
    BY <2>2, <2>11 DEF DriveWaits, SendOpen, SendSplice, SendClose, SendForceClose, DriveFails
  <2>12. QED
    BY <2>3, <2>4, <2>5, <2>6, <2>7, <2>8, <2>9, <2>10, <2>11 DEF Next, Driving, DriveSteps
<1>4. QED
  BY <1>1, <1>2, <1>3 DEF MemoryTyped

\* The slot is claimed and dropped with the drive that holds it.
LEMMA SlotStep ==
    ASSUME SlotHeld, active \in BOOLEAN, drives \subseteq DriveType, DrivesMove
    PROVE  SlotHeld'
<1>1. CASE UNCHANGED <<drives, active>>
  BY <1>1, Zenon DEF SlotHeld
<1>2. CASE drives' = {} /\ active' = FALSE
  BY <1>2, Zenon DEF SlotHeld
<1>3. ASSUME NEW d \in drives, End(d) PROVE SlotHeld'
  <2>1. active' <=> active /\ ~d.slot
    BY <1>3, Zenon DEF End
  <2>2. drives' = drives \ {d}
    BY <1>3 DEF End
  <2>3. QED
    BY <2>1, <2>2, Zenon DEF SlotHeld
<1>4. ASSUME NEW d \in drives, NEW pc, To(d, pc) PROVE SlotHeld'
  <2> DEFINE n == [d EXCEPT !.pc = pc]
  <2>1. n.slot = d.slot
    BY DEF DriveType
  <2>2. drives' = (drives \ {d}) \cup {n} /\ active' = active
    BY <1>4 DEF To
  <2> HIDE DEF n
  <2>3. active' <=> \E e \in drives' : e.slot
    BY <2>1, <2>2, Zenon DEF SlotHeld
  <2>4. \A e, f \in drives' : e.slot /\ f.slot => e = f
    BY <2>1, <2>2, Zenon DEF SlotHeld
  <2>5. QED
    BY <2>3, <2>4, Zenon DEF SlotHeld
<1>5. ASSUME NEW n, Enters(n) PROVE SlotHeld'
  <2>1. drives' = drives \cup {n}
    BY <1>5 DEF Enters
  <2>2. CASE n.slot /\ ~active /\ active'
    <3>1. \A d \in drives : ~d.slot
      BY <2>2, Zenon DEF SlotHeld
    <3>2. QED
      BY <2>1, <2>2, <3>1, Zenon DEF SlotHeld
  <2>3. CASE ~n.slot /\ UNCHANGED active
    BY <2>1, <2>3, Zenon DEF SlotHeld
  <2>4. QED
    BY <1>5, <2>2, <2>3, Zenon DEF Enters
<1>6. QED
  BY <1>1, <1>2, <1>3, <1>4, <1>5, Zenon DEF DrivesMove, Advances

\* What the drives have read still holds after a step.
LEMMA DrivesKept ==
    ASSUME TypeOK, RcShape, EventShape, DriveShape, [Next]_vars
    PROVE  drives' \subseteq DriveType' /\ DriveShape'
<1>0. /\ ChainTyped /\ ChainMoves /\ DrivesMove /\ drives \subseteq DriveType
      /\ Len(amt) \in Nat /\ Len(amt') \in Nat /\ locked \in Nat /\ locked' \in Nat
      /\ Txs \in Nat /\ Txs' \in Nat /\ Txs <= Txs'
      /\ Len(amt) <= Len(amt') /\ locked <= locked'
  BY TypeOKParts, ChainStep, DrivesStep, AmtFacts DEF ChainMoves, ChainTyped, Txs
<1>1. DriveType \subseteq DriveType'
  <2>1. 1..Txs \subseteq 1..Txs'
    BY <1>0
  <2>2. QED
    BY <2>1, Zenon DEF DriveType
<1>2. \A d \in drives : d.tx \in Nat
  BY <1>0 DEF DriveType
<1>3. ASSUME drives' \subseteq drives PROVE drives' \subseteq DriveType' /\ DriveShape'
  BY <1>0, <1>1, <1>2, <1>3 DEF DriveShape
<1>4. ASSUME NEW n, n \in DriveType, drives' \subseteq drives \cup {n},
             n.kind \in {"open", "splice"} =>
                n.tx <= Len(amt') /\ (n.pc \in {"wait", "send"} => n.tx <= locked')
      PROVE  drives' \subseteq DriveType' /\ DriveShape'
  BY <1>0, <1>1, <1>2, <1>4 DEF DriveShape
<1>5. ASSUME NEW d \in drives, NEW pc, Advances(d, pc)
      PROVE  drives' \subseteq DriveType' /\ DriveShape'
  <2> DEFINE n == [d EXCEPT !.pc = pc]
  <2>1. n \in DriveType /\ n.kind = d.kind /\ n.tx = d.tx /\ n.pc = pc
    BY <1>0, <1>5 DEF DriveType, Advances
  <2>2. drives' \subseteq drives \cup {n}
    BY <1>5 DEF Advances, To
  <2> HIDE DEF n
  <2>3. d.kind \in {"open", "splice"} => d.tx <= Len(amt')
    BY <1>0, <1>2 DEF DriveShape
  <2>4. CASE pc = "wait"
    <3>1. d.kind = "open" => HasKeys(d.tx)
      BY <1>5, <2>4 DEF Advances, GoesOn
    <3>2. d.kind = "splice" => HasKeys(d.tx)
      BY <1>5, <2>4 DEF Advances, GoesOn
    <3>3. d.kind \in {"open", "splice"} => d.tx <= locked'
      BY <1>0, <1>2, <3>1, <3>2 DEF HasKeys
    <3>4. QED
      BY <1>4, <2>1, <2>2, <2>3, <3>3
  <2>5. CASE pc = "send"
    <3>1. d.kind \in {"open", "splice"} => d.tx <= locked'
      BY <1>0, <1>2, <1>5, <2>5 DEF DriveShape, Advances
    <3>2. QED
      BY <1>4, <2>1, <2>2, <2>3, <3>1
  <2>6. CASE pc \notin {"wait", "send"}
    BY <1>4, <2>1, <2>2, <2>3, <2>6
  <2>7. QED
    BY <2>4, <2>5, <2>6
<1>6. ASSUME NEW n, Enters(n) PROVE drives' \subseteq DriveType' /\ DriveShape'
  BY <1>0, <1>4, <1>6 DEF Enters, Unread, btc
<1>7. CASE \E d \in drives : End(d)
  BY <1>3, <1>7 DEF End
<1>8. CASE UNCHANGED <<drives, active>> \/ drives' = {}
  BY <1>3, <1>8
<1>9. QED
  BY <1>0, <1>5, <1>6, <1>7, <1>8 DEF DrivesMove

-----------------------------------------------------------------------------
(* The theorems. *)

LEMMA Initially == Init => MirrorInv
<1> SUFFICES ASSUME Init PROVE MirrorInv
  OBVIOUS
<1>1. amt \in Seq(Amounts) /\ Len(amt) = 1
  BY MirrorAssumption DEF Init
<1>2. Txs = 1
  BY <1>1 DEF Txs, Init
<1>3. ChainTyped /\ RecordTyped
  <2>1. ChainTyped
    BY <1>1, <1>2, MirrorAssumption DEF Init, ChainTyped
  <2>2. rec \in RecType
    BY MirrorAssumption DEF Init, RecType
  <2>3. claim \in BOOLEAN
    BY Zenon DEF Init
  <2>4. QED
    BY <2>1, <2>2, <2>3 DEF RecordTyped
<1>4. MemoryTyped
  <2>1. cidmap \in BOOLEAN /\ active \in BOOLEAN
    BY Zenon DEF Init
  <2>2. /\ bound \in {"no", "yes", "cleared"} /\ consent \subseteq 1..Len(amt) /\ faults \in 0..MaxFaults
    BY <1>1, MirrorAssumption DEF Init
  <2>3. events \in Seq(EventType)
    BY <1>1 DEF Init, EventType
  <2>4. QED
    BY <2>1, <2>2, <2>3, Zenon DEF MemoryTyped
<1>5. RcTyped
  BY MirrorAssumption DEF Init, RcTyped, Idle
<1>6. TypeOK
  BY <1>3, <1>4, <1>5, TypeOKParts DEF Init
<1>7. EventShape /\ RcShape /\ SlotHeld /\ DriveShape /\ RecordBehind
  <2>1. EventShape /\ RcShape /\ DriveShape
    BY DEF Init, EventShape, RcShape, DriveShape, Idle
  <2>2. SlotHeld
    BY Zenon DEF Init, SlotHeld
  <2>3. RecordBehind
    BY DEF Init, RecordBehind, RecordNeverAhead
  <2>4. QED
    BY <2>1, <2>2, <2>3
<1>8. QED
  BY <1>6, <1>7 DEF MirrorInv

LEMMA MirrorStep == MirrorInv /\ [Next]_vars => MirrorInv' /\ RecordMoves
<1> SUFFICES ASSUME MirrorInv, [Next]_vars PROVE MirrorInv' /\ RecordMoves
  OBVIOUS
<1>1. TypeOK /\ EventShape /\ RcShape /\ SlotHeld /\ DriveShape /\ RecordBehind
  BY DEF MirrorInv
<1>2. ChainTyped'
  BY <1>1, ChainStep DEF ChainMoves
<1>3. RecordTyped' /\ RecordBehind' /\ RecordMoves
  BY <1>1, RecordStep
<1>4. RcTyped' /\ RcShape' /\ EventShape' /\ MemoryTyped'
  BY <1>1, RcStep, EventStep, MemoryStep
<1>5. drives' \subseteq DriveType' /\ SlotHeld' /\ DriveShape'
  <2>1. active \in BOOLEAN /\ drives \subseteq DriveType /\ DrivesMove
    BY <1>1, TypeOKParts, DrivesStep DEF MemoryTyped
  <2>2. SlotHeld'
    BY <1>1, <2>1, SlotStep
  <2>3. QED
    BY <1>1, <2>2, DrivesKept
<1>6. TypeOK'
  BY <1>2, <1>3, <1>4, <1>5
     DEF TypeOK, ChainTyped, RecordTyped, MemoryTyped, RcTyped, DriveType, EventType
<1>7. QED
  BY <1>3, <1>4, <1>5, <1>6 DEF MirrorInv

\* The inductive invariant of the mirror, for every interleaving of the event
\* driver, the reconciler, their drives, Bitcoin, LDK, the LP and restarts.
THEOREM MirrorCorrect == Spec => []MirrorInv
  BY Initially, MirrorStep, PTL DEF Spec

\* Every drive, event and pass is about a transaction of the channel.
THEOREM MirrorTypeCorrect == Spec => []TypeOK
<1>1. MirrorInv => TypeOK
  BY DEF MirrorInv
<1>2. QED
  BY <1>1, MirrorCorrect, PTL

\* The EVM record is never ahead of the channel: it is moved only to an outpoint
\* LDK has locked and the gateway has buried, and retired only by the buried
\* commitment that closed the channel, although the reconciler decides on three
\* reads with a splice, a lock or a close possible between any two of them.
THEOREM RecordNeverAheadHolds == Spec => []RecordNeverAhead
<1>1. MirrorInv => RecordNeverAhead
  BY DEF MirrorInv, RecordBehind
<1>2. QED
  BY <1>1, MirrorCorrect, PTL

\* A claimed slot is held by a drive in flight, whatever fails or restarts: no
\* drive leaks it and so locks both loops out of the channel.
THEOREM SlotNeverLeaks == Spec => [](active => \E d \in drives : d.slot)
<1>1. MirrorInv => (active => \E d \in drives : d.slot)
  BY Zenon DEF MirrorInv, SlotHeld
<1>2. QED
  BY <1>1, MirrorCorrect, PTL

\* The EVM record follows the channel one funding transaction at a time: it is
\* never opened over an existing record, no splice is skipped or applied twice,
\* and nothing changes a closed one, although a drive writes on the strength of
\* a record it read before its wait for the gateway.
THEOREM RecordFollowsChannel == Spec => [][RecordMoves]_vars
  BY Initially, MirrorStep, PTL DEF Spec

\* Every step is a step of the ledger of channels, or none.
LEMMA LedgerStep ==
    ASSUME MirrorInv, MirrorInv', RecordMoves
    PROVE  Ledger!Next \/ UNCHANGED Ledger!vars
<1>1. /\ rec \in RecType /\ rec' \in RecType /\ MaxTxs \in Nat
      /\ rec.at = 0 <=> rec.st = "none"
      /\ rec'.at = 0 <=> rec'.st = "none"
  BY MirrorAssumption DEF MirrorInv, TypeOK, RecordBehind
<1>2. /\ rec.at \in Nat /\ rec'.at \in 0..MaxTxs /\ rec'.at \in Nat
      /\ rec.st \in {"none", "open", "closed"} /\ rec'.st \in {"none", "open", "closed"}
      /\ rec = [at |-> rec.at, st |-> rec.st] /\ rec' = [at |-> rec'.at, st |-> rec'.st]
  BY <1>1 DEF RecType
<1>3. CASE rec'.at # rec.at
  <2>1. rec'.at = rec.at + 1 /\ rec'.st = "open" /\ rec.st # "closed"
    BY <1>2, <1>3 DEF RecordMoves
  <2>2. rec'.at \in 1..MaxTxs /\ rec'.at \notin 1..rec.at
        /\ 1..rec'.at = (1..rec.at) \cup {rec'.at}
    BY <1>2, <2>1
  <2>3. <<rec'.at>> = [<<rec.at>> EXCEPT ![1] = rec'.at]
    OBVIOUS
  <2>4. Ledger!Place(1, rec'.at)
    BY <2>2, <2>3 DEF Ledger!Place
  <2>5. CASE rec.st = "none"
    <3>1. <<rec'.st>> = [<<rec.st>> EXCEPT ![1] = "open"] /\ <<rec.st>>[1] = "none"
      BY <2>1, <2>5
    <3>2. Ledger!Open(1, rec'.at)
      BY <2>4, <3>1 DEF Ledger!Open
    <3>3. QED
      BY <2>2, <3>2 DEF Ledger!Next
  <2>6. CASE rec.st = "open"
    <3>1. Ledger!Move(1, rec'.at)
      BY <2>1, <2>4, <2>6 DEF Ledger!Move
    <3>2. QED
      BY <2>2, <3>1 DEF Ledger!Next
  <2>7. QED
    BY <1>2, <2>1, <2>5, <2>6
<1>4. CASE rec'.at = rec.at /\ rec'.st # rec.st
  <2>1. rec.st = "open" /\ rec'.st = "closed"
    BY <1>1, <1>2, <1>4 DEF RecordMoves
  <2>2. <<rec'.st>> = [<<rec.st>> EXCEPT ![1] = "closed"] /\ <<rec.st>>[1] = "open"
    BY <2>1
  <2>3. Ledger!Close(1)
    BY <1>4, <2>2 DEF Ledger!Close
  <2>4. QED
    BY <2>3 DEF Ledger!Next
<1>5. CASE rec'.at = rec.at /\ rec'.st = rec.st
  BY <1>5 DEF Ledger!vars
<1>6. QED
  BY <1>3, <1>4, <1>5

\* The record the drives write is a channel of the ledger BTCChannels
\* implements: no interleaving of the two loops opens it twice, moves it onto an
\* outpoint it had, or touches it once closed.
THEOREM MirrorKeepsLedger == Spec => KeepsLedger
<1>1. Init => Ledger!Init
  <2> SUFFICES ASSUME Init PROVE Ledger!Init
    OBVIOUS
  <2>1. rec.at = 0 /\ rec.st = "none" /\ 1..rec.at = {}
    BY DEF Init
  <2>2. <<rec.st>> = [c \in {1} |-> "none"] /\ <<rec.at>> = [c \in {1} |-> 0]
    BY <2>1
  <2>3. QED
    BY <2>1, <2>2 DEF Ledger!Init
<1>2. MirrorInv /\ MirrorInv' /\ RecordMoves => [Ledger!Next]_(Ledger!vars)
  BY LedgerStep
<1>3. QED
  BY <1>1, <1>2, MirrorCorrect, MirrorStep, PTL DEF Spec, KeepsLedger, Ledger!Spec
=============================================================================
