-------------------------- MODULE Freshness_proofs --------------------------
(***************************************************************************)
(* What the anti-rollback guard promises, for every set of blobs and every *)
(* value of the bounds: the chain is never ahead of the disk, the versions *)
(* written never run further ahead of the chain than the window, and a     *)
(* boot from an older disk image misses no more than that.                 *)
(***************************************************************************)
EXTENDS Freshness, Integers, TLAPS

Counters == [Blob -> 0..MaxSeq]

\* TypeOK, variable by variable.
Typed ==
    /\ disk \in Counters /\ chain \in Counters /\ settled \in Counters
    /\ seq \in Counters /\ cache \in Counters /\ queued \in Counters
    /\ batch \in Counters /\ confirmed \in Counters /\ top \in Counters
    /\ up \in BOOLEAN /\ ending \in BOOLEAN /\ writing \subseteq Blob /\ frozen \subseteq Blob
    /\ boots \in 0..MaxBoots /\ fails \in 0..MaxFails /\ restores \in 0..MaxRestores

\* A process that is down has nothing in memory.
DownIsEmpty ==
    ~up => /\ seq = None /\ cache = None /\ queued = None /\ batch = None
           /\ confirmed = None /\ writing = {} /\ frozen = {} /\ ~ending

\* The two forms of the type invariant say the same.
LEMMA TypeOKIsTyped == TypeOK <=> Typed /\ DownIsEmpty
  BY DEF TypeOK, Typed, DownIsEmpty, Counters

\* The empty counter map is one of the counter maps.
LEMMA NoneIsCounter == None \in Counters
  BY FreshnessAssumption DEF None, Counters

-----------------------------------------------------------------------------
(* Types. *)

\* Every step of the process, the committer and the host keeps the types.
LEMMA TypedStep == Typed /\ DownIsEmpty /\ [Next]_vars => Typed' /\ DownIsEmpty'
<1> SUFFICES ASSUME Typed, DownIsEmpty, [Next]_vars
             PROVE  Typed' /\ DownIsEmpty'
  OBVIOUS
<1> USE FreshnessAssumption, NoneIsCounter
<1>1. ASSUME NEW b \in Blob, Write(b) PROVE Typed' /\ DownIsEmpty'
  BY <1>1 DEF Typed, DownIsEmpty, Counters, Write, Updates, OnDisk, Highest
<1>2. ASSUME NEW b \in Blob, WriteFails(b) PROVE Typed' /\ DownIsEmpty'
  BY <1>2 DEF Typed, DownIsEmpty, Counters, WriteFails, Updates, durable
<1>3. ASSUME NEW b \in Blob, Commit(b) PROVE Typed' /\ DownIsEmpty'
  BY <1>3 DEF Typed, DownIsEmpty, Counters, Commit, Store, Highest, durable
<1>4. ASSUME NEW b \in Blob, CommitMined(b) PROVE Typed' /\ DownIsEmpty'
  BY <1>4 DEF Typed, DownIsEmpty, Counters, CommitMined, Highest, None
<1>5. ASSUME NEW b \in Blob, CommitErrs(b) PROVE Typed' /\ DownIsEmpty'
  BY <1>5 DEF Typed, DownIsEmpty, Counters, CommitErrs, None
<1>6. ASSUME NEW b \in Blob, Restore(b) PROVE Typed' /\ DownIsEmpty'
  BY <1>6 DEF Typed, DownIsEmpty, Counters, Restore, process
<1>7. CASE FinalPersist
  BY <1>7 DEF Typed, DownIsEmpty, Counters, FinalPersist, OnDisk, Highest
<1>8. CASE Drain
  BY <1>8 DEF Typed, DownIsEmpty, Drain, durable
<1>9. CASE Settle
  BY <1>9 DEF Typed, DownIsEmpty, Settle, process
<1>10. CASE Stop
  BY <1>10 DEF Typed, DownIsEmpty, Counters, Stop, Lose
<1>11. CASE Boot
  BY <1>11 DEF Typed, DownIsEmpty, Counters, Boot, Anchored, durable
<1>12. CASE UNCHANGED vars
  BY <1>12 DEF Typed, DownIsEmpty, vars, durable, process
<1> QED
  BY <1>1, <1>2, <1>3, <1>4, <1>5, <1>6, <1>7, <1>8, <1>9, <1>10, <1>11, <1>12 DEF Next

\* The state before the first boot is typed, and its process empty.
LEMMA TypedInitially == Init => Typed /\ DownIsEmpty
<1> SUFFICES ASSUME Init PROVE Typed /\ DownIsEmpty
  OBVIOUS
<1>1. /\ disk \in Counters /\ chain \in Counters /\ settled \in Counters
      /\ seq \in Counters /\ cache \in Counters /\ queued \in Counters
      /\ batch \in Counters /\ confirmed \in Counters /\ top \in Counters
  BY NoneIsCounter DEF Init
<1>2. up \in BOOLEAN /\ ending \in BOOLEAN /\ ~ending
  BY Zenon DEF Init
<1>3. /\ writing \subseteq Blob /\ frozen \subseteq Blob
      /\ boots \in 0..MaxBoots /\ fails \in 0..MaxFails /\ restores \in 0..MaxRestores
  BY FreshnessAssumption DEF Init
<1>4. /\ seq = None /\ cache = None /\ queued = None /\ batch = None
      /\ confirmed = None /\ writing = {} /\ frozen = {}
  BY DEF Init
<1> QED
  BY <1>1, <1>2, <1>3, <1>4, Zenon DEF Typed, DownIsEmpty

\* Before the first boot nothing is written, queued or committed.
LEMMA ZeroInitially ==
  ASSUME Init, NEW b \in Blob
  PROVE  /\ disk[b] = 0 /\ chain[b] = 0 /\ settled[b] = 0 /\ seq[b] = 0 /\ cache[b] = 0
         /\ queued[b] = 0 /\ batch[b] = 0 /\ confirmed[b] = 0 /\ top[b] = 0
         /\ writing = {} /\ boots = 0 /\ ~up
<1>1. None[b] = 0
  BY DEF None
<1>2. ~up
  BY Zenon DEF Init
<1> QED
  BY <1>1, <1>2 DEF Init

\* TypeOK holds in every state: all counters are within the bound, and a
\* stopped process keeps nothing in memory.
THEOREM TypeCorrect == Spec => []TypeOK
  BY TypedInitially, TypedStep, TypeOKIsTyped, PTL DEF Spec

-----------------------------------------------------------------------------
(* The chain is never ahead of the disk. *)

\* Every number on its way to the chain is one that was written.
WrittenFirst ==
    \A b \in Blob :
        /\ settled[b] <= chain[b] /\ chain[b] <= top[b]
        /\ disk[b] <= top[b] /\ queued[b] <= top[b] /\ batch[b] <= top[b]
        /\ b \in writing => seq[b] <= top[b]

\* No step commits, queues or reads back a number that was not written.
LEMMA WrittenFirstStep ==
    Typed /\ DownIsEmpty /\ WrittenFirst /\ [Next]_vars => WrittenFirst'
<1> SUFFICES ASSUME Typed, DownIsEmpty, WrittenFirst, [Next]_vars
             PROVE  WrittenFirst'
  OBVIOUS
<1> USE FreshnessAssumption
<1>1. ASSUME NEW b \in Blob, Write(b) PROVE WrittenFirst'
  BY <1>1 DEF Typed, Counters, WrittenFirst, Write, Updates, OnDisk, Highest
<1>2. ASSUME NEW b \in Blob, WriteFails(b) PROVE WrittenFirst'
  BY <1>2 DEF Typed, Counters, WrittenFirst, WriteFails, Updates, durable
<1>3. ASSUME NEW b \in Blob, Commit(b) PROVE WrittenFirst'
  BY <1>3 DEF Typed, Counters, WrittenFirst, Commit, Store, Highest, durable
<1>4. ASSUME NEW b \in Blob, CommitMined(b) PROVE WrittenFirst'
  BY <1>4 DEF Typed, Counters, WrittenFirst, CommitMined, CommitFreshness
<1>5. ASSUME NEW b \in Blob, CommitErrs(b) PROVE WrittenFirst'
  BY <1>5 DEF Typed, Counters, WrittenFirst, CommitErrs, CommitFreshness
<1>6. ASSUME NEW b \in Blob, Restore(b) PROVE WrittenFirst'
  BY <1>6 DEF Typed, Counters, WrittenFirst, Restore, process
<1>7. CASE FinalPersist
  BY <1>7 DEF Typed, Counters, WrittenFirst, FinalPersist, OnDisk, Highest
<1>8. CASE Drain
  BY <1>8 DEF Typed, Counters, WrittenFirst, Drain, durable, None
<1>9. CASE Settle
  BY <1>9 DEF Typed, Counters, WrittenFirst, Settle, process
<1>10. CASE Stop
  BY <1>10 DEF Typed, Counters, WrittenFirst, Stop, Lose, None, CommitFreshness
<1>11. CASE Boot
  BY <1>11 DEF Typed, DownIsEmpty, Counters, WrittenFirst, Boot, durable
<1>12. CASE UNCHANGED vars
  BY <1>12 DEF WrittenFirst, vars, durable, process
<1> QED
  BY <1>1, <1>2, <1>3, <1>4, <1>5, <1>6, <1>7, <1>8, <1>9, <1>10, <1>11, <1>12 DEF Next

\* Before the first boot there is nothing to attest.
LEMMA WrittenFirstInitially == Init => WrittenFirst
<1> SUFFICES ASSUME Init, NEW b \in Blob
             PROVE  /\ settled[b] <= chain[b] /\ chain[b] <= top[b]
                    /\ disk[b] <= top[b] /\ queued[b] <= top[b] /\ batch[b] <= top[b]
                    /\ b \in writing => seq[b] <= top[b]
  BY DEF WrittenFirst
<1>1. /\ settled[b] = 0 /\ chain[b] = 0 /\ top[b] = 0 /\ disk[b] = 0
      /\ queued[b] = 0 /\ batch[b] = 0 /\ writing = {}
  BY ZeroInitially
<1> QED
  BY <1>1

\* AnchorNeverAheadOfDisk holds in every state: write_monitor and
\* persist_manager have a version on disk before anything can commit it.
THEOREM AnchorSound == Spec => []AnchorNeverAheadOfDisk
<1>1. WrittenFirst => AnchorNeverAheadOfDisk
  BY DEF WrittenFirst, AnchorNeverAheadOfDisk
<1> QED
  BY <1>1, WrittenFirstInitially, TypedInitially, TypedStep, WrittenFirstStep, PTL DEF Spec

-----------------------------------------------------------------------------
(* The window between disk and chain. *)

\* How far a version may be ahead of the chain when the run in progress starts.
Reach(b) == chain[b] + MaxLag + Refused(b) * (boots - 1)

\* No more of the manager is written once the background processor has ended.
MayWrite(b) == b = Manager => ~ending

\* A blob that may be written again is within Reach; one that is being
\* committed, or is frozen, is at most one ahead of it.
Within(b) ==
    /\ top[b] <= chain[b] + MaxLag + Refused(b) * boots
    /\ confirmed[b] <= chain[b]
    /\ cache[b] <= seq[b]
    /\ b \in writing => cache[b] < seq[b]
    /\ up /\ MayWrite(b) => seq[b] <= Reach(b) + 1
    /\ up /\ MayWrite(b) /\ b \notin writing /\ b \notin frozen => seq[b] <= Reach(b)

WindowInv ==
    /\ WrittenFirst
    /\ up => boots > 0
    /\ \A b \in Blob : Within(b)

\* Refused(b) * n, without a product of two variables.
LEMMA RefusedTimes ==
  ASSUME NEW b, NEW n \in Int
  PROVE  Refused(b) * n = IF b = Manager THEN n + n ELSE n
<1>1. CASE b = Manager
  BY <1>1 DEF Refused
<1>2. CASE b # Manager
  BY <1>2 DEF Refused
<1> QED
  BY <1>1, <1>2

\* Every step keeps the window: a boot spends one more share of it, a write is
\* allowed by the last store, and only a commit moves the chain.
LEMMA WindowStep == Typed /\ DownIsEmpty /\ WindowInv /\ [Next]_vars => WindowInv'
<1> SUFFICES ASSUME Typed, DownIsEmpty, WindowInv, [Next]_vars
             PROVE  WindowInv'
  OBVIOUS
<1>w. WrittenFirst'
  BY WrittenFirstStep DEF WindowInv
<1> SUFFICES ASSUME NEW c \in Blob
             PROVE  (up => boots > 0)' /\ Within(c)'
  BY <1>w, FreshnessAssumption, Zenon DEF WindowInv
<1>n. /\ boots \in Int /\ boots - 1 \in Int /\ boots' \in Int /\ boots' - 1 \in Int
  BY TypedStep, FreshnessAssumption DEF Typed
<1>r. /\ Refused(c) * boots = IF c = Manager THEN boots + boots ELSE boots
      /\ Refused(c) * (boots - 1) =
            IF c = Manager THEN (boots - 1) + (boots - 1) ELSE boots - 1
      /\ Refused(c) * boots' = IF c = Manager THEN boots' + boots' ELSE boots'
      /\ Refused(c) * (boots' - 1) =
            IF c = Manager THEN (boots' - 1) + (boots' - 1) ELSE boots' - 1
  BY <1>n, RefusedTimes
<1>i. (up => boots > 0) /\ Within(c)
  BY DEF WindowInv
<1> USE FreshnessAssumption, <1>i, <1>r
<1>1. ASSUME NEW b \in Blob, Write(b) PROVE (up => boots > 0)' /\ Within(c)'
  BY <1>1 DEF Typed, Counters, Within, MayWrite, Reach, Write, Updates, OnDisk, Highest
<1>2. ASSUME NEW b \in Blob, WriteFails(b) PROVE (up => boots > 0)' /\ Within(c)'
  BY <1>2 DEF Typed, Counters, Within, MayWrite, Reach, WriteFails, Updates, durable
<1>3. ASSUME NEW b \in Blob, Commit(b) PROVE (up => boots > 0)' /\ Within(c)'
  BY <1>3 DEF Typed, Counters, Within, MayWrite, Reach, Commit, Store, LagExceedsBound,
              Highest, durable
<1>4. ASSUME NEW b \in Blob, CommitMined(b) PROVE (up => boots > 0)' /\ Within(c)'
  BY <1>4 DEF Typed, Counters, Within, MayWrite, Reach, CommitMined, CommitFreshness,
              Highest
<1>5. ASSUME NEW b \in Blob, CommitErrs(b) PROVE (up => boots > 0)' /\ Within(c)'
  BY <1>5 DEF Typed, Counters, Within, MayWrite, Reach, CommitErrs, CommitFreshness
<1>6. ASSUME NEW b \in Blob, Restore(b) PROVE (up => boots > 0)' /\ Within(c)'
  BY <1>6 DEF Within, MayWrite, Reach, Restore, process
<1>7. CASE FinalPersist
  BY <1>7 DEF Typed, Counters, Within, MayWrite, Reach, FinalPersist, OnDisk, Highest
<1>8. CASE Drain
  BY <1>8 DEF Within, MayWrite, Reach, Drain, durable
<1>9. CASE Settle
  BY <1>9 DEF Within, MayWrite, Reach, Settle, process
<1>10. CASE Stop
  BY <1>10 DEF Typed, Counters, Within, MayWrite, Reach, Stop, Lose, None, CommitFreshness
<1>11. CASE Boot
  BY <1>11 DEF Typed, DownIsEmpty, Counters, WindowInv, WrittenFirst, Within, MayWrite,
               Reach, Boot, Fresh, Anchored, None, durable
<1>12. CASE UNCHANGED vars
  BY <1>12 DEF Within, MayWrite, Reach, vars, durable, process
<1> QED
  BY <1>1, <1>2, <1>3, <1>4, <1>5, <1>6, <1>7, <1>8, <1>9, <1>10, <1>11, <1>12 DEF Next

\* Before the first boot the window is empty.
LEMMA WindowInitially == Init => Typed /\ DownIsEmpty /\ WindowInv
<1> SUFFICES ASSUME Init PROVE Typed /\ DownIsEmpty /\ WindowInv
  OBVIOUS
<1>1. WrittenFirst
  BY WrittenFirstInitially
<1>2. ASSUME NEW b \in Blob PROVE Within(b) /\ ~up
  BY ZeroInitially, FreshnessAssumption DEF Within, Refused
<1>3. ~up
  BY FreshnessAssumption, <1>2
<1> QED
  BY <1>1, <1>2, <1>3, TypedInitially DEF WindowInv

\* WindowBounded holds in every state: commits may be lost and the process may
\* stop anywhere, and the versions on disk still outrun the chain by no more
\* than MAX_UNCONFIRMED_LAG and the versions each boot can add.
THEOREM WindowHolds == Spec => []WindowBounded
<1>1. WindowInv => WindowBounded
  BY DEF WindowInv, Within, WindowBounded
<1> QED
  BY <1>1, WindowInitially, TypedStep, WindowStep, PTL DEF Spec

\* RollbackBounded holds of every step: an older disk image that verify lets
\* boot misses no more than the window and the unsettled part of the chain.
THEOREM RollbackHolds == Spec => RollbackBounded
<1> DEFINE Misses ==
      \A b \in Blob : Boot /\ disk[b] > 0 =>
          top[b] <= seq'[b] + MaxLag + Refused(b) * boots + (chain[b] - settled[b])
<1>1. Typed /\ WindowInv => Misses
  <2> SUFFICES ASSUME Typed, WindowInv, NEW b \in Blob, Boot, disk[b] > 0
               PROVE  top[b] <= seq'[b] + MaxLag + Refused(b) * boots
                                  + (chain[b] - settled[b])
    OBVIOUS
  <2>1. top[b] <= chain[b] + MaxLag + Refused(b) * boots
    BY DEF WindowInv, Within
  <2>2. seq'[b] >= settled[b] /\ settled[b] <= chain[b]
    BY DEF Boot, Fresh, Anchored, WindowInv, WrittenFirst
  <2>3. boots \in Int /\ Refused(b) * boots \in Int
    BY FreshnessAssumption DEF Typed, Refused
  <2> QED
    BY <2>1, <2>2, <2>3, FreshnessAssumption DEF Typed, Counters, Boot
<1> QED
  BY <1>1, WindowInitially, TypedStep, WindowStep, PTL DEF Spec, RollbackBounded
=============================================================================
