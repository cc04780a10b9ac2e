------------------------------ MODULE Freshness ------------------------------
(***************************************************************************)
(* The anti-rollback guard of the hop's channel state: every blob (a       *)
(* channel monitor, or the channel manager) is written to disk under a     *)
(* rising sequence number that is then committed to BTCChannels, and a     *)
(* boot refuses a blob that is behind the commitment.                      *)
(*   quid-hop/src/persister.rs        write_monitor, persist_manager       *)
(*   quid-hop/src/freshness.rs        LedgerFreshnessAnchor, verify        *)
(*   quid-bridge/src/freshness_ledger.rs  QueuedFreshnessLedger and its    *)
(*                                    committer thread                     *)
(*   quid-hop/src/node.rs             the checks at boot                   *)
(*   quid-ln/src/background_processor.rs  the manager's last persist       *)
(*   evm/src/BTCChannels.sol          commitFreshness                      *)
(* Commits are asynchronous: the persister queues them, the committer      *)
(* coalesces and sends them, and the process may stop anywhere in between. *)
(***************************************************************************)
EXTENDS Naturals

CONSTANTS
    Blob,         \* the channel monitors, and the channel manager
    Manager,      \* MANAGER_FRESHNESS_KEY
    MaxLag,       \* MAX_UNCONFIRMED_LAG
    MaxJump,      \* MAX_FRESHNESS_JUMP
    MaxSeq,       \* bound: updates of one blob
    MaxBoots,     \* bound: boots of the process
    MaxFails,     \* bound: disk writes and commits that fail
    MaxRestores   \* bound: blobs put back to an older version while down

ASSUME FreshnessAssumption ==
    /\ Manager \in Blob
    /\ MaxLag \in Nat /\ MaxJump \in Nat /\ MaxSeq \in Nat /\ MaxBoots \in Nat
    /\ MaxFails \in Nat /\ MaxRestores \in Nat

VARIABLES
    \* durable
    disk,       \* blob -> sequence number of the version on disk, 0: none
    chain,      \* blob -> freshnessSeq on chain
    settled,    \* blob -> freshnessSeq at the depth eth_read_agreed reads
    \* the process
    up,
    seq,        \* blob -> its update id in memory
    cache,      \* LedgerFreshnessAnchor.cache
    writing,    \* blobs written and not yet committed
    queued,     \* blob -> highest number in the committer's channel, 0: none
    batch,      \* blob -> number the committer is about to send, 0: none
    confirmed,  \* QueuedFreshnessLedger.confirmed
    frozen,     \* blobs whose persist failed: shutdown is signalled
    ending,     \* the background processor has left its loop
    \* history and bounds
    top,        \* blob -> highest number ever written
    boots, fails, restores

durable == <<disk, chain, settled>>
process == <<up, seq, cache, writing, queued, batch, confirmed, frozen, ending>>
vars == <<durable, process, top, boots, fails, restores>>

None == [b \in Blob |-> 0]
Highest(a, b) == IF a < b THEN b ELSE a

-----------------------------------------------------------------------------
(* The persister, called by LDK on every update. *)

\* b has an update to persist: not a channel that froze, nor the manager once
\* the loop that persists it has ended.
Updates(b) ==
    /\ up /\ b \notin writing /\ b \notin frozen /\ seq[b] < MaxSeq
    /\ b = Manager => ~ending
    /\ seq' = [seq EXCEPT ![b] = @ + 1]

\* Mutant: the write is left to a background task.
OnDiskLater(b) ==
    /\ writing' = writing \cup {b}
    /\ UNCHANGED <<disk, top>>

\* The blob is on disk before it is committed.
OnDisk(b) ==
    /\ disk' = [disk EXCEPT ![b] = seq[b] + 1]
    /\ top' = [top EXCEPT ![b] = Highest(@, seq[b] + 1)]
    /\ writing' = writing \cup {b}

\* write_monitor, persist_manager.
Write(b) ==
    /\ Updates(b)
    /\ OnDisk(b)
    /\ UNCHANGED <<chain, settled, up, cache, queued, batch, confirmed, frozen, ending,
                   boots, fails, restores>>

\* All attempts to write fail: the channel freezes and shutdown is signalled.
WriteFails(b) ==
    /\ Updates(b) /\ fails < MaxFails
    /\ fails' = fails + 1
    /\ frozen' = frozen \cup {b}
    /\ UNCHANGED <<durable, up, cache, writing, queued, batch, confirmed, ending, top,
                   boots, restores>>

\* The background processor leaves its loop, on a failed persist or a shutdown,
\* and persists the manager one last time, whatever froze before.
FinalPersist ==
    /\ up /\ ~ending /\ Manager \notin writing /\ seq[Manager] < MaxSeq
    /\ ending' = TRUE
    /\ seq' = [seq EXCEPT ![Manager] = @ + 1]
    /\ OnDisk(Manager)
    /\ UNCHANGED <<chain, settled, up, cache, queued, batch, confirmed, frozen,
                   boots, fails, restores>>

\* Mutant: the lag is measured from what was handed to the committer.
LagBehindCache(b) == seq[b] > cache[b] + MaxLag

\* lag_exceeds_bound, against what this process has seen confirmed.
LagExceedsBound(b) == seq[b] > confirmed[b] + MaxLag

\* QueuedFreshnessLedger.store: a number too far ahead of the confirmed one is
\* refused, and the refusal freezes the channel.
Store(b) ==
    IF LagExceedsBound(b)
    THEN frozen' = frozen \cup {b} /\ UNCHANGED queued
    ELSE queued' = [queued EXCEPT ![b] = Highest(@, seq[b])] /\ UNCHANGED frozen

\* LedgerFreshnessAnchor.commit: the cache advances first, and stays advanced.
Commit(b) ==
    /\ b \in writing
    /\ cache' = [cache EXCEPT ![b] = Highest(@, seq[b])]
    /\ IF seq[b] > cache[b] THEN Store(b) ELSE UNCHANGED <<frozen, queued>>
    /\ writing' = writing \ {b}
    /\ UNCHANGED <<durable, up, seq, batch, confirmed, ending, top, boots, fails, restores>>

-----------------------------------------------------------------------------
(* The committer thread and the contract. *)

\* The channel is drained, the highest number per blob kept.
Drain ==
    /\ up /\ batch = None /\ queued # None
    /\ batch' = queued
    /\ queued' = None
    /\ UNCHANGED <<durable, up, seq, cache, writing, confirmed, frozen, ending, top,
                   boots, fails, restores>>

\* commitFreshness accepts n for b.
CommitFreshness(b, n) == n > chain[b] /\ n - chain[b] <= MaxJump

\* The transaction is mined: accepted and confirmed, or reverted and logged.
CommitMined(b) ==
    /\ batch[b] > 0
    /\ IF CommitFreshness(b, batch[b])
       THEN /\ chain' = [chain EXCEPT ![b] = batch[b]]
            /\ confirmed' = [confirmed EXCEPT ![b] = Highest(@, batch[b])]
       ELSE UNCHANGED <<chain, confirmed>>
    /\ batch' = [batch EXCEPT ![b] = 0]
    /\ UNCHANGED <<disk, settled, up, seq, cache, writing, queued, frozen, ending,
                   top, boots, fails, restores>>

\* The call errs: logged, and not retried.  It may have been mined all the same.
CommitErrs(b) ==
    /\ batch[b] > 0 /\ fails < MaxFails
    /\ fails' = fails + 1
    /\ \/ UNCHANGED chain
       \/ CommitFreshness(b, batch[b]) /\ chain' = [chain EXCEPT ![b] = batch[b]]
    /\ batch' = [batch EXCEPT ![b] = 0]
    /\ UNCHANGED <<disk, settled, up, seq, cache, writing, queued, confirmed, frozen,
                   ending, top, boots, restores>>

\* Enough Ethereum blocks pass for a quorum read to see what is committed
\* (external: eth_read_agreed reads a few blocks below the tip).
Settle ==
    /\ settled # chain
    /\ settled' = chain
    /\ UNCHANGED <<disk, chain, process, top, boots, fails, restores>>

-----------------------------------------------------------------------------
(* Stopping and booting. *)

\* The process's memory is lost.
Lose ==
    /\ seq' = None /\ cache' = None /\ queued' = None /\ batch' = None
    /\ confirmed' = None /\ writing' = {} /\ frozen' = {} /\ ending' = FALSE

\* A crash, a restart or the end of the signalled shutdown: of the batch, the
\* transaction in flight is mined or is not.
Stop ==
    /\ up
    /\ \/ UNCHANGED chain
       \/ \E b \in Blob :
             /\ batch[b] > 0 /\ CommitFreshness(b, batch[b])
             /\ chain' = [chain EXCEPT ![b] = batch[b]]
    /\ up' = FALSE
    /\ Lose
    /\ UNCHANGED <<disk, settled, top, boots, fails, restores>>

\* While the process is down the disk is restored from an older copy
\* (external: the host's storage).
Restore(b) ==
    /\ ~up /\ restores < MaxRestores /\ disk[b] > 0
    /\ \E version \in 0..(disk[b] - 1) : disk' = [disk EXCEPT ![b] = version]
    /\ restores' = restores + 1
    /\ UNCHANGED <<chain, settled, process, top, boots, fails>>

\* Mutant: the check is skipped.
Unverified(b) == TRUE

\* highest: the quorum read of the counter, 0 when it was never committed.
Anchored(b) == settled[b]

\* verify: a blob behind the anchor is stale; one never committed is fresh.
Fresh(b) == disk[b] >= Anchored(b)

\* boot: every blob read must be fresh; set_manager_seq and the monitors'
\* update ids continue from what was read, and highest filled the cache.
Boot ==
    /\ ~up /\ boots < MaxBoots
    /\ \A b \in Blob : disk[b] > 0 => Fresh(b)
    /\ boots' = boots + 1
    /\ up' = TRUE
    /\ seq' = disk
    /\ cache' = [b \in Blob |-> IF disk[b] > 0 THEN Anchored(b) ELSE 0]
    /\ UNCHANGED <<durable, writing, queued, batch, confirmed, frozen, ending, top,
                   fails, restores>>

Init ==
    /\ disk = None /\ chain = None /\ settled = None
    /\ up = FALSE /\ seq = None /\ cache = None /\ writing = {}
    /\ queued = None /\ batch = None /\ confirmed = None /\ frozen = {} /\ ending = FALSE
    /\ top = None /\ boots = 0 /\ fails = 0 /\ restores = 0

Next ==
    \/ \E b \in Blob : \/ Write(b) \/ WriteFails(b) \/ Commit(b)
                       \/ CommitMined(b) \/ CommitErrs(b) \/ Restore(b)
    \/ FinalPersist \/ Drain \/ Settle \/ Stop \/ Boot

Spec == Init /\ [][Next]_vars

-----------------------------------------------------------------------------
(* Properties. *)

\* Types of the state; a process that is down has nothing in memory.
TypeOK ==
    /\ {disk, chain, settled, seq, cache, queued, batch, confirmed, top}
          \subseteq [Blob -> 0..MaxSeq]
    /\ up \in BOOLEAN /\ ending \in BOOLEAN /\ writing \subseteq Blob /\ frozen \subseteq Blob
    /\ boots \in 0..MaxBoots /\ fails \in 0..MaxFails /\ restores \in 0..MaxRestores
    /\ ~up => /\ {seq, cache, queued, batch, confirmed} = {None}
              /\ writing = {} /\ frozen = {} /\ ~ending

\* The chain never attests a version that was not written: whatever crashes
\* between a write and its commit (persister.rs), the newest disk image boots.
AnchorNeverAheadOfDisk == \A b \in Blob : settled[b] <= chain[b] /\ chain[b] <= top[b]

\* The versions of a blob a run may put on disk though their commit is refused:
\* the one that is refused, and the manager's last persist.
Refused(b) == IF b = Manager THEN 2 ELSE 1

\* How far the versions written may run ahead of the chain, commits failing as
\* they like: the lag bound of freshness_ledger.rs, and what every boot adds.
WindowBounded == \A b \in Blob : top[b] <= chain[b] + MaxLag + Refused(b) * boots

\* What a boot from an older disk image may miss without being refused: no more
\* than that window and the part of the chain a quorum read cannot see yet.
RollbackBounded ==
    [][\A b \in Blob : Boot /\ disk[b] > 0 =>
          top[b] <= seq'[b] + MaxLag + Refused(b) * boots + (chain[b] - settled[b])]_vars
=============================================================================
