------------------------------ MODULE SPVGateway ------------------------------
(***************************************************************************)
(* evm/src/spv/SPVGateway.sol and libs/TargetsHelper.sol: the Bitcoin      *)
(* header chain every SPV proof of BTCChannels is checked against.  Anyone *)
(* may submit headers; the contract keeps all of them, chooses the one     *)
(* with the most cumulative work as its head, and maintains an index from  *)
(* heights to hashes of the chain that ends there.                         *)
(*                                                                         *)
(* A header is its hash, parent, time and target.  Its proof of work is    *)
(* not modelled: a header that meets its target can be found for every     *)
(* choice of the other fields, so Block is the set of headers the miners   *)
(* happened to find.                                                       *)
(***************************************************************************)
EXTENDS TargetsHelper, FiniteSets, Sequences

CONSTANTS
    Block,        \* block hashes
    NoBlock,      \* hash zero
    Before,       \* the parent hash of the checkpoint: not zero, never stored
    Time,         \* header times
    HeaderTarget, \* bound: the targets headers carry
    MedianPast,   \* MEDIAN_PAST_BLOCKS
    InitHeight,   \* height of the checkpoint
    MaxHeight,    \* bound: no header is submitted above this height
    MaxBatch      \* bound: headers in one batch

ASSUME GatewayAssumption ==
    /\ NoBlock \notin Block /\ Before \notin Block /\ NoBlock # Before
    /\ Time \subseteq Nat \ {0} /\ HeaderTarget \subseteq Word
    /\ MedianPast \in Nat \ {0}
    /\ InitHeight \in Nat /\ MaxHeight \in Nat /\ MaxBatch \in Nat
    /\ InitHeight <= MaxHeight
    /\ InitHeight % Interval = 0   \* UnalignedCheckpointHeight
    /\ Interval # 1                \* the checkpoint's children keep its target
    \* A target is below the largest word: INITIAL_TARGET bounds it.
    /\ \A t \in HeaderTarget : CountBlockWork(t) \in Nat \ {0}

VARIABLE spv   \* SPVGatewayStorage

Heights == 0..MaxHeight

ZeroBlock == [prevBlockHash |-> NoBlock, time |-> 0, target |-> 0, blockHeight |-> 0,
              cumulativeWork |-> 0]

-----------------------------------------------------------------------------
(* Reads of the storage s. *)

Data(s, b) == IF b \in Block THEN s.blocksData[b] ELSE ZeroBlock

BlockExists(s, b) == Data(s, b).time > 0

GetBlockHash(s, h) == IF h \in Heights THEN s.blocksHeightToBlockHash[h] ELSE NoBlock

GetMainchainHeight(s) == Data(s, s.mainchainHead).blockHeight

\* The block n steps below b.
AncestorOf(s, b, n) ==
    LET Up[i \in 0..n] == IF i = 0 THEN b ELSE Data(s, Up[i - 1]).prevBlockHash
    IN  Up[n]

\* _getEpochPassedTime reads the epoch's ends through the index of the main
\* chain, whichever branch the header is on.
EpochStartTime(s, h) == Data(s, GetBlockHash(s, h - Interval)).time
EpochEndTime(s, h) == Data(s, GetBlockHash(s, h - 1)).time

\* _retargetIfEpochBoundary: the target a header at height h must have when its
\* parent has the given one, and whether it can be computed at all (the
\* difference of the two times is unsigned).
RetargetReverts(s, h) ==
    IsTargetAdjustmentBlock(h) /\ EpochEndTime(s, h) < EpochStartTime(s, h)

RetargetIfEpochBoundary(s, target, h) ==
    IF IsTargetAdjustmentBlock(h)
    THEN CountNewRoundedTarget(target, EpochEndTime(s, h) - EpochStartTime(s, h))
    ELSE target

\* _getMedianTime over the given times.
Medians(times) ==
    {t \in {times[i] : i \in 1..MedianPast} :
        /\ Cardinality({i \in 1..MedianPast : times[i] <= t}) > MedianPast \div 2
        /\ Cardinality({i \in 1..MedianPast : times[i] < t}) <= MedianPast \div 2}

MedianOf(times) == CHOOSE t \in Medians(times) : TRUE

\* _getStorageMedianTime: walks the parents; times below the checkpoint are 0.
StorageMedianTime(s, header, h) ==
    IF h = 1 THEN header.time
    ELSE IF h - 1 < MedianPast THEN Data(s, header.prevBlockHash).time
    ELSE MedianOf([i \in 1..MedianPast |->
                      Data(s, AncestorOf(s, header.prevBlockHash, i - 1)).time])

\* _getMemoryMedianTime: the headers of the batch just before index i.
MemoryMedianTime(headers, i) ==
    MedianOf([k \in 1..MedianPast |-> headers[i - MedianPast + k - 1].time])

-----------------------------------------------------------------------------
(* Writes of the storage s. *)

\* Mutants of _updateMainchainHead: a tie displaces the head; the back-fill
\* only stops where the ancestry ends.
HeavierOrEqual(s, b) ==
    Data(s, b).cumulativeWork >= Data(s, s.mainchainHead).cumulativeWork
\* The fork choice: strictly more work.
Outweighs(s, b) == Data(s, b).cumulativeWork > Data(s, s.mainchainHead).cumulativeWork

\* The do-while of _updateMainchainHead, for a new head at height h with parent
\* prev: height x is rewritten when none of the loop's tests below the parent
\* and down to x found the index in agreement or the ancestry at its end.
BackFilled(s, prev, h, x) ==
    /\ x < h
    /\ \A y \in x..(h - 2) :
          /\ GetBlockHash(s, y) # AncestorOf(s, prev, h - 1 - y)
          /\ AncestorOf(s, prev, h - 1 - y) # NoBlock

\* _updateMainchainHead
UpdateMainchainHead(s, header, h) ==
    LET b == header.hash
        prev == header.prevBlockHash
    IN  IF prev = s.mainchainHead \/ s.mainchainHead = NoBlock
        THEN [s EXCEPT !.mainchainHead = b, !.blocksHeightToBlockHash[h] = b]
        ELSE IF Outweighs(s, b)
        THEN [s EXCEPT !.mainchainHead = b,
                       !.blocksHeightToBlockHash =
                           [x \in Heights |->
                               IF x = h THEN b
                               ELSE IF BackFilled(s, prev, h, x)
                                    THEN AncestorOf(s, prev, h - 1 - x)
                                    ELSE @[x]]]
        ELSE s

\* _addBlock
AddBlock(s, header, h, work) ==
    UpdateMainchainHead(
        [s EXCEPT !.blocksData[header.hash] =
            [prevBlockHash |-> header.prevBlockHash, time |-> header.time,
             target |-> header.target, blockHeight |-> h, cumulativeWork |-> work]],
        header, h)

\* _nextCumulativeWork
NextCumulativeWork(s, prev, target) ==
    Data(s, prev).cumulativeWork + CountBlockWork(target)

-----------------------------------------------------------------------------
(* Entry points. *)

Header == [hash : Block, prevBlockHash : Block, time : Time, target : HeaderTarget]

HeightAfter(s, prev) == Data(s, prev).blockHeight + 1

\* The checks addBlockHeader makes, given the target of the parent and the
\* median time: _onlyNonExistingBlock, the parent exists, _validateBlockRules.
Accepts(s, header, parentTarget, median) ==
    LET h == HeightAfter(s, header.prevBlockHash)
    IN  /\ ~BlockExists(s, header.hash)
        /\ BlockExists(s, header.prevBlockHash)
        /\ ~RetargetReverts(s, h)
        /\ header.target = RetargetIfEpochBoundary(s, parentTarget, h)
        /\ header.time >= median

\* The storage after an accepted header.
Added(s, header) ==
    AddBlock(s, header, HeightAfter(s, header.prevBlockHash),
             NextCumulativeWork(s, header.prevBlockHash, header.target))

\* addBlockHeader on storage s.
AcceptsOne(s, header) ==
    Accepts(s, header, Data(s, header.prevBlockHash).target,
            StorageMedianTime(s, header, HeightAfter(s, header.prevBlockHash)))

\* addBlockHeaderBatch on storage s: After[i] is the storage when i headers
\* have been added.  The target is carried from header to header; the median
\* comes from storage for the first MEDIAN_PAST_BLOCKS headers, then from the
\* batch itself.
BatchStates(s, headers) ==
    LET After[i \in 0..Len(headers)] ==
            IF i = 0 THEN s ELSE Added(After[i - 1], headers[i])
    IN  After

\* Mutant of the batch's median: the header's own time is among the times.
BatchMedianShifted(s, headers, i) ==
    IF i <= MedianPast
    THEN StorageMedianTime(s, headers[i], HeightAfter(s, headers[i].prevBlockHash))
    ELSE MemoryMedianTime(headers, i + 1)

BatchMedian(s, headers, i) ==
    IF i <= MedianPast
    THEN StorageMedianTime(s, headers[i], HeightAfter(s, headers[i].prevBlockHash))
    ELSE MemoryMedianTime(headers, i)

AcceptsBatch(s, headers) ==
    /\ headers # <<>>
    /\ \A i \in 1..Len(headers) : ~BlockExists(s, headers[i].hash)
    /\ \A i \in 2..Len(headers) : headers[i].prevBlockHash = headers[i - 1].hash
    /\ \A i \in 1..Len(headers) :
          LET before == BatchStates(s, headers)[i - 1]
          IN  Accepts(before, headers[i],
                      IF i = 1 THEN Data(s, headers[1].prevBlockHash).target
                      ELSE headers[i - 1].target,
                      BatchMedian(before, headers, i))

-----------------------------------------------------------------------------
\* __SPVGateway_init: the checkpoint becomes the head.  Its cumulative work is
\* an argument of the deployment; only differences of work matter, so it is
\* taken to be the checkpoint's own.
Init ==
    \E c \in Block, time \in Time, target \in HeaderTarget :
        spv = AddBlock([blocksData |-> [b \in Block |-> ZeroBlock],
                        blocksHeightToBlockHash |-> [h \in Heights |-> NoBlock],
                        mainchainHead |-> NoBlock],
                       [hash |-> c, prevBlockHash |-> Before, time |-> time,
                        target |-> target],
                       InitHeight, CountBlockWork(target))

\* addBlockHeader
AddBlockHeader(header) ==
    /\ HeightAfter(spv, header.prevBlockHash) <= MaxHeight
    /\ AcceptsOne(spv, header)
    /\ spv' = Added(spv, header)

\* addBlockHeaderBatch
AddBlockHeaderBatch(headers) ==
    /\ HeightAfter(spv, headers[1].prevBlockHash) + Len(headers) - 1 <= MaxHeight
    /\ AcceptsBatch(spv, headers)
    /\ spv' = BatchStates(spv, headers)[Len(headers)]

\* Chains of n new headers on a stored block.
Fresh(s) == {b \in Block : ~BlockExists(s, b)}

DistinctHashes(s, n) ==
    {f \in [1..n -> Fresh(s)] : \A i, j \in 1..n : f[i] = f[j] => i = j}

Batch(p, hashes, times, targets, n) ==
    [i \in 1..n |-> [hash |-> hashes[i],
                     prevBlockHash |-> IF i = 1 THEN p ELSE hashes[i - 1],
                     time |-> times[i], target |-> targets[i]]]

Batches(s, n) ==
    {Batch(p, hashes, times, targets, n) :
        p \in Block \ Fresh(s), hashes \in DistinctHashes(s, n),
        times \in [1..n -> Time], targets \in [1..n -> HeaderTarget]}

Next ==
    \/ \E header \in Header : AddBlockHeader(header)
    \/ \E n \in 2..MaxBatch : \E headers \in Batches(spv, n) : AddBlockHeaderBatch(headers)

Spec == Init /\ [][Next]_spv

-----------------------------------------------------------------------------
(* Properties. *)

\* Types of the storage.
TypeOK ==
    /\ spv.blocksData \in [Block -> [prevBlockHash : Block \cup {NoBlock, Before},
                                     time : Time \cup {0}, target : HeaderTarget \cup {0},
                                     blockHeight : Heights, cumulativeWork : Nat]]
    /\ spv.blocksHeightToBlockHash \in [Heights -> Block \cup {NoBlock}]
    /\ spv.mainchainHead \in Block

\* The gateway reports the path to the heaviest header it has seen, whatever
\* branches arrived in whatever order and however deep the reorg: the patched
\* index is exactly that path.
Chain == INSTANCE HeaderChain WITH
    parent <- [b \in Block |-> IF Data(spv, b).prevBlockHash \in Block
                               THEN Data(spv, b).prevBlockHash ELSE NoBlock],
    work   <- [b \in Block |-> Data(spv, b).cumulativeWork],
    chain  <- [i \in 1..(GetMainchainHeight(spv) + 1 - InitHeight) |->
                  GetBlockHash(spv, InitHeight + i - 1)]

ReportsHeaviestChain == Chain!Spec

\* A batch is accepted exactly when its headers would be accepted one at a
\* time: the median taken from memory is the one storage would give, and the
\* carried target is the parent's.
BatchIsSequence ==
    \A n \in 1..MaxBatch : \A headers \in Batches(spv, n) :
        AcceptsBatch(spv, headers) <=>
            \A i \in 1..n : AcceptsOne(BatchStates(spv, headers)[i - 1], headers[i])
=============================================================================
