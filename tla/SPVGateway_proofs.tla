-------------------------- MODULE SPVGateway_proofs --------------------------
(***************************************************************************)
(* SPVGateway for every set of blocks, times and targets, every median     *)
(* window and every batch.  What holds at every difficulty: the storage is *)
(* a tree, its head is the heaviest block, a reorg moves to more work.     *)
(* That the index is the path to the head, and so that SPVGateway          *)
(* implements HeaderChain, needs one thing more: that no reorg lowers the  *)
(* head, which holds in the first epoch and while the work of all headers  *)
(* is the same.  The contract walks parents in loops and adds the headers  *)
(* of a batch one by one, so the proofs go by induction on the number of   *)
(* steps.  SPVRelayer is shown to be a client of the gateway: its rounds,  *)
(* and all else that submits, make the calls Spec allows.  Only the proofs *)
(* of that part use RelayerAssumption.  The last part is about             *)
(* TargetsHelper and Retarget, for words and bytes of any size.            *)
(***************************************************************************)
EXTENDS SPVRelayer, Retarget, FiniteSetTheorems, WellFoundedInduction, TLAPS

-----------------------------------------------------------------------------
(* Induction, stated with sets. *)

\* A set of naturals that is not empty has a least element.
LEMMA LeastNat ==
    ASSUME NEW T \in SUBSET Nat, NEW t \in T
    PROVE  \E n \in T : \A m \in T : n <= m
<1>1. IsWellFoundedOn(OpToRel(<, Nat), Nat)
  BY NatLessThanWellFounded, Zenon
<1>2. PICK n \in T : \A m \in T : ~(<<m, n>> \in OpToRel(<, Nat))
  BY <1>1, WFMin, Zenon
<1>3. ASSUME NEW m \in T, m < n PROVE FALSE
  <2>1. <<m, n>> \in Nat \X Nat
    OBVIOUS
  <2>2. <<m, n>>[1] < <<m, n>>[2]
    BY <1>3
  <2>3. <<m, n>> \in OpToRel(<, Nat)
    BY <2>1, <2>2, Zenon DEF OpToRel
  <2>4. QED
    BY <1>2, <2>3, Zenon
<1>4. QED
  BY <1>3

\* A set that holds 0 and is closed under the successor holds every natural.
LEMMA SetInduction ==
    ASSUME NEW T \in SUBSET Nat, 0 \in T, \A n \in T : n + 1 \in T
    PROVE  \A n \in Nat : n \in T
<1> SUFFICES ASSUME NEW k \in Nat, k \notin T PROVE FALSE
  OBVIOUS
<1> DEFINE U == Nat \ T
<1>1. PICK n \in U : \A m \in U : n <= m
  BY LeastNat
<1>2. n \in Nat /\ n \notin T /\ n # 0
  OBVIOUS
<1>3. n - 1 \in T
  <2>1. n - 1 \in Nat /\ ~(n <= n - 1)
    BY <1>2
  <2>2. n - 1 \notin U
    BY <1>1, <2>1
  <2>3. QED
    BY <2>1, <2>2
<1>4. QED
  BY <1>2, <1>3

-----------------------------------------------------------------------------
(* What the two loops compute. *)

\* f holds the first n + 1 blocks of the walk from b to its parents.
IsWalk(f, s, b, n) ==
    f = [i \in 0..n |-> IF i = 0 THEN b ELSE Data(s, f[i - 1]).prevBlockHash]

LEMMA WalkExists ==
    ASSUME NEW s, NEW b
    PROVE  \A n \in Nat : \E f : IsWalk(f, s, b, n)
<1> DEFINE T == {n \in Nat : \E f : IsWalk(f, s, b, n)}
<1>1. 0 \in T
  <2>1. IsWalk([i \in 0..0 |-> b], s, b, 0)
    BY DEF IsWalk
  <2>2. QED
    BY <2>1
<1>2. ASSUME NEW n \in T PROVE n + 1 \in T
  <2>1. PICK f : IsWalk(f, s, b, n)
    OBVIOUS
  <2> DEFINE g == [i \in 0..(n + 1) |-> IF i = n + 1 THEN Data(s, f[n]).prevBlockHash ELSE f[i]]
  <2>2. ASSUME NEW i \in 0..(n + 1)
        PROVE  g[i] = IF i = 0 THEN b ELSE Data(s, g[i - 1]).prevBlockHash
    <3>1. CASE i = n + 1
      <4>1. i # 0 /\ n \in 0..(n + 1) /\ n # n + 1 /\ i - 1 = n
        BY <3>1
      <4>2. g[i - 1] = f[n]
        BY <4>1
      <4>3. QED
        BY <3>1, <4>1, <4>2
    <3>2. CASE i # n + 1
      <4>1. i \in 0..n
        BY <3>2
      <4>2. g[i] = f[i]
        BY <3>2
      <4>3. f[i] = IF i = 0 THEN b ELSE Data(s, f[i - 1]).prevBlockHash
        BY <2>1, <4>1 DEF IsWalk
      <4>4. i # 0 => g[i - 1] = f[i - 1]
        BY <4>1
      <4>5. QED
        BY <4>2, <4>3, <4>4
    <3>3. QED
      BY <3>1, <3>2
  <2> HIDE DEF g
  <2>3. g = [i \in 0..(n + 1) |-> g[i]]
    BY DEF g
  <2>4. IsWalk(g, s, b, n + 1)
    BY <2>2, <2>3 DEF IsWalk
  <2>5. QED
    BY <2>4
<1> HIDE DEF T
<1>3. T \in SUBSET Nat
  BY DEF T
<1>4. \A n \in Nat : n \in T
  BY <1>1, <1>2, <1>3, SetInduction
<1>5. QED
  BY <1>4 DEF T

\* Two walks from the same block agree as far as both go.
LEMMA WalksAgree ==
    ASSUME NEW s, NEW b, NEW n \in Nat, NEW m \in Nat, n <= m,
           NEW f, NEW g, IsWalk(f, s, b, n), IsWalk(g, s, b, m)
    PROVE  \A i \in 0..n : f[i] = g[i]
<1> DEFINE T == {i \in Nat : i <= n => f[i] = g[i]}
<1>1. 0 \in T
  BY DEF IsWalk
<1>2. ASSUME NEW i \in T PROVE i + 1 \in T
  <2>1. SUFFICES ASSUME i + 1 <= n PROVE f[i + 1] = g[i + 1]
    OBVIOUS
  <2>2. f[i] = g[i] /\ i + 1 \in 0..n /\ i + 1 \in 0..m /\ i + 1 # 0 /\ (i + 1) - 1 = i
    BY <2>1
  <2>3. f[i + 1] = Data(s, f[i]).prevBlockHash
    BY <2>2 DEF IsWalk
  <2>4. g[i + 1] = Data(s, g[i]).prevBlockHash
    BY <2>2 DEF IsWalk
  <2>5. QED
    BY <2>2, <2>3, <2>4
<1> HIDE DEF T
<1>3. T \in SUBSET Nat
  BY DEF T
<1>4. \A i \in Nat : i \in T
  BY <1>1, <1>2, <1>3, SetInduction
<1>5. QED
  BY <1>4 DEF T

\* AncestorOf takes one step more with each count.
LEMMA AncestorSteps ==
    ASSUME NEW s, NEW b
    PROVE  /\ AncestorOf(s, b, 0) = b
           /\ \A n \in Nat :
                 AncestorOf(s, b, n + 1) = Data(s, AncestorOf(s, b, n)).prevBlockHash
<1> DEFINE Walk(n) == CHOOSE f : IsWalk(f, s, b, n)
<1>1. ASSUME NEW n \in Nat PROVE IsWalk(Walk(n), s, b, n)
  BY WalkExists
<1>2. ASSUME NEW n \in Nat PROVE AncestorOf(s, b, n) = Walk(n)[n]
  BY DEF AncestorOf, IsWalk
<1> HIDE DEF Walk
<1>3. AncestorOf(s, b, 0) = b
  BY <1>1, <1>2 DEF IsWalk
<1>4. ASSUME NEW n \in Nat
      PROVE  AncestorOf(s, b, n + 1) = Data(s, AncestorOf(s, b, n)).prevBlockHash
  <2>1. IsWalk(Walk(n), s, b, n) /\ IsWalk(Walk(n + 1), s, b, n + 1)
    BY <1>1
  <2>2. Walk(n)[n] = Walk(n + 1)[n]
    BY <2>1, WalksAgree
  <2>3. Walk(n + 1)[n + 1] = Data(s, Walk(n + 1)[n]).prevBlockHash
    BY <2>1 DEF IsWalk
  <2>4. AncestorOf(s, b, n) = Walk(n)[n] /\ AncestorOf(s, b, n + 1) = Walk(n + 1)[n + 1]
    BY <1>2
  <2>5. QED
    BY <2>2, <2>3, <2>4
<1>5. QED
  BY <1>3, <1>4

\* f holds the storages a batch goes through up to its n-th header.
IsRun(f, s, headers, n) ==
    f = [i \in 0..n |-> IF i = 0 THEN s ELSE Added(f[i - 1], headers[i])]

LEMMA RunExists ==
    ASSUME NEW s, NEW headers
    PROVE  \A n \in Nat : \E f : IsRun(f, s, headers, n)
<1> DEFINE T == {n \in Nat : \E f : IsRun(f, s, headers, n)}
<1>1. 0 \in T
  <2>1. IsRun([i \in 0..0 |-> s], s, headers, 0)
    BY DEF IsRun
  <2>2. QED
    BY <2>1
<1>2. ASSUME NEW n \in T PROVE n + 1 \in T
  <2>1. PICK f : IsRun(f, s, headers, n)
    OBVIOUS
  <2> DEFINE g == [i \in 0..(n + 1) |-> IF i = n + 1 THEN Added(f[n], headers[n + 1]) ELSE f[i]]
  <2>2. ASSUME NEW i \in 0..(n + 1)
        PROVE  g[i] = IF i = 0 THEN s ELSE Added(g[i - 1], headers[i])
    <3>1. CASE i = n + 1
      <4>1. i # 0 /\ n \in 0..(n + 1) /\ n # n + 1 /\ i - 1 = n
        BY <3>1
      <4>2. g[i - 1] = f[n]
        BY <4>1
      <4>3. QED
        BY <3>1, <4>1, <4>2
    <3>2. CASE i # n + 1
      <4>1. i \in 0..n
        BY <3>2
      <4>2. g[i] = f[i]
        BY <3>2
      <4>3. f[i] = IF i = 0 THEN s ELSE Added(f[i - 1], headers[i])
        BY <2>1, <4>1 DEF IsRun
      <4>4. i # 0 => g[i - 1] = f[i - 1]
        BY <4>1
      <4>5. QED
        BY <4>2, <4>3, <4>4
    <3>3. QED
      BY <3>1, <3>2
  <2> HIDE DEF g
  <2>3. g = [i \in 0..(n + 1) |-> g[i]]
    BY DEF g
  <2>4. IsRun(g, s, headers, n + 1)
    BY <2>2, <2>3 DEF IsRun
  <2>5. QED
    BY <2>4
<1> HIDE DEF T
<1>3. T \in SUBSET Nat
  BY DEF T
<1>4. \A n \in Nat : n \in T
  BY <1>1, <1>2, <1>3, SetInduction
<1>5. QED
  BY <1>4 DEF T

\* BatchStates adds one header more with each count.
LEMMA BatchSteps ==
    ASSUME NEW s, NEW headers, Len(headers) \in Nat
    PROVE  /\ BatchStates(s, headers)[0] = s
           /\ \A i \in 1..Len(headers) :
                 BatchStates(s, headers)[i] =
                     Added(BatchStates(s, headers)[i - 1], headers[i])
<1> DEFINE After == CHOOSE f : IsRun(f, s, headers, Len(headers))
<1>1. IsRun(After, s, headers, Len(headers))
  BY RunExists
<1>2. BatchStates(s, headers) = After
  BY DEF BatchStates, IsRun
<1> HIDE DEF After
<1>3. After[0] = s
  BY <1>1 DEF IsRun
<1>4. ASSUME NEW i \in 1..Len(headers)
      PROVE  After[i] = Added(After[i - 1], headers[i])
  <2>1. i \in 0..Len(headers) /\ i # 0
    OBVIOUS
  <2>2. QED
    BY <1>1, <2>1 DEF IsRun
<1>5. QED
  BY <1>2, <1>3, <1>4

\* More blocks, more work.
LEMMA WorkOrder ==
    ASSUME NEW w \in Nat \ {0}, NEW a \in Nat, NEW c \in Nat
    PROVE  /\ w * a \in Nat
           /\ w * (a + 1) = w * a + w
           /\ w * a > w * c <=> a > c
<1>1. w * a \in Nat /\ w * c \in Nat
  OBVIOUS
<1>2. w * (a + 1) = w * a + w
  OBVIOUS
<1>3. a > c => w * a > w * c
  <2>1. SUFFICES ASSUME a > c PROVE w * a > w * c
    OBVIOUS
  <2>2. PICK k \in Nat : a = c + 1 + k
    <3>1. a - c - 1 \in Nat /\ a = c + 1 + (a - c - 1)
      BY <2>1
    <3>2. QED
      BY <3>1
  <2>3. w * a = w * c + w + w * k
    BY <2>2
  <2>4. w * k \in Nat
    BY <2>2
  <2>5. QED
    BY <1>1, <2>3, <2>4
<1>4. ~(a > c) => ~(w * a > w * c)
  <2>1. SUFFICES ASSUME ~(a > c) PROVE ~(w * a > w * c)
    OBVIOUS
  <2>2. PICK k \in Nat : c = a + k
    <3>1. c - a \in Nat /\ c = a + (c - a)
      BY <2>1
    <3>2. QED
      BY <3>1
  <2>3. w * c = w * a + w * k
    BY <2>2
  <2>4. w * k \in Nat
    BY <2>2
  <2>5. QED
    BY <1>1, <2>3, <2>4
<1>5. QED
  BY <1>1, <1>2, <1>3, <1>4

\* The height after a multiple of n is none.
LEMMA NextIsInside ==
    ASSUME NEW n \in Nat, n # 0, n # 1, NEW h \in Nat, h % n = 0
    PROVE  (h + 1) % n # 0
<1> SUFFICES ASSUME (h + 1) % n = 0 PROVE FALSE
  OBVIOUS
<1> DEFINE q == h \div n
           r == (h + 1) \div n
<1>1. q \in Nat /\ r \in Nat /\ h % n = h - n * q /\ (h + 1) % n = (h + 1) - n * r
      /\ n * q \in Nat /\ n * r \in Nat
  OBVIOUS
<1>2. n \in Nat \ {0} /\ n >= 2
  OBVIOUS
<1> HIDE DEF q, r
<1>3. n * q = h /\ n * r = h + 1
  BY <1>1
<1>4. r > q
  BY <1>1, <1>2, <1>3, WorkOrder
<1>5. n * (q + 1) = h + n
  BY <1>1, <1>2, <1>3, WorkOrder
<1>6. ~(r > q + 1)
  <2>1. n * r > n * (q + 1) <=> r > q + 1
    BY <1>1, <1>2, WorkOrder
  <2>2. QED
    BY <1>2, <1>3, <1>5, <2>1
<1>7. r = q + 1
  BY <1>1, <1>4, <1>6
<1>8. QED
  BY <1>2, <1>3, <1>5, <1>7

-----------------------------------------------------------------------------
(* The invariant, of a storage s. *)

BlockRecord == [prevBlockHash : Block \cup {NoBlock, Before}, time : Time \cup {0},
                target : HeaderTarget \cup {0}, blockHeight : Heights, cumulativeWork : Nat]

Storage == [blocksData : [Block -> BlockRecord],
            blocksHeightToBlockHash : [Heights -> Block \cup {NoBlock}],
            mainchainHead : Block]

Has(s, b) == s.blocksData[b].time > 0
Height(s, b) == s.blocksData[b].blockHeight
Parent(s, b) == s.blocksData[b].prevBlockHash
Target(s, b) == s.blocksData[b].target
Work(s, b) == s.blocksData[b].cumulativeWork
HeadHeight(s) == Height(s, s.mainchainHead)

\* b is stored one above its parent, with its parent's work and its own, and
\* with its parent's target inside an epoch.
OnParent(s, b) ==
    /\ Parent(s, b) \in Block /\ Has(s, Parent(s, b))
    /\ Height(s, Parent(s, b)) + 1 = Height(s, b)
    /\ Work(s, b) = Work(s, Parent(s, b)) + CountBlockWork(Target(s, b))
    /\ ~IsTargetAdjustmentBlock(Height(s, b)) => Target(s, b) = Target(s, Parent(s, b))

IsRoot(s, b) == Parent(s, b) = Before /\ Work(s, b) = CountBlockWork(Target(s, b))

\* The stored blocks are a tree on the checkpoint; what is not stored is zero.
Tree(s) ==
    \A b \in Block :
        /\ ~Has(s, b) => s.blocksData[b] = ZeroBlock
        /\ Has(s, b) => /\ Height(s, b) >= InitHeight
                        /\ Target(s, b) \in HeaderTarget
                        /\ Height(s, b) = InitHeight => IsRoot(s, b)
                        /\ Height(s, b) # InitHeight => OnParent(s, b)

OneRoot(s) ==
    \A b, d \in Block :
        Has(s, b) /\ Has(s, d) /\ Height(s, b) = InitHeight /\ Height(s, d) = InitHeight
            => b = d

HeadIsHeaviest(s) ==
    /\ Has(s, s.mainchainHead)
    /\ \A b \in Block : Has(s, b) => Work(s, b) <= Work(s, s.mainchainHead)

\* What the index says at a height is a block stored at that height, with
\* entries at every height down to the checkpoint; at the head's height it is
\* the head.
IndexIsStored(s) ==
    LET index == s.blocksHeightToBlockHash
    IN  /\ index[HeadHeight(s)] = s.mainchainHead
        /\ \A x \in Heights : index[x] # NoBlock => Has(s, index[x]) /\ Height(s, index[x]) = x
        /\ \A x, y \in Heights :
              InitHeight <= x /\ x <= y /\ index[y] # NoBlock => index[x] # NoBlock

\* What holds whatever the headers are.
Sound(s) ==
    s \in Storage /\ Tree(s) /\ OneRoot(s) /\ HeadIsHeaviest(s) /\ IndexIsStored(s)

\* Up to the head, the index is a path from the checkpoint.
IndexIsLinked(s) ==
    LET index == s.blocksHeightToBlockHash
    IN  \A x \in Heights :
            InitHeight < x /\ x <= HeadHeight(s) => Parent(s, index[x]) = index[x - 1]

\* Above the head the index is empty, from height m on.
ClearAbove(s, m) ==
    \A x \in Heights : x > HeadHeight(s) /\ x > m => s.blocksHeightToBlockHash[x] = NoBlock

\* The index is the path from the checkpoint to the head, and nothing else.
IndexIsPath(s) == IndexIsLinked(s) /\ ClearAbove(s, HeadHeight(s))

Good(s) == Sound(s) /\ IndexIsPath(s)

\* Header times are not zero: the contract takes zero for a block it lacks.
LEMMA TimesPositive == \A t \in Time : t \in Nat /\ t > 0
<1>1. Time \subseteq Nat \ {0}
  BY GatewayAssumption
<1>2. QED
  BY <1>1

\* The heights.
LEMMA HeightBounds ==
    /\ InitHeight \in Nat /\ MaxHeight \in Nat /\ InitHeight <= MaxHeight
    /\ InitHeight \in Heights /\ 0 \in Heights
    /\ \A x \in Heights : x \in Nat /\ x <= MaxHeight
    /\ \A x \in Nat : x <= MaxHeight => x \in Heights
  BY GatewayAssumption DEF Heights

\* The reads of the storage, for a block.
LEMMA Reads ==
    ASSUME NEW s, NEW b \in Block
    PROVE  /\ Data(s, b) = s.blocksData[b]
           /\ BlockExists(s, b) <=> Has(s, b)
           /\ HeightAfter(s, b) = Height(s, b) + 1
  BY DEF Data, BlockExists, Has, HeightAfter, Height

\* The types of what is read.
LEMMA ReadTypes ==
    ASSUME NEW s \in Storage
    PROVE  /\ \A b \in Block : /\ s.blocksData[b] \in BlockRecord
                               /\ Height(s, b) \in Heights /\ Height(s, b) \in Nat
                               /\ Height(s, b) <= MaxHeight /\ Work(s, b) \in Nat
           /\ s.mainchainHead \in Block
           /\ HeadHeight(s) \in Heights /\ HeadHeight(s) \in Nat /\ HeadHeight(s) <= MaxHeight
           /\ s.blocksHeightToBlockHash \in [Heights -> Block \cup {NoBlock}]
<1>1. ASSUME NEW b \in Block
      PROVE  /\ s.blocksData[b] \in BlockRecord
             /\ Height(s, b) \in Heights /\ Work(s, b) \in Nat
  BY DEF Storage, BlockRecord, Height, Work
<1>2. s.mainchainHead \in Block
      /\ s.blocksHeightToBlockHash \in [Heights -> Block \cup {NoBlock}]
  BY DEF Storage
<1>3. QED
  BY <1>1, <1>2, HeightBounds DEF HeadHeight

\* A stored block's place in the tree.
LEMMA Stands ==
    ASSUME NEW s \in Storage, Tree(s), NEW b \in Block, Has(s, b)
    PROVE  /\ Height(s, b) >= InitHeight /\ Height(s, b) \in Nat
           /\ Target(s, b) \in HeaderTarget /\ CountBlockWork(Target(s, b)) \in Nat \ {0}
           /\ Height(s, b) = InitHeight => IsRoot(s, b)
           /\ Height(s, b) # InitHeight => OnParent(s, b)
           /\ Work(s, b) \in Nat /\ Work(s, b) > 0
<1>1. /\ Height(s, b) >= InitHeight /\ Height(s, b) \in Nat /\ Work(s, b) \in Nat
      /\ Target(s, b) \in HeaderTarget
      /\ Height(s, b) = InitHeight => IsRoot(s, b)
      /\ Height(s, b) # InitHeight => OnParent(s, b)
  BY ReadTypes DEF Tree
<1>2. CountBlockWork(Target(s, b)) \in Nat \ {0}
  BY <1>1, GatewayAssumption
<1>3. CASE Height(s, b) = InitHeight
  BY <1>1, <1>2, <1>3 DEF IsRoot
<1>4. CASE Height(s, b) # InitHeight
  <2>1. Work(s, Parent(s, b)) \in Nat /\ Work(s, b) = Work(s, Parent(s, b)) + CountBlockWork(Target(s, b))
    BY <1>1, <1>4, ReadTypes DEF OnParent
  <2>2. QED
    BY <1>1, <1>2, <2>1
<1>5. QED
  BY <1>1, <1>2, <1>3, <1>4

-----------------------------------------------------------------------------
(* A header is stored. *)

\* The storage that _addBlock hands to _updateMainchainHead.
Recorded(s, header) ==
    [s EXCEPT !.blocksData[header.hash] =
        [prevBlockHash |-> header.prevBlockHash, time |-> header.time,
         target |-> header.target, blockHeight |-> HeightAfter(s, header.prevBlockHash),
         cumulativeWork |-> NextCumulativeWork(s, header.prevBlockHash, header.target)]]

\* A header the gateway may add.
Fits(s, header) ==
    /\ header \in Header
    /\ ~Has(s, header.hash)
    /\ Has(s, header.prevBlockHash)
    /\ Height(s, header.prevBlockHash) + 1 <= MaxHeight
    /\ ~IsTargetAdjustmentBlock(Height(s, header.prevBlockHash) + 1) =>
          header.target = Target(s, header.prevBlockHash)

LEMMA RecordedFields ==
    ASSUME NEW s \in Storage, Tree(s), NEW header, Fits(s, header)
    PROVE  LET t == Recorded(s, header)
               b == header.hash
               p == header.prevBlockHash
           IN  /\ b \in Block /\ p \in Block /\ b # p
               /\ t \in Storage
               /\ t.mainchainHead = s.mainchainHead
               /\ t.blocksHeightToBlockHash = s.blocksHeightToBlockHash
               /\ \A d \in Block : d # b => t.blocksData[d] = s.blocksData[d]
               /\ Has(t, b) /\ Parent(t, b) = p /\ Target(t, b) = header.target
               /\ Height(t, b) = Height(s, p) + 1
               /\ Work(t, b) = Work(s, p) + CountBlockWork(header.target)
               /\ t.blocksData[b].time = header.time /\ header.time > 0
<1> DEFINE b == header.hash
           p == header.prevBlockHash
           rec == [prevBlockHash |-> p, time |-> header.time,
                   target |-> header.target, blockHeight |-> HeightAfter(s, p),
                   cumulativeWork |-> NextCumulativeWork(s, p, header.target)]
<1>1. b \in Block /\ p \in Block /\ b # p /\ header.time \in Time /\ header.target \in HeaderTarget
  BY DEF Fits, Header
<1>2. header.time > 0 /\ header.time \in Nat
  BY <1>1, TimesPositive
<1>3. Height(s, p) \in Nat /\ Work(s, p) \in Nat
  BY <1>1, ReadTypes
<1>4. CountBlockWork(header.target) \in Nat
  BY <1>1, GatewayAssumption
<1>5. rec.blockHeight = Height(s, p) + 1 /\ rec.blockHeight \in Heights
  BY <1>1, <1>3, Reads, HeightBounds DEF Fits
<1>6. rec.cumulativeWork = Work(s, p) + CountBlockWork(header.target)
  BY <1>1, Reads DEF NextCumulativeWork, Work
<1>7. rec.cumulativeWork \in Nat
  <2> HIDE DEF rec
  <2>1. QED
    BY <1>3, <1>4, <1>6
<1>8. rec \in BlockRecord
  BY <1>1, <1>5, <1>7 DEF BlockRecord
<1> HIDE DEF rec
<1>9. Recorded(s, header) = [s EXCEPT !.blocksData[b] = rec]
  BY DEF Recorded, rec
<1>10. rec.prevBlockHash = p /\ rec.time = header.time /\ rec.target = header.target
  BY DEF rec
<1>11. /\ Recorded(s, header) \in Storage
       /\ Recorded(s, header).mainchainHead = s.mainchainHead
       /\ Recorded(s, header).blocksHeightToBlockHash = s.blocksHeightToBlockHash
       /\ Recorded(s, header).blocksData = [s.blocksData EXCEPT ![b] = rec]
  <2> HIDE DEF b
  <2>1. [s.blocksData EXCEPT ![b] = rec] \in [Block -> BlockRecord]
    BY <1>1, <1>8 DEF Storage
  <2>2. Recorded(s, header) = [s EXCEPT !.blocksData = [s.blocksData EXCEPT ![b] = rec]]
    BY <1>9
  <2>3. QED
    BY <2>1, <2>2 DEF Storage
<1>12. Recorded(s, header).blocksData[b] = rec
       /\ \A d \in Block : d # b => Recorded(s, header).blocksData[d] = s.blocksData[d]
  BY <1>1, <1>11 DEF Storage
<1>13. QED
  BY <1>1, <1>2, <1>5, <1>6, <1>10, <1>11, <1>12 DEF Has, Height, Parent, Target, Work

\* Storing a header leaves the stored blocks alone.
LEMMA RecordedKeeps ==
    ASSUME NEW s \in Storage, Tree(s), NEW header, Fits(s, header), NEW d \in Block,
           d # header.hash
    PROVE  LET t == Recorded(s, header)
           IN  /\ Has(t, d) = Has(s, d) /\ Height(t, d) = Height(s, d)
               /\ Parent(t, d) = Parent(s, d) /\ Target(t, d) = Target(s, d)
               /\ Work(t, d) = Work(s, d) /\ t.blocksData[d] = s.blocksData[d]
<1>1. Recorded(s, header).blocksData[d] = s.blocksData[d]
  BY RecordedFields
<1>2. QED
  BY <1>1 DEF Has, Height, Parent, Target, Work

\* Storing a header keeps the tree: what the tree says of a block depends on
\* the block and its parent, and no stored block changes.
LEMMA RecordedTree ==
    ASSUME NEW s \in Storage, Tree(s), OneRoot(s), NEW header, Fits(s, header)
    PROVE  Tree(Recorded(s, header)) /\ OneRoot(Recorded(s, header))
<1> DEFINE b == header.hash
           p == header.prevBlockHash
           t == Recorded(s, header)
<1>1. /\ b \in Block /\ p \in Block /\ b # p /\ t \in Storage
      /\ Has(t, b) /\ Parent(t, b) = p /\ Target(t, b) = header.target
      /\ Height(t, b) = Height(s, p) + 1
      /\ Work(t, b) = Work(s, p) + CountBlockWork(header.target)
  BY RecordedFields
<1>2. ASSUME NEW d \in Block, d # b
      PROVE  /\ Has(t, d) = Has(s, d) /\ Height(t, d) = Height(s, d)
             /\ Parent(t, d) = Parent(s, d) /\ Target(t, d) = Target(s, d)
             /\ Work(t, d) = Work(s, d) /\ t.blocksData[d] = s.blocksData[d]
  BY <1>2, RecordedKeeps
<1>3. /\ ~Has(s, b) /\ Has(s, p) /\ header.target \in HeaderTarget
      /\ ~IsTargetAdjustmentBlock(Height(s, p) + 1) => header.target = Target(s, p)
  BY DEF Fits, Header
<1> HIDE DEF b, p, t
<1>4. Height(s, p) \in Nat /\ Height(s, p) >= InitHeight /\ InitHeight \in Nat
  BY <1>1, <1>3, Stands, HeightBounds
<1>5. Height(t, b) >= InitHeight /\ Height(t, b) # InitHeight
  BY <1>1, <1>4
<1>6. OnParent(t, b)
  BY <1>1, <1>2, <1>3 DEF OnParent
<1>7. ASSUME NEW d \in Block, d # b, Has(s, d), Height(s, d) # InitHeight
      PROVE  OnParent(t, d)
  <2>1. OnParent(s, d)
    BY <1>7, Stands
  <2>2. Parent(s, d) \in Block /\ Parent(s, d) # b
    BY <1>3, <2>1 DEF OnParent
  <2>3. QED
    BY <1>2, <1>7, <2>1, <2>2 DEF OnParent
<1>8. ASSUME NEW d \in Block, d # b, Has(s, d), Height(s, d) = InitHeight
      PROVE  IsRoot(t, d)
  BY <1>2, <1>8, Stands DEF IsRoot
<1>9. ASSUME NEW d \in Block
      PROVE  /\ ~Has(t, d) => t.blocksData[d] = ZeroBlock
             /\ Has(t, d) => /\ Height(t, d) >= InitHeight
                             /\ Target(t, d) \in HeaderTarget
                             /\ Height(t, d) = InitHeight => IsRoot(t, d)
                             /\ Height(t, d) # InitHeight => OnParent(t, d)
  <2>1. CASE d = b
    BY <1>1, <1>3, <1>5, <1>6, <2>1
  <2>2. CASE d # b
    <3>1. CASE ~Has(s, d)
      BY <1>2, <2>2, <3>1 DEF Tree
    <3>2. CASE Has(s, d)
      BY <1>2, <1>7, <1>8, <2>2, <3>2, Stands
    <3>3. QED
      BY <3>1, <3>2
  <2>3. QED
    BY <2>1, <2>2
<1>10. Tree(t)
  BY <1>9 DEF Tree
<1>11. OneRoot(t)
  BY <1>2, <1>5 DEF OneRoot
<1>12. QED
  BY <1>10, <1>11 DEF t

\* The walk from a stored block down to the checkpoint meets stored blocks,
\* one at each height.
LEMMA AncestorsStored ==
    ASSUME NEW s \in Storage, Tree(s), NEW p \in Block, Has(s, p)
    PROVE  \A n \in Nat : n <= Height(s, p) - InitHeight =>
               /\ AncestorOf(s, p, n) \in Block
               /\ Has(s, AncestorOf(s, p, n))
               /\ Height(s, AncestorOf(s, p, n)) = Height(s, p) - n
<1> DEFINE A(n) == AncestorOf(s, p, n)
           T == {n \in Nat : n <= Height(s, p) - InitHeight =>
                     A(n) \in Block /\ Has(s, A(n)) /\ Height(s, A(n)) = Height(s, p) - n}
<1>1. Height(s, p) \in Nat /\ Height(s, p) >= InitHeight /\ InitHeight \in Nat
  BY Stands, HeightBounds
<1>2. A(0) = p /\ \A n \in Nat : A(n + 1) = Data(s, A(n)).prevBlockHash
  BY AncestorSteps
<1> HIDE DEF A
<1>3. 0 \in T
  BY <1>1, <1>2
<1>4. ASSUME NEW n \in T PROVE n + 1 \in T
  <2>1. SUFFICES ASSUME n + 1 <= Height(s, p) - InitHeight
                 PROVE  /\ A(n + 1) \in Block /\ Has(s, A(n + 1))
                        /\ Height(s, A(n + 1)) = Height(s, p) - (n + 1)
    OBVIOUS
  <2>2. A(n) \in Block /\ Has(s, A(n)) /\ Height(s, A(n)) = Height(s, p) - n
    BY <1>1, <2>1
  <2>3. A(n + 1) = Parent(s, A(n))
    BY <1>2, <2>2, Reads DEF Parent
  <2>4. Height(s, A(n)) # InitHeight
    BY <1>1, <2>1, <2>2
  <2>5. A(n + 1) \in Block /\ Has(s, A(n + 1)) /\ Height(s, A(n + 1)) + 1 = Height(s, A(n))
    BY <2>2, <2>3, <2>4, Stands DEF OnParent
  <2>6. Height(s, A(n + 1)) \in Nat
    BY <2>5, ReadTypes
  <2>7. QED
    BY <1>1, <2>2, <2>5, <2>6
<1> HIDE DEF T
<1>5. T \in SUBSET Nat
  BY DEF T
<1>6. \A n \in Nat : n \in T
  BY <1>3, <1>4, <1>5, SetInduction
<1>7. QED
  BY <1>6 DEF T, A

-----------------------------------------------------------------------------
(* The head moves. *)

\* The index after a reorganisation to b on p, at height h.
Refilled(r, b, p, h) ==
    [x \in Heights |-> IF x = h THEN b
                       ELSE IF BackFilled(r, p, h, x) THEN AncestorOf(r, p, h - 1 - x)
                            ELSE r.blocksHeightToBlockHash[x]]

Overtakes(s, header) ==
    /\ header.prevBlockHash # s.mainchainHead
    /\ Work(Recorded(s, header), header.hash) > Work(s, s.mainchainHead)

\* What an added header does to the head and the index.
LEMMA AddedFields ==
    ASSUME NEW s \in Storage, Tree(s), HeadIsHeaviest(s), NEW header, Fits(s, header)
    PROVE  LET t == Added(s, header)
               r == Recorded(s, header)
               b == header.hash
               p == header.prevBlockHash
               h == Height(s, p) + 1
           IN  /\ t.blocksData = r.blocksData
               /\ p = s.mainchainHead =>
                     t = [r EXCEPT !.mainchainHead = b, !.blocksHeightToBlockHash =
                              [r.blocksHeightToBlockHash EXCEPT ![h] = b]]
               /\ Overtakes(s, header) =>
                     t = [r EXCEPT !.mainchainHead = b,
                                   !.blocksHeightToBlockHash = Refilled(r, b, p, h)]
               /\ p # s.mainchainHead /\ ~Overtakes(s, header) => t = r
<1> DEFINE b == header.hash
           p == header.prevBlockHash
           r == Recorded(s, header)
           h == Height(s, p) + 1
           t == Added(s, header)
<1>1. /\ b \in Block /\ p \in Block /\ r \in Storage /\ r.mainchainHead = s.mainchainHead
  BY RecordedFields
<1>2. HeightAfter(s, p) = h
  BY <1>1, Reads
<1>3. t = UpdateMainchainHead(r, header, h)
  BY <1>2 DEF Added, AddBlock, Recorded
<1>4. s.mainchainHead \in Block /\ s.mainchainHead # NoBlock /\ s.mainchainHead # b
  <2>1. s.mainchainHead \in Block /\ Has(s, s.mainchainHead) /\ ~Has(s, b)
    BY ReadTypes DEF HeadIsHeaviest, Fits
  <2>2. QED
    BY <2>1, GatewayAssumption
<1>5. Work(r, s.mainchainHead) = Work(s, s.mainchainHead)
  BY <1>4, RecordedKeeps
<1>6. Outweighs(r, b) <=> Work(r, b) > Work(s, s.mainchainHead)
  <2>1. Data(r, b) = r.blocksData[b] /\ Data(r, s.mainchainHead) = r.blocksData[s.mainchainHead]
    BY <1>1, <1>4, Reads
  <2>2. QED
    BY <1>1, <1>5, <2>1 DEF Outweighs, Work
<1> HIDE DEF b, p, r, h, t
<1>7. ASSUME p = s.mainchainHead
      PROVE  t = [r EXCEPT !.mainchainHead = b, !.blocksHeightToBlockHash =
                     [r.blocksHeightToBlockHash EXCEPT ![h] = b]]
  BY <1>1, <1>3, <1>7 DEF UpdateMainchainHead, b, p
<1>8. ASSUME p # s.mainchainHead, Work(r, b) > Work(s, s.mainchainHead)
      PROVE  t = [r EXCEPT !.mainchainHead = b,
                           !.blocksHeightToBlockHash = Refilled(r, b, p, h)]
  BY <1>1, <1>3, <1>4, <1>6, <1>8 DEF UpdateMainchainHead, Refilled, b, p
<1>9. ASSUME p # s.mainchainHead, ~(Work(r, b) > Work(s, s.mainchainHead))
      PROVE  t = r
  BY <1>1, <1>3, <1>4, <1>6, <1>9 DEF UpdateMainchainHead, b, p
<1>10. t.blocksData = r.blocksData
  <2>1. DOMAIN r = {"blocksData", "blocksHeightToBlockHash", "mainchainHead"}
    BY <1>1 DEF Storage
  <2>2. CASE p = s.mainchainHead
    BY <1>7, <2>1, <2>2
  <2>3. CASE p # s.mainchainHead /\ Work(r, b) > Work(s, s.mainchainHead)
    BY <1>8, <2>1, <2>3
  <2>4. CASE p # s.mainchainHead /\ ~(Work(r, b) > Work(s, s.mainchainHead))
    BY <1>9, <2>4
  <2>5. QED
    BY <2>2, <2>3, <2>4
<1>11. Overtakes(s, header) <=> p # s.mainchainHead /\ Work(r, b) > Work(s, s.mainchainHead)
  BY DEF Overtakes, b, p, r
<1>12. QED
  BY <1>7, <1>8, <1>9, <1>10, <1>11 DEF b, p, r, h, t

\* A child of the checkpoint never overtakes: the epoch's first blocks have one
\* target, so the head is at least as heavy.
LEMMA OvertakesAboveRoot ==
    ASSUME NEW s \in Storage, Tree(s), OneRoot(s), HeadIsHeaviest(s),
           NEW header, Fits(s, header), Overtakes(s, header)
    PROVE  Height(s, header.prevBlockHash) > InitHeight
<1> DEFINE b == header.hash
           p == header.prevBlockHash
           head == s.mainchainHead
           hh == HeadHeight(s)
<1>1. /\ b \in Block /\ p \in Block /\ Has(s, p) /\ ~Has(s, b) /\ head \in Block /\ Has(s, head)
      /\ p # head
  BY ReadTypes DEF Fits, Header, HeadIsHeaviest, Overtakes
<1>2. InitHeight \in Nat /\ Height(s, p) \in Nat /\ Height(s, p) >= InitHeight
      /\ hh \in Nat /\ hh >= InitHeight
  BY <1>1, Stands, HeightBounds DEF HeadHeight
<1> SUFFICES ASSUME Height(s, p) = InitHeight PROVE FALSE
  BY <1>2
<1>3. hh > InitHeight
  BY <1>1, <1>2 DEF OneRoot, HeadHeight
<1>4. ~IsTargetAdjustmentBlock(InitHeight + 1)
  <2>1. Interval \in Nat /\ Interval # 0 /\ Interval # 1 /\ InitHeight % Interval = 0
    BY GatewayAssumption, TargetsAssumption
  <2>2. (InitHeight + 1) % Interval # 0
    BY <1>2, <2>1, NextIsInside
  <2>3. QED
    BY <2>2 DEF IsTargetAdjustmentBlock
<1> DEFINE d == AncestorOf(s, head, hh - InitHeight - 1)
<1>5. d \in Block /\ Has(s, d) /\ Height(s, d) = InitHeight + 1
  <2> DEFINE n == hh - InitHeight - 1
  <2>1. n \in Nat /\ n <= Height(s, head) - InitHeight /\ Height(s, head) - n = InitHeight + 1
    BY <1>2, <1>3 DEF HeadHeight
  <2> HIDE DEF n
  <2>2. QED
    BY <1>1, <2>1, AncestorsStored DEF n
<1> HIDE DEF d
<1>6. Height(s, d) # InitHeight
  BY <1>2, <1>5
<1>7. OnParent(s, d)
  BY <1>5, <1>6, Stands
<1>8. Parent(s, d) = p
  <2>1. Parent(s, d) \in Block /\ Has(s, Parent(s, d)) /\ Height(s, Parent(s, d)) + 1 = InitHeight + 1
    BY <1>5, <1>7 DEF OnParent
  <2>2. Height(s, Parent(s, d)) = InitHeight
    BY <1>2, <2>1, ReadTypes
  <2>3. QED
    BY <1>1, <2>1, <2>2 DEF OneRoot
<1>9. Work(s, d) = Work(s, p) + CountBlockWork(Target(s, p))
  BY <1>4, <1>5, <1>7, <1>8 DEF OnParent
<1>10. header.target = Target(s, p)
  BY <1>4 DEF Fits
<1>11. Work(Recorded(s, header), b) = Work(s, d)
  BY <1>9, <1>10, RecordedFields
<1>12. Work(s, d) <= Work(s, head)
  BY <1>5 DEF HeadIsHeaviest
<1>13. Work(s, d) \in Nat /\ Work(s, head) \in Nat
  BY <1>1, <1>5, ReadTypes
<1>14. QED
  BY <1>11, <1>12, <1>13 DEF Overtakes

\* From the checkpoint to the head the index has an entry at each height.
LEMMA IndexReaches ==
    ASSUME NEW s \in Storage, Tree(s), IndexIsStored(s)
    PROVE  /\ InitHeight <= HeadHeight(s) /\ Has(s, s.mainchainHead)
           /\ s.blocksHeightToBlockHash[HeadHeight(s)] = s.mainchainHead
           /\ \A x \in Heights : s.blocksHeightToBlockHash[x] # NoBlock =>
                 /\ s.blocksHeightToBlockHash[x] \in Block /\ Has(s, s.blocksHeightToBlockHash[x])
                 /\ Height(s, s.blocksHeightToBlockHash[x]) = x /\ InitHeight <= x
           /\ \A x \in Heights : InitHeight <= x /\ x <= HeadHeight(s) =>
                 /\ s.blocksHeightToBlockHash[x] \in Block /\ Has(s, s.blocksHeightToBlockHash[x])
                 /\ Height(s, s.blocksHeightToBlockHash[x]) = x
<1> DEFINE index == s.blocksHeightToBlockHash
<1>1. /\ HeadHeight(s) \in Heights /\ s.mainchainHead \in Block /\ NoBlock \notin Block
      /\ \A x \in Heights : index[x] \in Block \cup {NoBlock}
  BY ReadTypes, GatewayAssumption
<1>2. /\ index[HeadHeight(s)] = s.mainchainHead
      /\ \A x \in Heights : index[x] # NoBlock => Has(s, index[x]) /\ Height(s, index[x]) = x
      /\ \A x, y \in Heights :
            InitHeight <= x /\ x <= y /\ index[y] # NoBlock => index[x] # NoBlock
  BY DEF IndexIsStored
<1> HIDE DEF index
<1>3. index[HeadHeight(s)] # NoBlock /\ Has(s, s.mainchainHead)
  BY <1>1, <1>2
<1>4. InitHeight <= HeadHeight(s)
  BY <1>1, <1>3, Stands DEF HeadHeight
<1>5. ASSUME NEW x \in Heights, index[x] # NoBlock
      PROVE  index[x] \in Block /\ Has(s, index[x]) /\ Height(s, index[x]) = x /\ InitHeight <= x
  <2>1. index[x] \in Block /\ Has(s, index[x]) /\ Height(s, index[x]) = x
    BY <1>1, <1>2, <1>5
  <2>2. Height(s, index[x]) >= InitHeight
    BY <2>1, Stands
  <2>3. QED
    BY <2>1, <2>2, HeightBounds
<1>6. ASSUME NEW x \in Heights, InitHeight <= x, x <= HeadHeight(s) PROVE index[x] # NoBlock
  BY <1>1, <1>2, <1>3, <1>6
<1>7. QED
  BY <1>2, <1>3, <1>4, <1>5, <1>6 DEF index

\* Where the back-fill leaves an entry alone at or above the checkpoint, it has
\* met the index above it; below the checkpoint it writes nothing.
LEMMA BackFillStops ==
    ASSUME NEW s \in Storage, Tree(s), OneRoot(s), IndexIsStored(s), NEW p \in Block, Has(s, p),
           Height(s, p) > InitHeight, NEW h \in Nat, h = Height(s, p) + 1, NEW x \in Heights
    PROVE  /\ InitHeight <= x /\ x < h /\ ~BackFilled(s, p, h, x) =>
                 \E y \in Heights :
                    /\ x <= y /\ y <= Height(s, p)
                    /\ AncestorOf(s, p, Height(s, p) - y) \in Block
                    /\ s.blocksHeightToBlockHash[y] = AncestorOf(s, p, Height(s, p) - y)
           /\ x < InitHeight => ~BackFilled(s, p, h, x)
           /\ x >= h => ~BackFilled(s, p, h, x)
<1> DEFINE A(n) == AncestorOf(s, p, n)
           index == s.blocksHeightToBlockHash
           hp == Height(s, p)
<1>1. /\ hp \in Nat /\ hp <= MaxHeight /\ InitHeight < hp /\ h - 1 = hp
      /\ InitHeight \in Nat /\ MaxHeight \in Nat /\ x \in Nat
  BY ReadTypes, HeightBounds
<1>2. \A n \in Nat : n <= hp - InitHeight =>
          A(n) \in Block /\ Has(s, A(n)) /\ Height(s, A(n)) = hp - n
  BY AncestorsStored
<1>3. h = hp + 1
  OBVIOUS
<1> HIDE DEF A, hp
<1>4. \A y \in Heights : GetBlockHash(s, y) = index[y]
  BY DEF GetBlockHash
<1>5. x >= h => ~BackFilled(s, p, h, x)
  BY <1>1, <1>3 DEF BackFilled
<1>6. ASSUME InitHeight <= x, x < h, ~BackFilled(s, p, h, x)
      PROVE  \E y \in Heights : x <= y /\ y <= hp /\ A(hp - y) \in Block /\ index[y] = A(hp - y)
  <2>1. PICK y \in x..(h - 2) : ~(GetBlockHash(s, y) # A(h - 1 - y) /\ A(h - 1 - y) # NoBlock)
    BY <1>6 DEF BackFilled, A
  <2>2. y \in Heights /\ InitHeight <= y /\ y <= hp /\ x <= y
        /\ hp - y \in Nat /\ hp - y <= hp - InitHeight /\ h - 1 - y = hp - y
    BY <1>1, <1>3, <1>6, <2>1 DEF Heights
  <2>3. A(hp - y) \in Block /\ A(hp - y) # NoBlock
    BY <1>2, <2>2, GatewayAssumption
  <2>4. index[y] = A(hp - y)
    BY <1>4, <2>1, <2>2, <2>3
  <2>5. QED
    BY <2>2, <2>3, <2>4
<1>7. ASSUME x < InitHeight, BackFilled(s, p, h, x) PROVE FALSE
  <2>1. InitHeight \in x..(h - 2) /\ InitHeight \in Heights
    BY <1>1, <1>3, <1>7, HeightBounds
  <2>2. GetBlockHash(s, InitHeight) # A(h - 1 - InitHeight)
    BY <1>7, <2>1 DEF BackFilled, A
  <2>3. index[InitHeight] # A(hp - InitHeight)
    BY <1>1, <1>4, <2>1, <2>2
  <2>4. index[InitHeight] \in Block /\ Has(s, index[InitHeight])
        /\ Height(s, index[InitHeight]) = InitHeight
    BY <1>1, <2>1, IndexReaches
  <2>5. A(hp - InitHeight) \in Block /\ Has(s, A(hp - InitHeight))
        /\ Height(s, A(hp - InitHeight)) = InitHeight
    <3>1. hp - InitHeight \in Nat /\ hp - (hp - InitHeight) = InitHeight
      BY <1>1
    <3>2. QED
      BY <1>2, <3>1
  <2>6. QED
    BY <2>3, <2>4, <2>5 DEF OneRoot
<1>8. QED
  BY <1>5, <1>6, <1>7 DEF A, hp

\* Storing a header leaves the index and what it names alone.
LEMMA RecordedIndex ==
    ASSUME NEW s, Sound(s), NEW header, Fits(s, header)
    PROVE  LET r == Recorded(s, header)
           IN  /\ HeadHeight(r) = HeadHeight(s) /\ Has(r, s.mainchainHead)
               /\ Work(r, s.mainchainHead) = Work(s, s.mainchainHead)
               /\ s.mainchainHead # header.hash
               /\ IndexIsStored(r)
               /\ IndexIsLinked(s) => IndexIsLinked(r)
               /\ \A m : ClearAbove(s, m) => ClearAbove(r, m)
<1> DEFINE b == header.hash
           r == Recorded(s, header)
           index == s.blocksHeightToBlockHash
<1>1. s \in Storage /\ Tree(s) /\ OneRoot(s) /\ HeadIsHeaviest(s) /\ IndexIsStored(s)
  BY DEF Sound
<1>2. r.mainchainHead = s.mainchainHead /\ r.blocksHeightToBlockHash = index
  BY <1>1, RecordedFields
<1>3. ~Has(s, b)
  BY DEF Fits
<1>4. ASSUME NEW d \in Block, Has(s, d)
      PROVE  /\ Has(r, d) /\ Height(r, d) = Height(s, d) /\ Parent(r, d) = Parent(s, d)
             /\ Work(r, d) = Work(s, d)
  BY <1>1, <1>3, <1>4, RecordedKeeps
<1>5. s.mainchainHead \in Block /\ Has(s, s.mainchainHead)
  BY <1>1, ReadTypes, IndexReaches
<1>6. /\ index[HeadHeight(s)] = s.mainchainHead
      /\ \A x \in Heights : index[x] # NoBlock =>
            index[x] \in Block /\ Has(s, index[x]) /\ Height(s, index[x]) = x
      /\ \A x \in Heights : InitHeight <= x /\ x <= HeadHeight(s) =>
            index[x] \in Block /\ Has(s, index[x])
      /\ \A x, y \in Heights :
            InitHeight <= x /\ x <= y /\ index[y] # NoBlock => index[x] # NoBlock
  BY <1>1, IndexReaches DEF IndexIsStored
<1> HIDE DEF b, r, index
<1>7. HeadHeight(r) = HeadHeight(s) /\ Has(r, s.mainchainHead)
      /\ Work(r, s.mainchainHead) = Work(s, s.mainchainHead) /\ s.mainchainHead # b
  BY <1>2, <1>3, <1>4, <1>5 DEF HeadHeight
<1>8. IndexIsStored(r)
  BY <1>2, <1>4, <1>6, <1>7 DEF IndexIsStored
<1>9. IndexIsLinked(s) => IndexIsLinked(r)
  <2>1. SUFFICES ASSUME IndexIsLinked(s), NEW x \in Heights, InitHeight < x, x <= HeadHeight(s)
                 PROVE  Parent(r, index[x]) = index[x - 1]
    BY <1>2, <1>7 DEF IndexIsLinked
  <2>2. Parent(s, index[x]) = index[x - 1]
    BY <2>1 DEF IndexIsLinked, index
  <2>3. InitHeight <= x
    BY <2>1, HeightBounds
  <2>4. QED
    BY <1>4, <1>6, <2>1, <2>2, <2>3
<1>10. \A m : ClearAbove(s, m) => ClearAbove(r, m)
  BY <1>2, <1>7 DEF ClearAbove, index
<1>11. QED
  BY <1>7, <1>8, <1>9, <1>10 DEF b, r

\* A storage is sound with a new head b of most work that its index names.
NewIndex(index, r, b) ==
    /\ index \in [Heights -> Block \cup {NoBlock}]
    /\ index[Height(r, b)] = b
    /\ \A x \in Heights : index[x] # NoBlock => Has(r, index[x]) /\ Height(r, index[x]) = x
    /\ \A x, y \in Heights : InitHeight <= x /\ x <= y /\ index[y] # NoBlock => index[x] # NoBlock

LEMMA NewHeadSound ==
    ASSUME NEW r \in Storage, Tree(r), OneRoot(r), NEW b \in Block, Has(r, b),
           \A d \in Block : Has(r, d) => Work(r, d) <= Work(r, b),
           NEW t \in Storage, t.blocksData = r.blocksData, t.mainchainHead = b,
           NewIndex(t.blocksHeightToBlockHash, r, b)
    PROVE  Sound(t) /\ HeadHeight(t) = Height(r, b)
<1>1. /\ t \in Storage /\ t.blocksData = r.blocksData /\ t.mainchainHead = b
  OBVIOUS
<1>2. \A d : /\ Has(t, d) = Has(r, d) /\ Height(t, d) = Height(r, d)
             /\ Parent(t, d) = Parent(r, d) /\ Target(t, d) = Target(r, d)
             /\ Work(t, d) = Work(r, d)
  BY <1>1 DEF Has, Height, Parent, Target, Work
<1>3. Tree(t) /\ OneRoot(t)
  BY <1>1, <1>2 DEF Tree, OneRoot, OnParent, IsRoot
<1>4. HeadHeight(t) = Height(r, b) /\ HeadIsHeaviest(t)
  BY <1>1, <1>2 DEF HeadHeight, HeadIsHeaviest
<1>5. IndexIsStored(t)
  BY <1>1, <1>2, <1>4 DEF IndexIsStored, NewIndex
<1>6. QED
  BY <1>1, <1>3, <1>4, <1>5 DEF Sound

\* What an added header leaves alone: stored blocks never change, and the index
\* changes only with the head, which moves to a new and heavier block.
Grows(s, t) ==
    /\ \A d \in Block : Has(s, d) => t.blocksData[d] = s.blocksData[d]
    /\ \/ t.mainchainHead = s.mainchainHead
          /\ t.blocksHeightToBlockHash = s.blocksHeightToBlockHash
       \/ ~Has(s, t.mainchainHead) /\ Work(t, t.mainchainHead) > Work(s, s.mainchainHead)

\* The index after a header on the head, or one that overtakes it.
LEMMA IndexAfter ==
    ASSUME NEW s, Sound(s), NEW header, Fits(s, header)
    PROVE  LET r == Recorded(s, header)
               b == header.hash
               p == header.prevBlockHash
               h == Height(s, p) + 1
           IN  /\ p = s.mainchainHead => NewIndex([r.blocksHeightToBlockHash EXCEPT ![h] = b], r, b)
               /\ Overtakes(s, header) => NewIndex(Refilled(r, b, p, h), r, b)
<1> DEFINE b == header.hash
           p == header.prevBlockHash
           r == Recorded(s, header)
           h == Height(s, p) + 1
           old == r.blocksHeightToBlockHash
<1>1. s \in Storage /\ Tree(s) /\ OneRoot(s) /\ HeadIsHeaviest(s) /\ IndexIsStored(s)
  BY DEF Sound
<1>2. /\ b \in Block /\ p \in Block /\ b # p /\ r \in Storage
      /\ r.mainchainHead = s.mainchainHead /\ Has(r, b) /\ Height(r, b) = h
  BY <1>1, RecordedFields
<1>3. Tree(r) /\ OneRoot(r) /\ IndexIsStored(r) /\ HeadHeight(r) = HeadHeight(s)
  BY <1>1, RecordedTree, RecordedIndex
<1>4. Has(r, p) /\ Height(r, p) = Height(s, p) /\ Has(s, p)
  BY <1>1, <1>2, RecordedKeeps DEF Fits
<1>5. /\ Height(s, p) \in Nat /\ h \in Nat /\ h \in Heights /\ Height(r, p) \in Nat
      /\ InitHeight <= Height(s, p) /\ InitHeight \in Nat
  <2>1. Height(s, p) \in Nat /\ InitHeight <= Height(s, p) /\ InitHeight \in Nat
    BY <1>1, <1>2, <1>4, Stands, HeightBounds
  <2>2. h \in Nat /\ h <= MaxHeight
    BY <2>1 DEF Fits
  <2>3. QED
    BY <1>4, <2>1, <2>2, HeightBounds
<1>6. /\ \A x \in Heights : x \in Nat /\ old[x] \in Block \cup {NoBlock}
      /\ \A x \in Heights : old[x] # NoBlock => Has(r, old[x]) /\ Height(r, old[x]) = x
      /\ \A x, y \in Heights :
            InitHeight <= x /\ x <= y /\ old[y] # NoBlock => old[x] # NoBlock
  BY <1>2, <1>3, ReadTypes, HeightBounds DEF IndexIsStored
<1>7. b # NoBlock
  BY <1>2, GatewayAssumption
<1>8. old \in [Heights -> Block \cup {NoBlock}]
  BY <1>2, ReadTypes
<1>9. r.mainchainHead \in Block /\ HeadHeight(r) \in Heights /\ HeadHeight(r) \in Nat
      /\ old[HeadHeight(r)] = r.mainchainHead /\ old[HeadHeight(r)] # NoBlock
  BY <1>2, <1>3, ReadTypes, GatewayAssumption DEF IndexIsStored
<1> HIDE DEF b, p, r, h, old
<1>10. ASSUME p = s.mainchainHead
       PROVE  NewIndex([old EXCEPT ![h] = b], r, b)
  <2> DEFINE index == [old EXCEPT ![h] = b]
  <2>1. h = HeadHeight(r) + 1
    BY <1>3, <1>10 DEF h, HeadHeight
  <2>2. /\ index \in [Heights -> Block \cup {NoBlock}] /\ index[h] = b
        /\ \A x \in Heights : x # h => index[x] = old[x]
    BY <1>2, <1>5, <1>8
  <2> HIDE DEF index
  <2>3. ASSUME NEW x \in Heights, index[x] # NoBlock
        PROVE  Has(r, index[x]) /\ Height(r, index[x]) = x
    BY <1>2, <1>6, <2>2, <2>3
  <2>4. ASSUME NEW x \in Heights, NEW y \in Heights, InitHeight <= x, x <= y, index[y] # NoBlock
        PROVE  index[x] # NoBlock
    <3>1. CASE x = h
      BY <1>7, <2>2, <3>1
    <3>2. CASE x # h /\ y # h
      BY <1>6, <2>2, <2>4, <3>2
    <3>3. CASE x # h /\ y = h
      <4>1. x <= HeadHeight(r)
        BY <1>6, <1>9, <2>1, <2>4, <3>3
      <4>2. old[x] # NoBlock
        BY <1>6, <1>9, <2>4, <4>1
      <4>3. QED
        BY <2>2, <3>3, <4>2
    <3>4. QED
      BY <3>1, <3>2, <3>3
  <2>5. QED
    BY <1>2, <2>2, <2>3, <2>4 DEF NewIndex, index
<1>11. ASSUME Overtakes(s, header)
       PROVE  NewIndex(Refilled(r, b, p, h), r, b)
  <2> DEFINE index == Refilled(r, b, p, h)
  <2>1. Height(s, p) > InitHeight
    BY <1>1, <1>11, OvertakesAboveRoot DEF p
  <2>2. ASSUME NEW x \in Heights
        PROVE  /\ InitHeight <= x /\ x < h /\ ~BackFilled(r, p, h, x) =>
                     \E y \in Heights : /\ x <= y /\ y <= Height(r, p)
                                        /\ AncestorOf(r, p, Height(r, p) - y) \in Block
                                        /\ old[y] = AncestorOf(r, p, Height(r, p) - y)
               /\ x < InitHeight => ~BackFilled(r, p, h, x)
               /\ x >= h => ~BackFilled(r, p, h, x)
    <3>1. h = Height(r, p) + 1 /\ Height(r, p) > InitHeight
      BY <1>4, <2>1 DEF h
    <3>2. QED
      BY <1>2, <1>3, <1>4, <1>5, <3>1, BackFillStops DEF old
  <2>3. ASSUME NEW x \in Heights, InitHeight <= x, x < h
        PROVE  LET a == AncestorOf(r, p, h - 1 - x)
               IN  a \in Block /\ Has(r, a) /\ Height(r, a) = x
    <3>1. h - 1 - x \in Nat /\ h - 1 - x <= Height(r, p) - InitHeight
          /\ Height(r, p) - (h - 1 - x) = x
      <4>1. h = Height(r, p) + 1 /\ x \in Nat
        BY <1>4, <1>6 DEF h
      <4>2. QED
        BY <1>5, <2>3, <4>1
    <3>2. QED
      BY <1>2, <1>3, <1>4, <3>1, AncestorsStored
  <2>4. index[h] = b
    BY <1>5 DEF Refilled
  <2>5. ASSUME NEW x \in Heights, x # h
        PROVE  index[x] = IF BackFilled(r, p, h, x) THEN AncestorOf(r, p, h - 1 - x) ELSE old[x]
    BY <2>5 DEF Refilled, old
  <2>6. ASSUME NEW x \in Heights, x # h, BackFilled(r, p, h, x)
        PROVE  index[x] \in Block /\ Has(r, index[x]) /\ Height(r, index[x]) = x
    <3>1. InitHeight <= x /\ x < h
      BY <1>5, <1>6, <2>2, <2>6
    <3>2. QED
      BY <2>3, <2>5, <2>6, <3>1
  <2>7. index = [x \in Heights |-> index[x]]
    BY DEF Refilled
  <2> HIDE DEF index
  <2>8. ASSUME NEW x \in Heights
        PROVE  /\ index[x] \in Block \cup {NoBlock}
               /\ index[x] # NoBlock => Has(r, index[x]) /\ Height(r, index[x]) = x
    <3>1. CASE x = h
      BY <1>2, <2>4, <3>1
    <3>2. CASE x # h /\ BackFilled(r, p, h, x)
      BY <2>6, <3>2
    <3>3. CASE x # h /\ ~BackFilled(r, p, h, x)
      BY <1>6, <2>5, <3>3
    <3>4. QED
      BY <3>1, <3>2, <3>3
  <2>9. ASSUME NEW x \in Heights, InitHeight <= x, x <= h PROVE index[x] # NoBlock
    <3>1. CASE x = h
      BY <1>7, <2>4, <3>1
    <3>2. CASE x # h /\ BackFilled(r, p, h, x)
      BY <2>6, <3>2, GatewayAssumption
    <3>3. CASE x # h /\ ~BackFilled(r, p, h, x)
      <4>1. x < h
        BY <1>5, <1>6, <2>9, <3>3
      <4>2. PICK y \in Heights : x <= y /\ old[y] \in Block
        BY <2>2, <2>9, <3>3, <4>1
      <4>3. old[y] # NoBlock
        BY <4>2, GatewayAssumption
      <4>4. old[x] # NoBlock
        BY <1>6, <2>9, <4>2, <4>3
      <4>5. QED
        BY <2>5, <3>3, <4>4
    <3>4. QED
      BY <3>1, <3>2, <3>3
  <2>10. ASSUME NEW x \in Heights, NEW y \in Heights, InitHeight <= x, x <= y, index[y] # NoBlock
         PROVE  index[x] # NoBlock
    <3>1. CASE x <= h
      BY <2>9, <2>10, <3>1
    <3>2. CASE ~(x <= h)
      <4>1. x # h /\ y # h /\ x >= h /\ y >= h
        BY <1>5, <1>6, <2>10, <3>2
      <4>2. index[x] = old[x] /\ index[y] = old[y]
        BY <2>2, <2>5, <4>1
      <4>3. QED
        BY <1>6, <2>10, <4>2
    <3>3. QED
      BY <3>1, <3>2
  <2>11. index \in [Heights -> Block \cup {NoBlock}]
    BY <2>7, <2>8
  <2>12. QED
    BY <1>2, <2>4, <2>8, <2>10, <2>11 DEF NewIndex, index
<1>12. QED
  BY <1>10, <1>11 DEF b, p, r, h, old

\* An added header keeps the storage sound, whatever its target.
LEMMA AddedSound ==
    ASSUME NEW s, Sound(s), NEW header, Fits(s, header)
    PROVE  LET t == Added(s, header)
           IN  /\ Sound(t) /\ Grows(s, t) /\ t.blocksData = Recorded(s, header).blocksData
               /\ t.mainchainHead = header.hash => HeadHeight(t) = Height(s, header.prevBlockHash) + 1
               /\ \/ t.mainchainHead = header.hash
                  \/ /\ header.prevBlockHash # s.mainchainHead
                     /\ t.mainchainHead = s.mainchainHead
                     /\ t.blocksHeightToBlockHash = s.blocksHeightToBlockHash
<1> DEFINE b == header.hash
           p == header.prevBlockHash
           r == Recorded(s, header)
           h == Height(s, p) + 1
           t == Added(s, header)
           head == s.mainchainHead
<1>1. s \in Storage /\ Tree(s) /\ OneRoot(s) /\ HeadIsHeaviest(s) /\ IndexIsStored(s)
  BY DEF Sound
<1>2. /\ b \in Block /\ p \in Block /\ b # p /\ r \in Storage
      /\ r.mainchainHead = head /\ r.blocksHeightToBlockHash = s.blocksHeightToBlockHash
      /\ Has(r, b) /\ Height(r, b) = h
      /\ Work(r, b) = Work(s, p) + CountBlockWork(header.target)
  BY <1>1, RecordedFields
<1>3. /\ Tree(r) /\ OneRoot(r) /\ IndexIsStored(r) /\ HeadHeight(r) = HeadHeight(s)
      /\ Has(r, head) /\ Work(r, head) = Work(s, head) /\ head # b
  BY <1>1, RecordedTree, RecordedIndex
<1>4. /\ t.blocksData = r.blocksData
      /\ p = head => t = [r EXCEPT !.mainchainHead = b, !.blocksHeightToBlockHash =
                              [r.blocksHeightToBlockHash EXCEPT ![h] = b]]
      /\ Overtakes(s, header) => t = [r EXCEPT !.mainchainHead = b,
                                      !.blocksHeightToBlockHash = Refilled(r, b, p, h)]
      /\ p # head /\ ~Overtakes(s, header) => t = r
  BY <1>1, AddedFields
<1>5. /\ p = head => NewIndex([r.blocksHeightToBlockHash EXCEPT ![h] = b], r, b)
      /\ Overtakes(s, header) => NewIndex(Refilled(r, b, p, h), r, b)
  BY IndexAfter
<1>6. ~Has(s, b) /\ header.target \in HeaderTarget /\ CountBlockWork(header.target) \in Nat \ {0}
  BY GatewayAssumption DEF Fits, Header
<1>7. ASSUME NEW d \in Block, d # b
      PROVE  Has(r, d) = Has(s, d) /\ Work(r, d) = Work(s, d) /\ r.blocksData[d] = s.blocksData[d]
  BY <1>1, <1>7, RecordedKeeps
<1>8. head \in Block /\ Work(s, head) \in Nat /\ Work(r, b) \in Nat
      /\ \A d \in Block : Work(s, d) \in Nat
  BY <1>1, <1>2, ReadTypes
<1>9. Overtakes(s, header) <=> p # head /\ Work(r, b) > Work(s, head)
  BY DEF Overtakes
<1> HIDE DEF b, p, r, h, t, head
<1>10. \A d \in Block : Has(s, d) => Work(s, d) <= Work(s, head)
  BY <1>1 DEF HeadIsHeaviest, head
<1>11. \A d \in Block : Has(s, d) => t.blocksData[d] = s.blocksData[d]
  BY <1>4, <1>6, <1>7
<1>12. ASSUME Work(r, b) > Work(s, head)
       PROVE  \A d \in Block : Has(r, d) => Work(r, d) <= Work(r, b)
  <2>1. SUFFICES ASSUME NEW d \in Block, Has(r, d), d # b PROVE Work(r, d) <= Work(r, b)
    BY <1>8
  <2>2. Work(r, d) = Work(s, d) /\ Work(s, d) <= Work(s, head) /\ Work(s, d) \in Nat
    BY <1>7, <1>8, <1>10, <2>1
  <2>3. QED
    BY <1>8, <1>12, <2>2
<1>13. ASSUME NEW index, NewIndex(index, r, b), Work(r, b) > Work(s, head),
              t = [r EXCEPT !.mainchainHead = b, !.blocksHeightToBlockHash = index]
       PROVE  Sound(t) /\ Grows(s, t) /\ t.mainchainHead = b /\ HeadHeight(t) = h
  <2>1. Sound(t) /\ t.mainchainHead = b /\ HeadHeight(t) = h
    <3>1. \A d \in Block : Has(r, d) => Work(r, d) <= Work(r, b)
      BY <1>12, <1>13
    <3>2. /\ r \in Storage /\ Tree(r) /\ OneRoot(r) /\ b \in Block /\ Has(r, b)
          /\ NewIndex(index, r, b) /\ Height(r, b) = h
      BY <1>2, <1>3, <1>13
    <3>3. /\ t \in Storage /\ t.mainchainHead = b /\ t.blocksData = r.blocksData
          /\ t.blocksHeightToBlockHash = index
      BY <1>13, <3>2 DEF Storage, NewIndex
    <3>4. Sound(t) /\ HeadHeight(t) = Height(r, b)
      BY <3>1, <3>2, <3>3, NewHeadSound
    <3>5. QED
      BY <3>2, <3>3, <3>4
  <2>2. Work(t, b) = Work(r, b)
    BY <1>4 DEF Work
  <2>3. Grows(s, t)
    BY <1>6, <1>11, <1>13, <2>1, <2>2 DEF Grows, head
  <2>4. QED
    BY <2>1, <2>3
<1>14. CASE p = head
  <2>1. Work(r, b) > Work(s, head)
    <3>1. Work(s, p) \in Nat
      BY <1>2, <1>8
    <3>2. QED
      BY <1>2, <1>6, <1>14, <3>1
  <2>2. Sound(t) /\ Grows(s, t) /\ t.mainchainHead = b /\ HeadHeight(t) = h
    BY <1>4, <1>5, <1>13, <1>14, <2>1
  <2>3. QED
    BY <1>4, <2>2 DEF t, b, p, h, r
<1>15. CASE Overtakes(s, header)
  <2>1. Sound(t) /\ Grows(s, t) /\ t.mainchainHead = b /\ HeadHeight(t) = h
    BY <1>4, <1>5, <1>9, <1>13, <1>15
  <2>2. QED
    BY <1>4, <2>1 DEF t, b, p, h, r
<1>16. CASE p # head /\ ~Overtakes(s, header)
  <2>1. t = r
    BY <1>4, <1>16
  <2>2. HeadIsHeaviest(r)
    <3>1. ASSUME NEW d \in Block, Has(r, d) PROVE Work(r, d) <= Work(s, head)
      <4>1. CASE d = b
        BY <1>8, <1>9, <1>16, <4>1
      <4>2. CASE d # b
        BY <1>7, <1>10, <3>1, <4>2
      <4>3. QED
        BY <4>1, <4>2
    <3>2. QED
      BY <1>2, <1>3, <3>1 DEF HeadIsHeaviest
  <2>3. Sound(r)
    BY <1>2, <1>3, <2>2 DEF Sound
  <2>4. Grows(s, t)
    BY <1>2, <1>11, <2>1 DEF Grows, head
  <2>5. QED
    BY <1>2, <1>3, <1>4, <1>16, <2>1, <2>3, <2>4 DEF t, b, p, h, r, head
<1>17. QED
  BY <1>14, <1>15, <1>16, <1>9

-----------------------------------------------------------------------------
(* The index as a path. *)

\* Where the index meets the walk from p it follows it down to the checkpoint.
LEMMA IndexFollowsWalk ==
    ASSUME NEW s \in Storage, Tree(s), IndexIsStored(s), IndexIsLinked(s),
           NEW p \in Block, Has(s, p),
           NEW y \in Nat, InitHeight <= y, y <= HeadHeight(s), y <= Height(s, p),
           s.blocksHeightToBlockHash[y] = AncestorOf(s, p, Height(s, p) - y)
    PROVE  \A x \in Nat : InitHeight <= x /\ x <= y =>
               s.blocksHeightToBlockHash[x] = AncestorOf(s, p, Height(s, p) - x)
<1> DEFINE A(n) == AncestorOf(s, p, n)
           index == s.blocksHeightToBlockHash
           hp == Height(s, p)
           T == {k \in Nat : k <= y - InitHeight => index[y - k] = A(hp - y + k)}
<1>1. hp \in Nat /\ HeadHeight(s) \in Nat /\ HeadHeight(s) <= MaxHeight
      /\ InitHeight \in Nat /\ MaxHeight \in Nat
  BY ReadTypes, HeightBounds
<1>2. \A n \in Nat : A(n + 1) = Data(s, A(n)).prevBlockHash
  BY AncestorSteps, ZenonT(30)
<1>3. \A n \in Nat : n <= hp - InitHeight => A(n) \in Block
  BY AncestorsStored
<1> HIDE DEF A, hp
<1>4. 0 \in T
  <2>1. y - 0 = y /\ hp - y + 0 = hp - y
    BY <1>1
  <2>2. QED
    BY <2>1 DEF A, hp
<1>5. ASSUME NEW k \in T PROVE k + 1 \in T
  <2>1. SUFFICES ASSUME k + 1 <= y - InitHeight
                 PROVE  index[y - (k + 1)] = A(hp - y + (k + 1))
    OBVIOUS
  <2>2. index[y - k] = A(hp - y + k)
    BY <1>1, <2>1
  <2>3. hp >= y
    BY DEF hp
  <2> DEFINE n == hp - y + k
             x == y - k
  <2>4. /\ n \in Nat /\ n + 1 = hp - y + (k + 1) /\ n <= hp - InitHeight
        /\ x \in Heights /\ InitHeight < x /\ x <= HeadHeight(s) /\ x - 1 = y - (k + 1)
    BY <1>1, <2>1, <2>3 DEF Heights
  <2> HIDE DEF n, x
  <2>5. index[x] = A(n) /\ A(n) \in Block
    BY <1>3, <2>2, <2>4 DEF n, x
  <2>6. Parent(s, index[x]) = index[x - 1]
    BY <2>4 DEF IndexIsLinked
  <2>7. A(n + 1) = Parent(s, A(n))
    BY <1>2, <2>4, <2>5, Reads DEF Parent
  <2>8. index[x - 1] = A(n + 1)
    BY <2>5, <2>6, <2>7
  <2>9. QED
    BY <2>4, <2>8
<1> HIDE DEF T
<1>6. T \in SUBSET Nat
  BY DEF T
<1>7. \A k \in Nat : k \in T
  BY <1>4, <1>5, <1>6, SetInduction
<1>8. ASSUME NEW x \in Nat, InitHeight <= x, x <= y PROVE index[x] = A(hp - x)
  <2>1. y - x \in Nat /\ y - x <= y - InitHeight /\ y - (y - x) = x /\ hp - y + (y - x) = hp - x
    BY <1>1, <1>8
  <2>2. y - x \in T
    BY <1>7, <2>1
  <2> HIDE DEF index
  <2>3. index[y - (y - x)] = A(hp - y + (y - x))
    BY <2>1, <2>2 DEF T, index
  <2>4. QED
    BY <2>1, <2>3
<1>9. QED
  BY <1>8 DEF A, hp

\* Where the index was the path to the head and nothing else, the back-fill
\* leaves the chain of p at every height from the checkpoint to p, whether it
\* wrote it or stopped above it.
LEMMA BackFillCompletes ==
    ASSUME NEW s \in Storage, Tree(s), OneRoot(s), IndexIsStored(s), IndexIsPath(s),
           NEW p \in Block, Has(s, p), Height(s, p) > InitHeight,
           NEW h \in Nat, h = Height(s, p) + 1,
           NEW x \in Heights, InitHeight <= x, x < h, ~BackFilled(s, p, h, x)
    PROVE  s.blocksHeightToBlockHash[x] = AncestorOf(s, p, Height(s, p) - x)
<1> DEFINE index == s.blocksHeightToBlockHash
<1>1. PICK y \in Heights : /\ x <= y /\ y <= Height(s, p)
                           /\ AncestorOf(s, p, Height(s, p) - y) \in Block
                           /\ index[y] = AncestorOf(s, p, Height(s, p) - y)
  BY BackFillStops
<1>2. x \in Nat /\ y \in Nat /\ InitHeight \in Nat /\ HeadHeight(s) \in Nat
  BY ReadTypes, HeightBounds
<1>3. index[y] # NoBlock
  BY <1>1, GatewayAssumption
<1>4. y <= HeadHeight(s)
  BY <1>2, <1>3 DEF IndexIsPath, ClearAbove
<1>5. InitHeight <= y /\ IndexIsLinked(s)
  BY <1>1, <1>2 DEF IndexIsPath
<1>6. QED
  BY <1>1, <1>2, <1>4, <1>5, IndexFollowsWalk

\* The index holds b over the chain of p.
ChainIndex(index, r, b, p) ==
    /\ index[Height(r, b)] = b
    /\ \A x \in Heights : InitHeight <= x /\ x < Height(r, b) =>
          index[x] = AncestorOf(r, p, Height(r, p) - x)

\* Then it is linked up to b.
LEMMA ChainIsLinked ==
    ASSUME NEW r \in Storage, Tree(r), NEW b \in Block, Has(r, b), NEW p \in Block, Has(r, p),
           Parent(r, b) = p, Height(r, b) = Height(r, p) + 1,
           NEW t, t.blocksData = r.blocksData, t.mainchainHead = b,
           ChainIndex(t.blocksHeightToBlockHash, r, b, p)
    PROVE  IndexIsLinked(t)
<1> DEFINE A(n) == AncestorOf(r, p, n)
           hp == Height(r, p)
           hb == Height(r, b)
           index == t.blocksHeightToBlockHash
<1>1. HeadHeight(t) = hb /\ \A d : Parent(t, d) = Parent(r, d)
  BY DEF HeadHeight, Height, Parent
<1>2. hp \in Nat /\ hb \in Nat /\ hb = hp + 1 /\ InitHeight \in Nat /\ hb <= MaxHeight
  BY ReadTypes, HeightBounds
<1>3. \A n \in Nat : n <= hp - InitHeight => A(n) \in Block
  BY AncestorsStored
<1>4. A(0) = p /\ \A n \in Nat : A(n + 1) = Data(r, A(n)).prevBlockHash
  BY AncestorSteps, ZenonT(30)
<1>5. \A x \in Heights : InitHeight <= x /\ x < hb => index[x] = A(hp - x)
  BY DEF ChainIndex
<1>6. index[hb] = b /\ Parent(r, b) = p
  BY DEF ChainIndex
<1> HIDE DEF A, hp, hb, index
<1>7. ASSUME NEW x \in Heights, InitHeight < x, x <= hb
      PROVE  Parent(r, index[x]) = index[x - 1]
  <2>1. x \in Nat /\ x - 1 \in Heights /\ InitHeight <= x - 1 /\ x - 1 < hb
    BY <1>2, <1>7, HeightBounds
  <2>2. index[x - 1] = A(hp - (x - 1))
    BY <1>5, <2>1
  <2>3. CASE x = hb
    <3>1. hp - (x - 1) = 0
      BY <1>2, <2>3
    <3>2. QED
      BY <1>4, <1>6, <2>2, <2>3, <3>1
  <2>4. CASE x # hb
    <3>1. hp - x \in Nat /\ hp - (x - 1) = (hp - x) + 1 /\ hp - x <= hp - InitHeight /\ x < hb
          /\ InitHeight <= x
      BY <1>2, <1>7, <2>1, <2>4
    <3>2. index[x] = A(hp - x) /\ A(hp - x) \in Block
      BY <1>3, <1>5, <3>1
    <3>3. A((hp - x) + 1) = Parent(r, A(hp - x))
      BY <1>4, <3>1, <3>2, Reads DEF Parent
    <3>4. QED
      BY <2>2, <3>1, <3>2, <3>3
  <2>5. QED
    BY <2>3, <2>4
<1>8. QED
  BY <1>1, <1>7 DEF IndexIsLinked, index

\* A header on the head extends the path, and clears nothing.
LEMMA AddedOnHead ==
    ASSUME NEW s, Sound(s), NEW header, Fits(s, header),
           header.prevBlockHash = s.mainchainHead, IndexIsLinked(s),
           NEW m \in Nat, ClearAbove(s, m)
    PROVE  IndexIsLinked(Added(s, header)) /\ ClearAbove(Added(s, header), m)
<1> DEFINE b == header.hash
           p == header.prevBlockHash
           r == Recorded(s, header)
           h == Height(s, p) + 1
           t == Added(s, header)
           old == s.blocksHeightToBlockHash
<1>1. s \in Storage /\ Tree(s) /\ OneRoot(s) /\ HeadIsHeaviest(s) /\ IndexIsStored(s)
  BY DEF Sound
<1>2. /\ b \in Block /\ p \in Block /\ b # p /\ r \in Storage /\ r.mainchainHead = s.mainchainHead
      /\ r.blocksHeightToBlockHash = old /\ Parent(r, b) = p /\ Height(r, b) = h
  BY <1>1, RecordedFields
<1>3. IndexIsLinked(r) /\ IndexIsStored(r) /\ HeadHeight(r) = HeadHeight(s)
  BY RecordedIndex
<1>4. t = [r EXCEPT !.mainchainHead = b, !.blocksHeightToBlockHash = [old EXCEPT ![h] = b]]
  BY <1>1, <1>2, AddedFields
<1>5. h = HeadHeight(s) + 1 /\ HeadHeight(s) \in Nat /\ h \in Heights /\ InitHeight \in Nat
  <2>1. HeadHeight(s) \in Nat /\ h = HeadHeight(s) + 1 /\ h <= MaxHeight
    BY <1>1, ReadTypes DEF HeadHeight, Fits
  <2>2. QED
    BY <2>1, HeightBounds
<1>6. old \in [Heights -> Block \cup {NoBlock}] /\ old[HeadHeight(s)] = p
  BY <1>1, ReadTypes DEF IndexIsStored
<1> HIDE DEF b, p, r, h, t, old
<1>7. /\ t.blocksData = r.blocksData /\ t.mainchainHead = b
      /\ t.blocksHeightToBlockHash = [old EXCEPT ![h] = b]
  BY <1>2, <1>4 DEF Storage
<1>8. HeadHeight(t) = h /\ \A d : Parent(t, d) = Parent(r, d)
  BY <1>2, <1>7 DEF HeadHeight, Height, Parent
<1>9. t.blocksHeightToBlockHash[h] = b
      /\ \A x \in Heights : x # h => t.blocksHeightToBlockHash[x] = old[x]
  BY <1>5, <1>6, <1>7
<1>10. ASSUME NEW x \in Heights, InitHeight < x, x <= h
       PROVE  Parent(t, t.blocksHeightToBlockHash[x]) = t.blocksHeightToBlockHash[x - 1]
  <2>1. x \in Nat /\ x - 1 \in Heights /\ x - 1 # h
    BY <1>5, <1>10, HeightBounds DEF Heights
  <2>2. CASE x = h
    <3>1. x - 1 = HeadHeight(s)
      BY <1>5, <2>2
    <3>2. QED
      BY <1>2, <1>6, <1>8, <1>9, <2>1, <2>2, <3>1
  <2>3. CASE x # h
    <3>1. x <= HeadHeight(r)
      BY <1>3, <1>5, <1>10, <2>1, <2>3
    <3>2. Parent(r, old[x]) = old[x - 1]
      BY <1>2, <1>3, <1>10, <3>1 DEF IndexIsLinked
    <3>3. QED
      BY <1>8, <1>9, <2>1, <2>3, <3>2
  <2>4. QED
    BY <2>2, <2>3
<1>11. IndexIsLinked(t)
  BY <1>8, <1>10 DEF IndexIsLinked
<1>12. ASSUME NEW x \in Heights, x > h, x > m PROVE t.blocksHeightToBlockHash[x] = NoBlock
  <2>1. x # h /\ x > HeadHeight(s)
    <3>1. x \in Nat
      BY HeightBounds
    <3>2. QED
      BY <1>5, <1>12, <3>1
  <2>2. old[x] = NoBlock
    BY <1>12, <2>1 DEF ClearAbove, old
  <2>3. QED
    BY <1>9, <2>1, <2>2
<1>13. ClearAbove(t, m)
  BY <1>8, <1>12 DEF ClearAbove
<1>14. QED
  BY <1>11, <1>13 DEF t

\* A header that overtakes the head makes the index its path; entries stay
\* above it as high as the old head.
LEMMA AddedOvertakes ==
    ASSUME NEW s, Good(s), NEW header, Fits(s, header), Overtakes(s, header)
    PROVE  IndexIsLinked(Added(s, header)) /\ ClearAbove(Added(s, header), HeadHeight(s))
<1> DEFINE b == header.hash
           p == header.prevBlockHash
           r == Recorded(s, header)
           h == Height(s, p) + 1
           t == Added(s, header)
           old == s.blocksHeightToBlockHash
           index == Refilled(r, b, p, h)
<1>1. s \in Storage /\ Tree(s) /\ OneRoot(s) /\ HeadIsHeaviest(s) /\ IndexIsStored(s) /\ Sound(s)
      /\ IndexIsPath(s)
  BY DEF Good, Sound
<1>2. /\ b \in Block /\ p \in Block /\ b # p /\ r \in Storage /\ r.mainchainHead = s.mainchainHead
      /\ r.blocksHeightToBlockHash = old /\ Parent(r, b) = p /\ Height(r, b) = h /\ Has(r, b)
  BY <1>1, RecordedFields
<1>3. /\ Tree(r) /\ OneRoot(r) /\ IndexIsStored(r) /\ HeadHeight(r) = HeadHeight(s)
      /\ IndexIsPath(r)
  BY <1>1, RecordedTree, RecordedIndex DEF IndexIsPath
<1>4. t = [r EXCEPT !.mainchainHead = b, !.blocksHeightToBlockHash = index]
  BY <1>1, AddedFields
<1>5. Has(r, p) /\ Height(r, p) = Height(s, p)
  BY <1>1, <1>2, RecordedKeeps DEF Fits
<1>6. Height(s, p) > InitHeight
  BY <1>1, OvertakesAboveRoot
<1>7. Height(s, p) \in Nat /\ h \in Nat /\ h \in Heights /\ InitHeight \in Nat /\ HeadHeight(s) \in Nat
  <2>1. Height(s, p) \in Nat /\ HeadHeight(s) \in Nat /\ h <= MaxHeight
    BY <1>1, <1>2, ReadTypes DEF Fits
  <2>2. QED
    BY <2>1, HeightBounds
<1>8. \A x \in Heights : index[x] = IF x = h THEN b
                                    ELSE IF BackFilled(r, p, h, x) THEN AncestorOf(r, p, h - 1 - x)
                                         ELSE old[x]
  BY <1>2 DEF Refilled
<1>9. /\ t.blocksData = r.blocksData /\ t.mainchainHead = b /\ t.blocksHeightToBlockHash = index
  <2> HIDE DEF index, r, b, t
  <2>1. QED
    BY <1>2, <1>4 DEF Storage
<1>10. h = Height(r, p) + 1 /\ h - 1 = Height(r, p) /\ Height(r, p) > InitHeight
  BY <1>5, <1>6, <1>7
<1> HIDE DEF b, p, r, h, t, old, index
<1>11. ASSUME NEW x \in Heights, InitHeight <= x, x < h
       PROVE  index[x] = AncestorOf(r, p, Height(r, p) - x)
  <2>1. x # h /\ h - 1 - x = Height(r, p) - x
    BY <1>7, <1>10, <1>11, HeightBounds
  <2>2. CASE BackFilled(r, p, h, x)
    BY <1>8, <2>1, <2>2
  <2>3. CASE ~BackFilled(r, p, h, x)
    <3>1. old[x] = AncestorOf(r, p, Height(r, p) - x)
      BY <1>2, <1>3, <1>5, <1>7, <1>10, <1>11, <2>3, BackFillCompletes
    <3>2. QED
      BY <1>8, <2>1, <2>3, <3>1
  <2>4. QED
    BY <2>2, <2>3
<1>12. IndexIsLinked(t)
  <2>1. index[h] = b
    BY <1>7, <1>8
  <2>2. ChainIndex(index, r, b, p)
    BY <1>2, <1>11, <2>1 DEF ChainIndex
  <2>3. QED
    BY <1>2, <1>3, <1>5, <1>9, <1>10, <2>2, ChainIsLinked
<1>13. HeadHeight(t) = h
  BY <1>2, <1>9 DEF HeadHeight, Height
<1>14. ASSUME NEW x \in Heights, x > h, x > HeadHeight(s) PROVE index[x] = NoBlock
  <2>1. x # h /\ x >= h
    BY <1>7, <1>14, HeightBounds
  <2>2. ~BackFilled(r, p, h, x)
    BY <1>7, <1>14, HeightBounds DEF BackFilled
  <2>3. old[x] = NoBlock
    BY <1>1, <1>14 DEF IndexIsPath, ClearAbove, old
  <2>4. QED
    BY <1>8, <2>1, <2>2, <2>3
<1>15. ClearAbove(t, HeadHeight(s))
  BY <1>9, <1>13, <1>14 DEF ClearAbove
<1>16. QED
  BY <1>12, <1>15 DEF t

LEMMA AddedPath ==
    ASSUME NEW s, Good(s), NEW header, Fits(s, header)
    PROVE  IndexIsLinked(Added(s, header)) /\ ClearAbove(Added(s, header), HeadHeight(s))
<1>1. Sound(s) /\ IndexIsLinked(s) /\ ClearAbove(s, HeadHeight(s))
  BY DEF Good, IndexIsPath
<1>2. s \in Storage /\ Tree(s) /\ HeadIsHeaviest(s)
  BY <1>1 DEF Sound
<1>3. HeadHeight(s) \in Nat
  BY <1>2, ReadTypes
<1>4. CASE header.prevBlockHash = s.mainchainHead
  BY <1>1, <1>3, <1>4, AddedOnHead
<1>5. CASE Overtakes(s, header)
  BY <1>5, AddedOvertakes
<1>6. CASE header.prevBlockHash # s.mainchainHead /\ ~Overtakes(s, header)
  <2>1. Added(s, header) = Recorded(s, header)
    BY <1>2, <1>6, AddedFields
  <2>2. QED
    BY <1>1, <2>1, RecordedIndex
<1>7. QED
  BY <1>4, <1>5, <1>6

-----------------------------------------------------------------------------
(* The specification keeps the storage sound. *)

\* The deployment leaves a tree of one block.
LEMMA InitGood ==
    ASSUME Init
    PROVE  Good(spv)
<1>1. PICK c \in Block, time \in Time, target \in HeaderTarget :
        spv = AddBlock([blocksData |-> [b \in Block |-> ZeroBlock],
                        blocksHeightToBlockHash |-> [h \in Heights |-> NoBlock],
                        mainchainHead |-> NoBlock],
                       [hash |-> c, prevBlockHash |-> Before, time |-> time,
                        target |-> target],
                       InitHeight, CountBlockWork(target))
  BY DEF Init
<1> DEFINE w == CountBlockWork(target)
           rec == [prevBlockHash |-> Before, time |-> time, target |-> target,
                   blockHeight |-> InitHeight, cumulativeWork |-> w]
<1>2. w \in Nat
  BY GatewayAssumption
<1> HIDE DEF w
<1>3. NoBlock # Before /\ NoBlock \notin Block /\ Before \notin Block /\ InitHeight \in Nat
      /\ InitHeight \in Heights /\ 0 \in Heights /\ \A x \in Heights : x \in Nat
  BY GatewayAssumption, HeightBounds
<1>4. rec \in BlockRecord
  BY <1>2, <1>3 DEF BlockRecord
<1>5. ZeroBlock \in BlockRecord /\ ZeroBlock.time = 0
  BY <1>3 DEF BlockRecord, ZeroBlock
<1>6. spv = [blocksData |-> [[b \in Block |-> ZeroBlock] EXCEPT ![c] = rec],
             blocksHeightToBlockHash |-> [[h \in Heights |-> NoBlock] EXCEPT ![InitHeight] = c],
             mainchainHead |-> c]
  BY <1>1 DEF AddBlock, UpdateMainchainHead, w
<1> HIDE DEF rec
<1>7. /\ spv.blocksData = [b \in Block |-> IF b = c THEN rec ELSE ZeroBlock]
      /\ spv.blocksHeightToBlockHash = [h \in Heights |-> IF h = InitHeight THEN c ELSE NoBlock]
      /\ spv.mainchainHead = c
  BY <1>6
<1>8. spv \in Storage
  BY <1>4, <1>5, <1>6 DEF Storage
<1>9. rec.time > 0 /\ rec.prevBlockHash = Before /\ rec.blockHeight = InitHeight
      /\ rec.cumulativeWork = w /\ rec.target = target
  BY TimesPositive DEF rec
<1>10. /\ Has(spv, c) /\ Height(spv, c) = InitHeight /\ HeadHeight(spv) = InitHeight
       /\ Parent(spv, c) = Before /\ Target(spv, c) = target /\ Work(spv, c) = w
  BY <1>7, <1>9 DEF Has, Height, HeadHeight, Parent, Target, Work
<1>11. \A b \in Block : b # c => ~Has(spv, b) /\ spv.blocksData[b] = ZeroBlock
  BY <1>5, <1>7 DEF Has
<1>12. Tree(spv)
  <2>1. IsRoot(spv, c)
    BY <1>10 DEF IsRoot, w
  <2>2. QED
    BY <1>3, <1>10, <1>11, <2>1 DEF Tree
<1>13. OneRoot(spv)
  BY <1>11 DEF OneRoot
<1>14. HeadIsHeaviest(spv)
  BY <1>2, <1>7, <1>10, <1>11 DEF HeadIsHeaviest
<1> DEFINE index == spv.blocksHeightToBlockHash
<1>15. index[InitHeight] = c /\ \A x \in Heights : x # InitHeight => index[x] = NoBlock
  BY <1>3, <1>7
<1> HIDE DEF index
<1>16. IndexIsStored(spv)
  <2>1. ASSUME NEW x \in Heights, NEW y \in Heights, InitHeight <= x, x <= y, index[y] # NoBlock
        PROVE  index[x] # NoBlock
    <3>1. y = InitHeight
      BY <1>15, <2>1
    <3>2. x = InitHeight
      BY <1>3, <2>1, <3>1
    <3>3. QED
      BY <2>1, <3>1, <3>2
  <2>2. QED
    BY <1>7, <1>10, <1>15, <2>1 DEF IndexIsStored, index
<1>17. IndexIsPath(spv)
  BY <1>3, <1>10, <1>15 DEF IndexIsPath, IndexIsLinked, ClearAbove, index
<1>18. QED
  BY <1>8, <1>12, <1>13, <1>14, <1>16, <1>17 DEF Good, Sound

LEMMA GrowsTransitive ==
    ASSUME NEW s, NEW t, NEW u, Sound(s), Sound(t), Sound(u), Grows(s, t), Grows(t, u)
    PROVE  Grows(s, u)
<1>1. /\ s.mainchainHead \in Block /\ t.mainchainHead \in Block /\ u.mainchainHead \in Block
      /\ Has(s, s.mainchainHead) /\ Has(t, t.mainchainHead)
      /\ Work(s, s.mainchainHead) \in Nat /\ Work(t, t.mainchainHead) \in Nat
      /\ Work(u, u.mainchainHead) \in Nat
  BY ReadTypes DEF Sound, HeadIsHeaviest
<1>2. ASSUME NEW d \in Block, Has(s, d)
      PROVE  t.blocksData[d] = s.blocksData[d] /\ Has(t, d) /\ u.blocksData[d] = s.blocksData[d]
  BY <1>2 DEF Grows, Has
<1>3. Work(t, t.mainchainHead) >= Work(s, s.mainchainHead)
  <2>1. CASE t.mainchainHead = s.mainchainHead
    BY <1>1, <1>2, <2>1 DEF Work
  <2>2. QED
    BY <1>1, <2>1 DEF Grows
<1>4. CASE u.mainchainHead = t.mainchainHead /\ u.blocksHeightToBlockHash = t.blocksHeightToBlockHash
  <2>1. Work(u, u.mainchainHead) = Work(t, t.mainchainHead)
    BY <1>1, <1>4 DEF Grows, Work
  <2>2. QED
    BY <1>2, <1>4, <2>1 DEF Grows
<1>5. CASE ~Has(t, u.mainchainHead) /\ Work(u, u.mainchainHead) > Work(t, t.mainchainHead)
  <2>1. ~Has(s, u.mainchainHead) /\ Work(u, u.mainchainHead) > Work(s, s.mainchainHead)
    BY <1>1, <1>2, <1>3, <1>5
  <2>2. QED
    BY <1>2, <2>1 DEF Grows
<1>6. QED
  BY <1>4, <1>5 DEF Grows

\* An accepted header fits.
LEMMA AcceptedFits ==
    ASSUME NEW s, NEW header \in Header, NEW target, NEW median,
           Accepts(s, header, target, median), target = Target(s, header.prevBlockHash),
           Height(s, header.prevBlockHash) + 1 <= MaxHeight
    PROVE  Fits(s, header)
<1>1. header.hash \in Block /\ header.prevBlockHash \in Block
  BY DEF Header
<1>2. HeightAfter(s, header.prevBlockHash) = Height(s, header.prevBlockHash) + 1
      /\ ~Has(s, header.hash) /\ Has(s, header.prevBlockHash)
  BY <1>1, Reads DEF Accepts
<1>3. header.target = RetargetIfEpochBoundary(s, target, Height(s, header.prevBlockHash) + 1)
  BY <1>2 DEF Accepts
<1>4. QED
  BY <1>2, <1>3 DEF Fits, RetargetIfEpochBoundary

\* The headers of a batch are added to sound storages, each growing the last.
\* The head is the one before the batch, or the last header added; once a header
\* of the batch is the head, the others extend it.
LEMMA BatchSound ==
    ASSUME NEW s, Sound(s), NEW headers, NEW n \in Nat \ {0},
           Len(headers) = n, \A i \in 1..n : headers[i] \in Header,
           AcceptsBatch(s, headers),
           HeightAfter(s, headers[1].prevBlockHash) + n - 1 <= MaxHeight
    PROVE  \A i \in 0..n :
              /\ Sound(BatchStates(s, headers)[i])
              /\ Grows(s, BatchStates(s, headers)[i])
              /\ i > 0 => Has(BatchStates(s, headers)[i], headers[i].hash)
              /\ Good(s) => /\ IndexIsLinked(BatchStates(s, headers)[i])
                            /\ ClearAbove(BatchStates(s, headers)[i], HeadHeight(s))
<1> DEFINE After(i) == BatchStates(s, headers)[i]
           base == Height(s, headers[1].prevBlockHash)
           Unmoved(u) == /\ u.mainchainHead = s.mainchainHead
                         /\ u.blocksHeightToBlockHash = s.blocksHeightToBlockHash
           T == {i \in Nat : i <= n =>
                    /\ Sound(After(i)) /\ Grows(s, After(i))
                    /\ i > 0 => /\ Has(After(i), headers[i].hash)
                                /\ Height(After(i), headers[i].hash) = base + i
                                /\ Target(After(i), headers[i].hash) = headers[i].target
                    /\ Unmoved(After(i)) \/ (i > 0 /\ After(i).mainchainHead = headers[i].hash)
                    /\ Good(s) => IndexIsLinked(After(i)) /\ ClearAbove(After(i), HeadHeight(s))}
<1>1. After(0) = s /\ \A i \in 1..n : After(i) = Added(After(i - 1), headers[i])
  BY BatchSteps
<1>2. ASSUME NEW i \in 1..n
      PROVE  headers[i].hash \in Block /\ headers[i].prevBlockHash \in Block
  BY DEF Header
<1>3. ASSUME NEW i \in 1..n
      PROVE  \E median : Accepts(After(i - 1), headers[i],
                                 IF i = 1 THEN Data(s, headers[1].prevBlockHash).target
                                 ELSE headers[i - 1].target, median)
  BY DEF AcceptsBatch
<1>4. \A i \in 2..n : headers[i].prevBlockHash = headers[i - 1].hash
  BY DEF AcceptsBatch
<1>5. base \in Nat /\ base + n <= MaxHeight /\ MaxHeight \in Nat
      /\ headers[1].prevBlockHash \in Block
  <2>1. 1 \in 1..n
    OBVIOUS
  <2>2. headers[1].prevBlockHash \in Block
    BY <1>2, <2>1
  <2>3. base \in Nat
    BY <2>2, ReadTypes DEF Sound
  <2>4. HeightAfter(s, headers[1].prevBlockHash) = base + 1
    BY <2>2, Reads
  <2>5. QED
    BY <2>2, <2>3, <2>4, GatewayAssumption
<1>6. Grows(s, s) /\ Unmoved(s) /\ HeadHeight(s) \in Nat
  BY ReadTypes DEF Grows, Sound
<1>7. Data(s, headers[1].prevBlockHash).target = Target(s, headers[1].prevBlockHash)
  BY <1>5, Reads DEF Target
<1> HIDE DEF After, base
<1>8. 0 \in T
  BY <1>1, <1>6 DEF Good, IndexIsPath
<1>9. ASSUME NEW i \in T PROVE i + 1 \in T
  <2> DEFINE u == After(i)
             hd == headers[i + 1]
             t == After(i + 1)
  <2>1. SUFFICES ASSUME i + 1 <= n
                 PROVE  /\ Sound(t) /\ Grows(s, t)
                        /\ Has(t, hd.hash)
                        /\ Height(t, hd.hash) = base + (i + 1)
                        /\ Target(t, hd.hash) = hd.target
                        /\ Unmoved(t) \/ t.mainchainHead = hd.hash
                        /\ Good(s) => IndexIsLinked(t) /\ ClearAbove(t, HeadHeight(s))
    BY DEF T
  <2>2. i \in Nat /\ i <= n /\ i + 1 \in 1..n /\ (i + 1) - 1 = i
    BY <2>1
  <2>3. /\ Sound(u) /\ Grows(s, u)
        /\ Unmoved(u) \/ (i > 0 /\ u.mainchainHead = headers[i].hash)
        /\ Good(s) => IndexIsLinked(u) /\ ClearAbove(u, HeadHeight(s))
    BY <2>2
  <2>4. hd \in Header /\ t = Added(u, hd)
    BY <1>1, <2>2
  <2>5. /\ Height(u, hd.prevBlockHash) = base + i
        /\ (IF i + 1 = 1 THEN Data(s, headers[1].prevBlockHash).target
            ELSE headers[i].target) = Target(u, hd.prevBlockHash)
        /\ i > 0 => hd.prevBlockHash = headers[i].hash
    <3>1. CASE i = 0
      BY <1>1, <1>5, <1>7, <3>1 DEF base
    <3>2. CASE i # 0
      <4>1. i > 0 /\ i + 1 \in 2..n /\ i + 1 # 1
        BY <2>2, <3>2
      <4>2. hd.prevBlockHash = headers[i].hash
        BY <1>4, <2>2, <4>1
      <4>3. Height(u, headers[i].hash) = base + i /\ Target(u, headers[i].hash) = headers[i].target
        BY <2>2, <4>1
      <4>4. QED
        BY <4>1, <4>2, <4>3
    <3>3. QED
      BY <3>1, <3>2
  <2>6. \E median : Accepts(u, hd, Target(u, hd.prevBlockHash), median)
    BY <1>3, <2>2, <2>5
  <2> HIDE DEF u, hd, t
  <2>7. Fits(u, hd)
    <3>1. Height(u, hd.prevBlockHash) + 1 <= MaxHeight
      BY <1>5, <2>2, <2>1, <2>5
    <3>2. QED
      BY <2>4, <2>6, <3>1, AcceptedFits
  <2>8. /\ Sound(t) /\ Grows(u, t) /\ t.blocksData = Recorded(u, hd).blocksData
        /\ \/ t.mainchainHead = hd.hash
           \/ /\ hd.prevBlockHash # u.mainchainHead
              /\ t.mainchainHead = u.mainchainHead
              /\ t.blocksHeightToBlockHash = u.blocksHeightToBlockHash
    BY <2>3, <2>4, <2>7, AddedSound
  <2>9. Grows(s, t)
    BY <2>3, <2>8, GrowsTransitive
  <2>10. /\ Has(t, hd.hash) /\ Height(t, hd.hash) = base + (i + 1)
         /\ Target(t, hd.hash) = hd.target
    <3>1. LET r == Recorded(u, hd)
          IN  /\ Has(r, hd.hash) /\ Target(r, hd.hash) = hd.target
              /\ Height(r, hd.hash) = Height(u, hd.prevBlockHash) + 1
      BY <2>3, <2>7, RecordedFields DEF Sound
    <3>2. (base + i) + 1 = base + (i + 1)
      BY <1>5, <2>2
    <3>3. QED
      BY <2>5, <2>8, <3>1, <3>2 DEF Has, Height, Target
  <2>11. Unmoved(t) \/ t.mainchainHead = hd.hash
    <3>1. CASE t.mainchainHead = hd.hash
      BY <3>1
    <3>2. CASE t.mainchainHead # hd.hash
      <4>1. /\ hd.prevBlockHash # u.mainchainHead /\ t.mainchainHead = u.mainchainHead
            /\ t.blocksHeightToBlockHash = u.blocksHeightToBlockHash
        BY <2>8, <3>2
      <4>2. Unmoved(u)
        BY <2>3, <2>5, <4>1
      <4>3. QED
        BY <4>1, <4>2
    <3>3. QED
      BY <3>1, <3>2
  <2>12. ASSUME Good(s) PROVE IndexIsLinked(t) /\ ClearAbove(t, HeadHeight(s))
    <3>1. IndexIsLinked(u) /\ ClearAbove(u, HeadHeight(s))
      BY <2>3, <2>12
    <3>2. CASE hd.prevBlockHash = u.mainchainHead
      BY <1>6, <2>3, <2>4, <2>7, <3>1, <3>2, AddedOnHead
    <3>3. CASE hd.prevBlockHash # u.mainchainHead
      <4>1. Unmoved(u)
        BY <2>3, <2>5, <3>3
      <4>2. HeadHeight(u) = HeadHeight(s)
        <5>1. s.mainchainHead \in Block /\ Has(s, s.mainchainHead)
          BY ReadTypes DEF Sound, HeadIsHeaviest
        <5>2. QED
          BY <2>3, <4>1, <5>1 DEF Grows, HeadHeight, Height
      <4>3. Good(u)
        BY <2>3, <3>1, <4>2 DEF Good, IndexIsPath
      <4>4. QED
        BY <2>4, <2>7, <4>2, <4>3, AddedPath
    <3>4. QED
      BY <3>2, <3>3
  <2>13. QED
    BY <2>8, <2>9, <2>10, <2>11, <2>12
<1> HIDE DEF T
<1>10. T \in SUBSET Nat
  BY DEF T
<1>11. \A i \in Nat : i \in T
  BY <1>8, <1>9, <1>10, SetInduction
<1>12. ASSUME NEW i \in 0..n
       PROVE  /\ Sound(After(i)) /\ Grows(s, After(i))
              /\ (i > 0 => Has(After(i), headers[i].hash))
              /\ Good(s) => IndexIsLinked(After(i)) /\ ClearAbove(After(i), HeadHeight(s))
  BY <1>11 DEF T
<1>13. QED
  BY <1>12 DEF After

\* The members of Batches are linked chains of headers with hashes of their own
\* that the gateway does not know.
LEMMA BatchShape ==
    ASSUME NEW s, NEW n \in Nat \ {0}, NEW headers \in Batches(s, n)
    PROVE  /\ Len(headers) = n /\ headers # <<>>
           /\ \A i \in 1..n : headers[i] \in Header /\ ~Has(s, headers[i].hash)
           /\ \A i, j \in 1..n : headers[i].hash = headers[j].hash => i = j
           /\ \A i \in 2..n : headers[i].prevBlockHash = headers[i - 1].hash
           /\ Has(s, headers[1].prevBlockHash)
<1>1. PICK p \in Block \ Fresh(s), hashes \in DistinctHashes(s, n),
           times \in [1..n -> Time], targets \in [1..n -> HeaderTarget] :
        headers = Batch(p, hashes, times, targets, n)
  BY DEF Batches
<1>2. Len(headers) = n
  BY <1>1 DEF Batch
<1>3. headers # <<>>
  BY <1>2
<1>4. ASSUME NEW i \in 1..n
      PROVE  hashes[i] \in Block /\ ~BlockExists(s, hashes[i]) /\ times[i] \in Time
             /\ targets[i] \in HeaderTarget
  BY DEF DistinctHashes, Fresh
<1>5. ASSUME NEW i \in 1..n
      PROVE  headers[i] \in Header /\ headers[i].hash = hashes[i]
             /\ headers[i].prevBlockHash = (IF i = 1 THEN p ELSE hashes[i - 1])
  <2>1. i # 1 => i - 1 \in 1..n
    OBVIOUS
  <2>2. (IF i = 1 THEN p ELSE hashes[i - 1]) \in Block
    BY <1>4, <2>1
  <2>3. headers[i] = [hash |-> hashes[i],
                      prevBlockHash |-> IF i = 1 THEN p ELSE hashes[i - 1],
                      time |-> times[i], target |-> targets[i]]
    BY <1>1 DEF Batch
  <2>4. QED
    BY <1>4, <2>2, <2>3 DEF Header
<1>6. \A i, j \in 1..n : hashes[i] = hashes[j] => i = j
  BY DEF DistinctHashes
<1>7. p \in Block /\ BlockExists(s, p)
  BY DEF Fresh
<1>8. ASSUME NEW i \in 1..n PROVE ~Has(s, headers[i].hash)
  BY <1>4, <1>5, Reads
<1>9. ASSUME NEW i \in 2..n PROVE headers[i].prevBlockHash = headers[i - 1].hash
  <2>1. i \in 1..n /\ i - 1 \in 1..n /\ i # 1
    OBVIOUS
  <2>2. QED
    BY <1>5, <2>1
<1>10. Has(s, headers[1].prevBlockHash)
  <2>1. 1 \in 1..n
    OBVIOUS
  <2>2. headers[1].prevBlockHash = p
    BY <1>5, <2>1
  <2>3. QED
    BY <1>7, <2>2, Reads
<1>11. ASSUME NEW i \in 1..n, NEW j \in 1..n, headers[i].hash = headers[j].hash
       PROVE  i = j
  <2>1. headers[i].hash = hashes[i] /\ headers[j].hash = hashes[j]
    BY <1>5
  <2>2. QED
    BY <1>6, <1>11, <2>1
<1>12. \A i \in 1..n : headers[i] \in Header /\ ~Has(s, headers[i].hash)
  BY <1>5, <1>8
<1>13. \A i, j \in 1..n : headers[i].hash = headers[j].hash => i = j
  BY <1>11
<1>14. \A i \in 2..n : headers[i].prevBlockHash = headers[i - 1].hash
  BY <1>9
<1>15. QED
  BY <1>2, <1>3, <1>10, <1>12, <1>13, <1>14

\* A step of the gateway learns a header, keeps the storage sound and grows it.
\* From a storage whose index is the path it leaves one whose index is a path,
\* with entries above the head no higher than the old head.
LEMMA StepSound ==
    ASSUME Sound(spv), Next
    PROVE  /\ Sound(spv') /\ Grows(spv, spv')
           /\ \E d \in Block : ~Has(spv, d) /\ Has(spv', d)
           /\ Good(spv) => IndexIsLinked(spv') /\ ClearAbove(spv', HeadHeight(spv))
<1> DEFINE Step == /\ Sound(spv') /\ Grows(spv, spv')
                   /\ \E d \in Block : ~Has(spv, d) /\ Has(spv', d)
                   /\ Good(spv) => IndexIsLinked(spv') /\ ClearAbove(spv', HeadHeight(spv))
<1>1. ASSUME NEW header \in Header, AddBlockHeader(header)
      PROVE  Step
  <2>1. header.hash \in Block /\ header.prevBlockHash \in Block
    BY DEF Header
  <2>2. /\ Accepts(spv, header, Target(spv, header.prevBlockHash),
                   StorageMedianTime(spv, header, HeightAfter(spv, header.prevBlockHash)))
        /\ Height(spv, header.prevBlockHash) + 1 <= MaxHeight
        /\ spv' = Added(spv, header)
    BY <1>1, <2>1, Reads DEF AddBlockHeader, AcceptsOne, Target
  <2>3. Fits(spv, header)
    BY <2>2, AcceptedFits
  <2>4. Sound(spv') /\ Grows(spv, spv') /\ spv'.blocksData = Recorded(spv, header).blocksData
    BY <2>2, <2>3, AddedSound
  <2>5. Has(Recorded(spv, header), header.hash)
    BY <2>3, RecordedFields DEF Sound
  <2>6. Has(spv', header.hash) /\ ~Has(spv, header.hash)
    BY <2>3, <2>4, <2>5 DEF Has, Fits
  <2>7. Good(spv) => IndexIsLinked(spv') /\ ClearAbove(spv', HeadHeight(spv))
    BY <2>2, <2>3, AddedPath
  <2>8. QED
    BY <2>1, <2>4, <2>6, <2>7
<1>2. ASSUME NEW n \in 2..MaxBatch, NEW headers \in Batches(spv, n), AddBlockHeaderBatch(headers)
      PROVE  Step
  <2>1. n \in Nat \ {0} /\ n \in 0..n /\ n \in 1..n /\ n > 0
    BY GatewayAssumption
  <2>2. /\ Len(headers) = n
        /\ \A i \in 1..n : headers[i] \in Header /\ ~Has(spv, headers[i].hash)
    BY <2>1, BatchShape
  <2>3. /\ AcceptsBatch(spv, headers) /\ spv' = BatchStates(spv, headers)[n]
        /\ HeightAfter(spv, headers[1].prevBlockHash) + n - 1 <= MaxHeight
    BY <1>2, <2>2 DEF AddBlockHeaderBatch
  <2>4. \A i \in 0..n :
          /\ Sound(BatchStates(spv, headers)[i])
          /\ Grows(spv, BatchStates(spv, headers)[i])
          /\ i > 0 => Has(BatchStates(spv, headers)[i], headers[i].hash)
          /\ Good(spv) => /\ IndexIsLinked(BatchStates(spv, headers)[i])
                          /\ ClearAbove(BatchStates(spv, headers)[i], HeadHeight(spv))
    BY <2>1, <2>2, <2>3, BatchSound
  <2>5. /\ Sound(spv') /\ Grows(spv, spv') /\ Has(spv', headers[n].hash)
        /\ Good(spv) => IndexIsLinked(spv') /\ ClearAbove(spv', HeadHeight(spv))
    BY <2>1, <2>3, <2>4
  <2>6. headers[n].hash \in Block /\ ~Has(spv, headers[n].hash)
    BY <2>1, <2>2 DEF Header
  <2>7. QED
    BY <2>5, <2>6
<1>3. QED
  BY <1>1, <1>2 DEF Next

\* The inductive invariant, for headers of any difficulties: the stored blocks
\* are a tree on the checkpoint whose work adds up along it, the head is a
\* heaviest block, and what the index names is stored where it says.
THEOREM GatewaySound == Spec => []Sound(spv)
<1>1. Init => Sound(spv)
  BY InitGood DEF Good
<1>2. Sound(spv) /\ [Next]_spv => Sound(spv)'
  <2>1. SUFFICES ASSUME Sound(spv), [Next]_spv PROVE Sound(spv')
    OBVIOUS
  <2>2. CASE Next
    BY <2>1, <2>2, StepSound
  <2>3. CASE UNCHANGED spv
    BY <2>1, <2>3
  <2>4. QED
    BY <2>1, <2>2, <2>3
<1>3. QED
  BY <1>1, <1>2, PTL DEF Spec

\* The storage only grows, for headers of any difficulties: a stored header is
\* never changed, and the index never changes but with the head, which moves to
\* a header that was not stored before and has more work than the last head.
THEOREM GatewayGrows == Spec => [][Grows(spv, spv')]_spv
<1>1. Sound(spv) /\ [Next]_spv => [Grows(spv, spv')]_spv
  BY StepSound
<1>2. QED
  BY <1>1, GatewaySound, PTL DEF Spec

\* The head moves to no lower block.  It may, to a heavier one, when targets
\* differ, and leaves entries of the index above it that a later back-fill takes
\* for agreement.
HeadNeverFalls == HeadHeight(spv') >= HeadHeight(spv)

\* Unless the head has fallen, the index is the path to the head and nothing
\* else.
THEOREM GatewayGood == Spec /\ [][HeadNeverFalls]_spv => []Good(spv)
<1>1. Init => Good(spv)
  BY InitGood
<1>2. Good(spv) /\ [Next]_spv /\ [HeadNeverFalls]_spv => Good(spv)'
  <2>1. SUFFICES ASSUME Good(spv), [Next]_spv, [HeadNeverFalls]_spv PROVE Good(spv')
    OBVIOUS
  <2>2. CASE UNCHANGED spv
    BY <2>1, <2>2
  <2>3. CASE Next /\ HeadNeverFalls
    <3>1. Sound(spv') /\ IndexIsLinked(spv') /\ ClearAbove(spv', HeadHeight(spv))
      BY <2>1, <2>3, StepSound DEF Good
    <3>2. HeadHeight(spv) \in Nat /\ HeadHeight(spv') \in Nat
      BY <2>1, <3>1, ReadTypes DEF Good, Sound
    <3>3. ClearAbove(spv', HeadHeight(spv'))
      <4>1. ASSUME NEW x \in Heights, x > HeadHeight(spv') PROVE x > HeadHeight(spv)
        BY <2>3, <3>2, <4>1, HeightBounds DEF HeadNeverFalls
      <4>2. QED
        BY <3>1, <4>1 DEF ClearAbove
    <3>4. QED
      BY <3>1, <3>3 DEF Good, IndexIsPath
  <2>4. QED
    BY <2>1, <2>2, <2>3
<1>3. QED
  BY <1>1, <1>2, PTL DEF Spec

-----------------------------------------------------------------------------
(* The gateway implements HeaderChain. *)

\* The refinement mapping, of a storage.
Parents(s) == [b \in Block |-> IF Data(s, b).prevBlockHash \in Block
                               THEN Data(s, b).prevBlockHash ELSE NoBlock]
Works(s) == [b \in Block |-> Data(s, b).cumulativeWork]
Reported(s) == [i \in 1..(GetMainchainHeight(s) + 1 - InitHeight) |->
                   GetBlockHash(s, InitHeight + i - 1)]

\* The walk of PathTo from b, over m steps.
IsPathWalk(f, b, par, m) ==
    f = [n \in 0..m |->
            IF n = 0 THEN b ELSE IF f[n - 1] = NoBlock THEN NoBlock ELSE par[f[n - 1]]]

LEMMA PathWalkUnique ==
    ASSUME NEW b, NEW par, NEW m \in Nat, NEW f, NEW g,
           IsPathWalk(f, b, par, m), IsPathWalk(g, b, par, m)
    PROVE  f = g
<1> DEFINE T == {n \in Nat : n <= m => f[n] = g[n]}
<1>1. 0 \in T
  BY DEF IsPathWalk
<1>2. ASSUME NEW n \in T PROVE n + 1 \in T
  <2>1. SUFFICES ASSUME n + 1 <= m PROVE f[n + 1] = g[n + 1]
    OBVIOUS
  <2>2. f[n] = g[n] /\ n + 1 \in 0..m /\ n + 1 # 0 /\ (n + 1) - 1 = n
    BY <2>1
  <2>3. f[n + 1] = IF f[n] = NoBlock THEN NoBlock ELSE par[f[n]]
    BY <2>2 DEF IsPathWalk
  <2>4. g[n + 1] = IF g[n] = NoBlock THEN NoBlock ELSE par[g[n]]
    BY <2>2 DEF IsPathWalk
  <2>5. QED
    BY <2>2, <2>3, <2>4
<1> HIDE DEF T
<1>3. T \in SUBSET Nat
  BY DEF T
<1>4. \A n \in Nat : n \in T
  BY <1>1, <1>2, <1>3, SetInduction
<1>5. \A n \in 0..m : f[n] = g[n]
  BY <1>4 DEF T
<1>6. f = [n \in 0..m |-> f[n]] /\ g = [n \in 0..m |-> g[n]]
  BY DEF IsPathWalk
<1>7. QED
  BY <1>5, <1>6

\* The path to the head has at most as many blocks as there are.
LEMMA PathFits ==
    ASSUME NEW s, Sound(s), IsFiniteSet(Block)
    PROVE  /\ Cardinality(Block) \in Nat
           /\ HeadHeight(s) \in Nat /\ InitHeight \in Nat /\ InitHeight <= HeadHeight(s)
           /\ HeadHeight(s) <= MaxHeight /\ MaxHeight \in Nat
           /\ HeadHeight(s) - InitHeight + 1 <= Cardinality(Block)
<1> DEFINE hh == HeadHeight(s)
           index == s.blocksHeightToBlockHash
           S == InitHeight..hh
           f == [x \in S |-> index[x]]
<1>1. s \in Storage /\ Tree(s) /\ IndexIsStored(s)
  BY DEF Sound
<1>2. hh \in Nat /\ hh <= MaxHeight /\ InitHeight \in Nat /\ MaxHeight \in Nat
  BY <1>1, ReadTypes, HeightBounds
<1>3. InitHeight <= hh
  BY <1>1, IndexReaches
<1>4. ASSUME NEW x \in S PROVE index[x] \in Block /\ Height(s, index[x]) = x
  <2>1. x \in Heights /\ InitHeight <= x /\ x <= hh
    BY <1>2 DEF Heights
  <2>2. QED
    BY <1>1, <2>1, IndexReaches
<1>5. f \in Injection(S, Block)
  <2>1. f \in [S -> Block]
    BY <1>4
  <2>2. ASSUME NEW x \in S, NEW y \in S, f[x] = f[y] PROVE x = y
    <3>1. index[x] = index[y]
      BY <2>2
    <3> HIDE DEF index, S
    <3>2. QED
      BY <1>4, <3>1
  <2> HIDE DEF f, S
  <2>3. QED
    BY <2>1, <2>2 DEF Injection, IsInjective
<1>6. Cardinality(S) <= Cardinality(Block)
  BY <1>5, FS_Injection
<1>7. Cardinality(S) = hh - InitHeight + 1
  BY <1>2, <1>3, FS_Interval
<1>8. Cardinality(Block) \in Nat
  BY FS_CardinalityType
<1>9. QED
  BY <1>2, <1>3, <1>6, <1>7, <1>8

\* PathTo finds at the head exactly what the index holds.
LEMMA PathIsReported ==
    ASSUME NEW s, Sound(s), IndexIsLinked(s), IsFiniteSet(Block)
    PROVE  Chain!PathTo(s.mainchainHead, Parents(s)) = Reported(s)
<1> DEFINE N == Cardinality(Block)
           hh == HeadHeight(s)
           D == hh - InitHeight
           b == s.mainchainHead
           index == s.blocksHeightToBlockHash
           g == [n \in 0..N |-> IF n <= D THEN index[hh - n] ELSE NoBlock]
           par == Parents(s)
           Up == CHOOSE f : IsPathWalk(f, b, par, N)
           depth == CHOOSE n \in 0..N : Up[n] # NoBlock /\ Up[n + 1] = NoBlock
<1>1. /\ N \in Nat /\ hh \in Nat /\ InitHeight \in Nat /\ InitHeight <= hh /\ D \in Nat
      /\ D + 1 <= N /\ hh <= MaxHeight /\ MaxHeight \in Nat
  BY PathFits
<1>2. ASSUME NEW x \in Nat, InitHeight <= x, x <= hh
      PROVE  index[x] \in Block /\ Has(s, index[x]) /\ Height(s, index[x]) = x /\ index[x] # NoBlock
  <2>1. x \in Heights
    BY <1>1, <1>2 DEF Heights
  <2>2. QED
    BY <1>2, <2>1, IndexReaches, GatewayAssumption DEF Sound
<1>3. ASSUME NEW x \in Nat, InitHeight < x, x <= hh PROVE par[index[x]] = index[x - 1]
  <2>1. x \in Heights /\ x - 1 \in Nat /\ InitHeight <= x - 1 /\ x - 1 <= hh /\ InitHeight <= x
    BY <1>1, <1>3 DEF Heights
  <2>2. Parent(s, index[x]) = index[x - 1]
    BY <1>3, <2>1 DEF IndexIsLinked
  <2>3. index[x] \in Block /\ index[x - 1] \in Block
    BY <1>2, <1>3, <2>1
  <2>4. QED
    BY <2>2, <2>3, Reads DEF Parents, Parent
<1>4. par[index[InitHeight]] = NoBlock
  <2>1. index[InitHeight] \in Block /\ Has(s, index[InitHeight])
        /\ Height(s, index[InitHeight]) = InitHeight
    BY <1>1, <1>2
  <2>2. Parent(s, index[InitHeight]) = Before
    BY <2>1, Stands DEF Sound, IsRoot
  <2>3. Before \notin Block
    BY GatewayAssumption
  <2>4. QED
    BY <2>1, <2>2, <2>3, Reads DEF Parents, Parent
<1>5. index[hh] = b
  BY DEF Sound, IndexIsStored
<1> HIDE DEF par, index, b, hh, N
<1>6. IsPathWalk(g, b, par, N)
  <2>1. ASSUME NEW n \in 0..N
        PROVE  g[n] = IF n = 0 THEN b ELSE IF g[n - 1] = NoBlock THEN NoBlock ELSE par[g[n - 1]]
    <3>1. CASE n = 0
      BY <1>1, <1>5, <3>1
    <3>2. CASE n # 0 /\ n <= D
      <4>1. n \in Nat /\ n - 1 \in 0..N /\ n - 1 <= D /\ hh - (n - 1) \in Nat
            /\ InitHeight < hh - (n - 1) /\ InitHeight <= hh - (n - 1)
            /\ hh - (n - 1) <= hh /\ (hh - (n - 1)) - 1 = hh - n
        BY <1>1, <3>2
      <4>2. g[n - 1] = index[hh - (n - 1)] /\ g[n] = index[hh - n]
        BY <3>2, <4>1
      <4>3. index[hh - (n - 1)] # NoBlock
        BY <1>2, <4>1
      <4>4. par[index[hh - (n - 1)]] = index[hh - n]
        BY <1>3, <4>1
      <4>5. QED
        BY <3>2, <4>2, <4>3, <4>4
    <3>3. CASE n = D + 1
      <4>1. n # 0 /\ ~(n <= D) /\ n - 1 \in 0..N /\ n - 1 <= D /\ hh - (n - 1) = InitHeight
        BY <1>1, <3>3
      <4>2. g[n - 1] = index[InitHeight] /\ g[n] = NoBlock
        BY <4>1
      <4>3. QED
        BY <1>4, <4>1, <4>2
    <3>4. CASE n > D + 1
      <4>1. n # 0 /\ ~(n <= D) /\ n - 1 \in 0..N /\ ~(n - 1 <= D)
        BY <1>1, <3>4
      <4>2. g[n - 1] = NoBlock /\ g[n] = NoBlock
        BY <4>1
      <4>3. QED
        BY <4>1, <4>2
    <3>5. QED
      BY <1>1, <3>1, <3>2, <3>3, <3>4
  <2>2. g = [n \in 0..N |-> g[n]]
    OBVIOUS
  <2> HIDE DEF g
  <2>3. QED
    BY <2>1, <2>2 DEF IsPathWalk
<1>7. Chain!PathTo(b, par) = [i \in 1..(depth + 1) |-> Up[depth + 1 - i]]
  <2>1. Chain!Cardinality(Block) = N
    BY DEF Chain!Cardinality, Cardinality, N
  <2>2. QED
    BY <2>1 DEF Chain!PathTo, IsPathWalk
<1>8. Up = g
  <2>1. IsPathWalk(Up, b, par, N)
    BY <1>6
  <2> HIDE DEF Up, g
  <2>2. QED
    BY <1>1, <1>6, <2>1, PathWalkUnique
<1> HIDE DEF Up
<1>9. ASSUME NEW n \in 0..D PROVE Up[n] = index[hh - n] /\ Up[n] # NoBlock
  <2>1. n \in 0..N /\ hh - n \in Nat /\ InitHeight <= hh - n /\ hh - n <= hh /\ n <= D
    BY <1>1
  <2>2. Up[n] = index[hh - n]
    BY <1>8, <2>1
  <2>3. QED
    BY <1>2, <2>1, <2>2
<1>10. ASSUME NEW n \in 0..N, n > D PROVE Up[n] = NoBlock
  <2>1. ~(n <= D)
    BY <1>1, <1>10
  <2>2. QED
    BY <1>8, <2>1
<1> HIDE DEF g
<1>11. depth = D
  <2>1. D \in 0..N /\ Up[D] # NoBlock /\ Up[D + 1] = NoBlock
    <3>1. D \in 0..N /\ D \in 0..D /\ D + 1 \in 0..N /\ D + 1 > D
      BY <1>1
    <3>2. QED
      BY <1>9, <1>10, <3>1
  <2>2. ASSUME NEW n \in 0..N, Up[n] # NoBlock, Up[n + 1] = NoBlock PROVE n = D
    <3>1. CASE n < D
      <4>1. n + 1 \in 0..D
        BY <1>1, <3>1
      <4>2. QED
        BY <1>9, <2>2, <4>1
    <3>2. CASE n > D
      BY <1>10, <2>2, <3>2
    <3>3. QED
      BY <1>1, <3>1, <3>2
  <2> HIDE DEF D
  <2>3. QED
    BY <2>1, <2>2
<1> HIDE DEF depth
<1>12. ASSUME NEW i \in 1..(D + 1)
       PROVE  Up[D + 1 - i] = GetBlockHash(s, InitHeight + i - 1)
  <2>1. D + 1 - i \in 0..D /\ hh - (D + 1 - i) = InitHeight + i - 1 /\ InitHeight + i - 1 \in Heights
    BY <1>1 DEF Heights
  <2>2. QED
    BY <1>9, <2>1 DEF GetBlockHash, index
<1>13. GetMainchainHeight(s) + 1 - InitHeight = D + 1
  <2>1. s.mainchainHead \in Block
    BY ReadTypes DEF Sound
  <2>2. GetMainchainHeight(s) = hh
    BY <2>1, Reads DEF GetMainchainHeight, hh, HeadHeight, Height
  <2>3. QED
    BY <1>1, <2>2
<1> HIDE DEF D
<1>14. [i \in 1..(D + 1) |-> Up[D + 1 - i]] = Reported(s)
  BY <1>12, <1>13 DEF Reported
<1>15. QED
  BY <1>7, <1>11, <1>14 DEF b, par

\* The known blocks of HeaderChain are the stored ones.
LEMMA KnownIsStored ==
    ASSUME NEW s, Sound(s)
    PROVE  \A b \in Block : /\ Works(s)[b] > 0 <=> Has(s, b)
                            /\ Works(s)[b] = Work(s, b) /\ Works(s)[b] \in Nat
<1> SUFFICES ASSUME NEW b \in Block
             PROVE  /\ Works(s)[b] > 0 <=> Has(s, b)
                    /\ Works(s)[b] = Work(s, b) /\ Works(s)[b] \in Nat
  OBVIOUS
<1>1. Works(s)[b] = Work(s, b) /\ Works(s)[b] \in Nat
  BY Reads, ReadTypes DEF Works, Work, Sound
<1>2. CASE ~Has(s, b)
  <2>1. s.blocksData[b] = ZeroBlock
    BY <1>2 DEF Sound, Tree
  <2>2. QED
    BY <1>1, <1>2, <2>1 DEF ZeroBlock, Work
<1>3. CASE Has(s, b)
  BY <1>1, <1>3, Stands DEF Sound
<1>4. QED
  BY <1>2, <1>3

\* The last block of the reported chain is the head.
LEMMA TipIsHead ==
    ASSUME NEW s, Sound(s)
    PROVE  Reported(s)[Len(Reported(s))] = s.mainchainHead
<1>1. /\ s.mainchainHead \in Block /\ HeadHeight(s) \in Nat /\ HeadHeight(s) \in Heights
      /\ InitHeight \in Nat /\ InitHeight <= HeadHeight(s)
      /\ s.blocksHeightToBlockHash[HeadHeight(s)] = s.mainchainHead
  BY ReadTypes, HeightBounds, IndexReaches DEF Sound
<1>2. GetMainchainHeight(s) = HeadHeight(s)
  BY <1>1, Reads DEF GetMainchainHeight, HeadHeight, Height
<1> DEFINE n == HeadHeight(s) + 1 - InitHeight
<1>3. n \in Nat /\ n \in 1..n /\ InitHeight + n - 1 = HeadHeight(s)
  BY <1>1
<1>4. Reported(s) = [i \in 1..n |-> GetBlockHash(s, InitHeight + i - 1)]
  BY <1>2 DEF Reported
<1> HIDE DEF n
<1>5. Len(Reported(s)) = n
  BY <1>3, <1>4
<1>6. Reported(s)[n] = GetBlockHash(s, HeadHeight(s))
  BY <1>3, <1>4
<1>7. QED
  BY <1>1, <1>5, <1>6 DEF GetBlockHash

\* A new block's parent is stored and has less work: the checkpoint is old.
LEMMA NewHasParent ==
    ASSUME NEW s, NEW t, Sound(s), Sound(t), Grows(s, t), NEW b \in Block, ~Has(s, b), Has(t, b)
    PROVE  /\ Parents(t)[b] \in Block /\ Has(t, Parents(t)[b])
           /\ Works(t)[b] > Works(t)[Parents(t)[b]]
<1> DEFINE root == s.blocksHeightToBlockHash[InitHeight]
           p == Parent(t, b)
<1>1. root \in Block /\ Has(s, root) /\ Height(s, root) = InitHeight
  <2>1. InitHeight \in Heights /\ InitHeight <= InitHeight
    BY HeightBounds
  <2>2. QED
    BY <2>1, IndexReaches DEF Sound
<1>2. Has(t, root) /\ Height(t, root) = InitHeight
  BY <1>1 DEF Grows, Has, Height
<1> HIDE DEF root
<1>3. Height(t, b) # InitHeight
  BY <1>1, <1>2 DEF Sound, OneRoot
<1>4. OnParent(t, b) /\ CountBlockWork(Target(t, b)) \in Nat \ {0}
  BY <1>3, Stands DEF Sound
<1>5. p \in Block /\ Has(t, p) /\ Work(t, b) = Work(t, p) + CountBlockWork(Target(t, b))
  BY <1>4 DEF OnParent
<1>6. Parents(t)[b] = p
  BY <1>5, Reads DEF Parents, Parent
<1> HIDE DEF p
<1>7. Works(t)[b] = Work(t, b) /\ Works(t)[p] = Work(t, p) /\ Works(t)[p] \in Nat
  BY <1>5, KnownIsStored
<1>8. QED
  BY <1>4, <1>5, <1>6, <1>7

\* A step of the gateway is a step of HeaderChain.
LEMMA StepRefines ==
    ASSUME IsFiniteSet(Block), Sound(spv), Sound(spv'), IndexIsLinked(spv'),
           Grows(spv, spv'), NEW new \in Block, ~Has(spv, new), Has(spv', new)
    PROVE  Chain!Next
<1>1. Chain!Known = {b \in Block : Has(spv, b)}
  BY KnownIsStored DEF Chain!Known, Works
<1>2. Chain!Known' = {b \in Block : Has(spv', b)}
  BY KnownIsStored DEF Chain!Known, Works
<1>3. ASSUME NEW b \in Block, Has(spv, b)
      PROVE  /\ spv'.blocksData[b] = spv.blocksData[b] /\ Has(spv', b)
             /\ Parents(spv')[b] = Parents(spv)[b] /\ Works(spv')[b] = Works(spv)[b]
  <2>1. spv'.blocksData[b] = spv.blocksData[b]
    BY <1>3 DEF Grows
  <2>2. Data(spv', b) = Data(spv, b)
    BY <2>1, Reads
  <2>3. QED
    BY <1>3, <2>1, <2>2 DEF Has, Parents, Works
<1>4. Chain!Learn
  <2>1. Chain!Known' # Chain!Known
    BY <1>1, <1>2
  <2>2. ASSUME NEW b \in Block, Has(spv', b), ~Has(spv, b)
        PROVE  /\ Parents(spv')[b] \in Block /\ Has(spv', Parents(spv')[b])
               /\ Works(spv')[b] > Works(spv')[Parents(spv')[b]]
    BY <2>2, NewHasParent
  <2>3. \A b \in Chain!Known : Parents(spv')[b] = Parents(spv)[b] /\ Works(spv')[b] = Works(spv)[b]
    BY <1>1, <1>3
  <2>4. \A b \in Chain!Known' \ Chain!Known :
           Parents(spv')[b] \in Chain!Known' /\ Works(spv')[b] > Works(spv')[Parents(spv')[b]]
    BY <1>1, <1>2, <2>2
  <2>5. QED
    BY <2>1, <2>3, <2>4 DEF Chain!Learn, Parents, Works
<1>5. Chain!Tip = spv.mainchainHead
  BY TipIsHead DEF Chain!Tip, Reported
<1>6. spv.mainchainHead \in Block /\ Has(spv, spv.mainchainHead)
      /\ spv'.mainchainHead \in Block /\ Has(spv', spv'.mainchainHead)
  BY ReadTypes DEF Sound, HeadIsHeaviest
<1>7. ASSUME NEW b \in Block, Has(spv', b)
      PROVE  Works(spv')[b] <= Works(spv')[spv'.mainchainHead]
  BY <1>6, <1>7, KnownIsStored DEF Sound, HeadIsHeaviest
<1>8. CASE spv'.mainchainHead = spv.mainchainHead
           /\ spv'.blocksHeightToBlockHash = spv.blocksHeightToBlockHash
  <2>1. \A b \in Chain!Known' : Works(spv')[b] <= Works(spv)[Chain!Tip]
    BY <1>2, <1>3, <1>5, <1>6, <1>7, <1>8
  <2>2. Reported(spv') = Reported(spv)
    <3>1. GetMainchainHeight(spv') = GetMainchainHeight(spv)
      BY <1>3, <1>6, <1>8, Reads DEF GetMainchainHeight
    <3>2. \A h : GetBlockHash(spv', h) = GetBlockHash(spv, h)
      BY <1>8 DEF GetBlockHash
    <3>3. QED
      BY <3>1, <3>2 DEF Reported
  <2>3. Chain!Stay
    BY <1>4, <2>1, <2>2 DEF Chain!Stay, Works, Reported
  <2>4. QED
    BY <2>3 DEF Chain!Next
<1>9. CASE ~Has(spv, spv'.mainchainHead)
           /\ Work(spv', spv'.mainchainHead) > Work(spv, spv.mainchainHead)
  <2> DEFINE b == spv'.mainchainHead
  <2>1. b \in Chain!Known' \ Chain!Known
    BY <1>1, <1>2, <1>6, <1>9
  <2>2. Works(spv')[b] > Works(spv)[Chain!Tip]
    BY <1>5, <1>6, <1>9, KnownIsStored
  <2>3. \A d \in Chain!Known' : Works(spv')[d] <= Works(spv')[b]
    BY <1>2, <1>7
  <2>4. Reported(spv') = Chain!PathTo(b, Parents(spv'))
    BY PathIsReported
  <2> HIDE DEF b
  <2>5. Chain!Switch
    BY <1>4, <2>1, <2>2, <2>3, <2>4 DEF Chain!Switch, Works, Reported, Parents
  <2>6. QED
    BY <2>5 DEF Chain!Next
<1>10. QED
  BY <1>8, <1>9 DEF Grows

\* The first state of the gateway is the first of HeaderChain.
LEMMA InitRefines ==
    ASSUME Init
    PROVE  Chain!Init
<1>1. Sound(spv)
  BY InitGood DEF Good
<1>2. PICK c \in Block, time \in Time, target \in HeaderTarget :
        spv = AddBlock([blocksData |-> [b \in Block |-> ZeroBlock],
                        blocksHeightToBlockHash |-> [h \in Heights |-> NoBlock],
                        mainchainHead |-> NoBlock],
                       [hash |-> c, prevBlockHash |-> Before, time |-> time,
                        target |-> target],
                       InitHeight, CountBlockWork(target))
  BY DEF Init
<1> DEFINE rec == [prevBlockHash |-> Before, time |-> time, target |-> target,
                   blockHeight |-> InitHeight, cumulativeWork |-> CountBlockWork(target)]
<1>3. spv = [blocksData |-> [[b \in Block |-> ZeroBlock] EXCEPT ![c] = rec],
             blocksHeightToBlockHash |-> [[h \in Heights |-> NoBlock] EXCEPT ![InitHeight] = c],
             mainchainHead |-> c]
  BY <1>2 DEF AddBlock, UpdateMainchainHead
<1>4. rec.time > 0 /\ rec.prevBlockHash = Before /\ rec.blockHeight = InitHeight
  BY TimesPositive
<1> HIDE DEF rec
<1>5. /\ \A b \in Block : spv.blocksData[b] = IF b = c THEN rec ELSE ZeroBlock
      /\ spv.mainchainHead = c
      /\ spv.blocksHeightToBlockHash = [h \in Heights |-> IF h = InitHeight THEN c ELSE NoBlock]
  BY <1>3
<1>6. \A b \in Block : Has(spv, b) <=> b = c
  BY <1>4, <1>5 DEF Has, ZeroBlock
<1>7. Chain!Known = {c}
  BY <1>1, <1>6, KnownIsStored DEF Chain!Known, Works
<1>8. Parents(spv) = [b \in Block |-> NoBlock]
  <2>1. Before \notin Block /\ NoBlock \notin Block
    BY GatewayAssumption
  <2>2. \A b \in Block : Data(spv, b).prevBlockHash \in {Before, NoBlock}
    BY <1>4, <1>5, Reads DEF ZeroBlock
  <2>3. QED
    BY <2>1, <2>2 DEF Parents
<1>9. Reported(spv) = <<c>>
  <2>1. InitHeight \in Nat /\ InitHeight \in Heights
    BY GatewayAssumption DEF Heights
  <2>2. GetMainchainHeight(spv) = InitHeight
    BY <1>4, <1>5, Reads DEF GetMainchainHeight
  <2>3. GetBlockHash(spv, InitHeight) = c
    BY <1>5, <2>1 DEF GetBlockHash
  <2>4. GetMainchainHeight(spv) + 1 - InitHeight = 1 /\ InitHeight + 1 - 1 = InitHeight
    BY <2>1, <2>2
  <2>5. Reported(spv) = [i \in 1..1 |-> c]
    BY <2>3, <2>4 DEF Reported
  <2>6. QED
    BY <2>5
<1>10. QED
  BY <1>7, <1>8, <1>9 DEF Chain!Init, Parents, Reported

\* The gateway implements HeaderChain: whatever headers, branches and batches
\* it is given, in whatever order, of whatever difficulties and however deep the
\* reorgs, it reports the path to the heaviest header it has seen, unless its head
\* has fallen.
THEOREM ReportsHeaviestChainHolds ==
    ASSUME IsFiniteSet(Block)
    PROVE  Spec /\ [][HeadNeverFalls]_spv => ReportsHeaviestChain
<1>1. Init => Chain!Init
  BY InitRefines
<1>2. Good(spv) /\ Good(spv)' /\ [Next]_spv => [Chain!Next]_(Chain!vars)
  <2>1. SUFFICES ASSUME Good(spv), Good(spv'), [Next]_spv
                 PROVE  [Chain!Next]_(Chain!vars)
    OBVIOUS
  <2>2. CASE Next
    <3>1. Sound(spv) /\ Sound(spv') /\ IndexIsLinked(spv')
      BY <2>1 DEF Good, IndexIsPath
    <3>2. Grows(spv, spv') /\ \E d \in Block : ~Has(spv, d) /\ Has(spv', d)
      BY <2>2, <3>1, StepSound
    <3>3. Chain!Next
      BY <3>1, <3>2, StepRefines
    <3>4. QED
      BY <3>3
  <2>3. CASE UNCHANGED spv
    BY <2>3 DEF Chain!vars
  <2>4. QED
    BY <2>1, <2>2, <2>3
<1>3. Spec /\ [][HeadNeverFalls]_spv => []Good(spv)
  BY GatewayGood
<1>4. QED
  BY <1>1, <1>2, <1>3, PTL DEF Spec, ReportsHeaviestChain, Chain!Spec

-----------------------------------------------------------------------------
(* Where the head never falls: as long as the stored headers stand for one  *)
(* work, as all do until the first retarget after the checkpoint, the       *)
(* heaviest block is a highest one.                                         *)

OneWork(s, w) == \A b \in Block : Has(s, b) => CountBlockWork(Target(s, b)) = w

LEMMA WorkIsHeight ==
    ASSUME NEW s, Sound(s), NEW w \in Nat \ {0}, OneWork(s, w)
    PROVE  \A b \in Block : Has(s, b) =>
              Work(s, b) = w * (Height(s, b) + 1 - InitHeight)
<1> DEFINE T == {k \in Nat : \A b \in Block : Has(s, b) /\ Height(s, b) = InitHeight + k =>
                     Work(s, b) = w * (k + 1)}
<1>1. s \in Storage /\ Tree(s) /\ InitHeight \in Nat
  BY HeightBounds DEF Sound
<1>2. ASSUME NEW b \in Block, Has(s, b)
      PROVE  /\ CountBlockWork(Target(s, b)) = w /\ Height(s, b) \in Nat
             /\ Height(s, b) >= InitHeight
             /\ Height(s, b) = InitHeight => IsRoot(s, b)
             /\ Height(s, b) # InitHeight => OnParent(s, b)
  BY <1>1, <1>2, Stands DEF OneWork
<1>3. 0 \in T
  <2>1. SUFFICES ASSUME NEW b \in Block, Has(s, b), Height(s, b) = InitHeight + 0
                 PROVE  Work(s, b) = w * (0 + 1)
    OBVIOUS
  <2>2. Height(s, b) = InitHeight
    BY <1>1, <2>1
  <2>3. Work(s, b) = w
    BY <1>2, <2>1, <2>2 DEF IsRoot
  <2>4. QED
    BY <2>3
<1>4. ASSUME NEW k \in T PROVE k + 1 \in T
  <2>1. SUFFICES ASSUME NEW b \in Block, Has(s, b), Height(s, b) = InitHeight + (k + 1)
                 PROVE  Work(s, b) = w * ((k + 1) + 1)
    OBVIOUS
  <2> DEFINE p == Parent(s, b)
  <2>2. Height(s, b) # InitHeight
    BY <1>1, <2>1
  <2>3. p \in Block /\ Has(s, p) /\ Height(s, p) + 1 = Height(s, b) /\ Work(s, b) = Work(s, p) + w
    BY <1>2, <2>1, <2>2 DEF OnParent
  <2>4. Height(s, p) = InitHeight + k
    BY <1>1, <1>2, <2>1, <2>3
  <2>5. Work(s, p) = w * (k + 1)
    BY <2>3, <2>4
  <2> HIDE DEF p
  <2>6. w * ((k + 1) + 1) = w * (k + 1) + w
    <3>1. k + 1 \in Nat
      OBVIOUS
    <3>2. QED
      BY <3>1, WorkOrder
  <2>7. QED
    BY <2>3, <2>5, <2>6
<1> HIDE DEF T
<1>5. T \in SUBSET Nat
  BY DEF T
<1>6. \A k \in Nat : k \in T
  BY <1>3, <1>4, <1>5, SetInduction
<1>7. ASSUME NEW b \in Block, Has(s, b)
      PROVE  Work(s, b) = w * (Height(s, b) + 1 - InitHeight)
  <2> DEFINE k == Height(s, b) - InitHeight
  <2>1. k \in Nat /\ Height(s, b) = InitHeight + k /\ Height(s, b) + 1 - InitHeight = k + 1
    BY <1>1, <1>2, <1>7
  <2> HIDE DEF k
  <2>2. Work(s, b) = w * (k + 1)
    BY <1>6, <1>7, <2>1 DEF T
  <2>3. QED
    BY <2>1, <2>2
<1>8. QED
  BY <1>7

\* With one work a heavier head is a higher one.
LEMMA HeavierIsHigher ==
    ASSUME NEW s, NEW t, Sound(s), Sound(t), Grows(s, t), NEW w \in Nat \ {0}, OneWork(t, w)
    PROVE  HeadHeight(t) >= HeadHeight(s)
<1>1. /\ s.mainchainHead \in Block /\ Has(s, s.mainchainHead)
      /\ t.mainchainHead \in Block /\ Has(t, t.mainchainHead)
      /\ HeadHeight(s) \in Nat /\ HeadHeight(t) \in Nat /\ InitHeight \in Nat
  BY ReadTypes, HeightBounds DEF Sound, HeadIsHeaviest
<1>2. InitHeight <= HeadHeight(s) /\ InitHeight <= HeadHeight(t)
  BY IndexReaches DEF Sound
<1>3. /\ Has(t, s.mainchainHead) /\ Height(t, s.mainchainHead) = HeadHeight(s)
      /\ Work(t, s.mainchainHead) = Work(s, s.mainchainHead)
  BY <1>1 DEF Grows, Has, Height, HeadHeight, Work
<1>4. Work(t, s.mainchainHead) <= Work(t, t.mainchainHead)
  BY <1>1, <1>3 DEF Sound, HeadIsHeaviest
<1> DEFINE a == HeadHeight(s) + 1 - InitHeight
           c == HeadHeight(t) + 1 - InitHeight
<1>5. Work(t, s.mainchainHead) = w * a /\ Work(t, t.mainchainHead) = w * c
  BY <1>1, <1>3, WorkIsHeight DEF HeadHeight
<1>6. a \in Nat /\ c \in Nat /\ (a > c <=> HeadHeight(s) > HeadHeight(t))
  BY <1>1, <1>2
<1> HIDE DEF a, c
<1>7. w * a \in Nat /\ w * c \in Nat /\ (w * a > w * c <=> a > c)
  BY <1>6, WorkOrder
<1>8. QED
  BY <1>1, <1>4, <1>5, <1>6, <1>7

\* No header is stored from the first retarget after the checkpoint on.
InFirstEpoch(s) == \A b \in Block : Has(s, b) => Height(s, b) < InitHeight + Interval

\* Inside an epoch no height is a retarget.
LEMMA InsideEpoch ==
    ASSUME NEW k \in Nat, k > 0, k < Interval
    PROVE  ~IsTargetAdjustmentBlock(InitHeight + k)
<1>1. /\ Interval \in Nat \ {0} /\ InitHeight \in Nat /\ InitHeight % Interval = 0
      /\ InitHeight + k \in Nat
  BY GatewayAssumption, TargetsAssumption
<1> DEFINE q == InitHeight \div Interval
           r == (InitHeight + k) \div Interval
<1>2. /\ q \in Nat /\ r \in Nat /\ InitHeight % Interval = InitHeight - Interval * q
      /\ (InitHeight + k) % Interval = (InitHeight + k) - Interval * r
      /\ Interval * q \in Nat /\ Interval * r \in Nat
  BY <1>1
<1> HIDE DEF q, r
<1>3. SUFFICES ASSUME (InitHeight + k) % Interval = 0 PROVE FALSE
  BY DEF IsTargetAdjustmentBlock
<1>4. Interval * q = InitHeight /\ Interval * r = InitHeight + k
  BY <1>1, <1>2, <1>3
<1>5. r > q
  <2>1. Interval * r > Interval * q <=> r > q
    BY <1>1, <1>2, WorkOrder
  <2>2. QED
    BY <1>1, <1>4, <2>1
<1>6. Interval * (q + 1) = InitHeight + Interval
  BY <1>1, <1>2, <1>4, WorkOrder
<1>7. ~(r >= q + 1)
  <2>1. Interval * (q + 1) > Interval * r <=> q + 1 > r
    BY <1>1, <1>2, WorkOrder
  <2>2. QED
    BY <1>1, <1>2, <1>4, <1>6, <2>1
<1>8. QED
  BY <1>2, <1>5, <1>7

\* In the first epoch all headers have the checkpoint's target.
LEMMA EpochOneWork ==
    ASSUME NEW s, Sound(s), InFirstEpoch(s)
    PROVE  \E w \in Nat \ {0} : OneWork(s, w)
<1> DEFINE root == s.blocksHeightToBlockHash[InitHeight]
           T == {k \in Nat : \A b \in Block : Has(s, b) /\ Height(s, b) = InitHeight + k =>
                     Target(s, b) = Target(s, root)}
<1>1. s \in Storage /\ Tree(s) /\ OneRoot(s) /\ IndexIsStored(s) /\ InitHeight \in Nat
  BY HeightBounds DEF Sound
<1>2. root \in Block /\ Has(s, root) /\ Height(s, root) = InitHeight
  <2>1. InitHeight \in Heights /\ InitHeight <= InitHeight
    BY HeightBounds
  <2>2. QED
    BY <1>1, <2>1, IndexReaches
<1> HIDE DEF root
<1>3. 0 \in T
  <2>1. InitHeight + 0 = InitHeight
    BY <1>1
  <2>2. QED
    BY <1>1, <1>2, <2>1 DEF OneRoot
<1>4. ASSUME NEW k \in T PROVE k + 1 \in T
  <2>1. SUFFICES ASSUME NEW b \in Block, Has(s, b), Height(s, b) = InitHeight + (k + 1)
                 PROVE  Target(s, b) = Target(s, root)
    OBVIOUS
  <2> DEFINE p == Parent(s, b)
  <2>2. Height(s, b) # InitHeight /\ k + 1 \in Nat /\ k + 1 > 0 /\ k + 1 < Interval
    BY <1>1, <2>1, TargetsAssumption DEF InFirstEpoch
  <2>3. OnParent(s, b)
    BY <1>1, <2>1, <2>2, Stands
  <2>4. p \in Block /\ Has(s, p) /\ Height(s, p) + 1 = Height(s, b) /\ Target(s, b) = Target(s, p)
    BY <2>1, <2>2, <2>3, InsideEpoch DEF OnParent
  <2>5. Height(s, p) \in Nat
    BY <1>1, <2>4, ReadTypes
  <2>6. Height(s, p) = InitHeight + k
    BY <1>1, <2>1, <2>4, <2>5
  <2>7. QED
    BY <2>4, <2>6
<1> HIDE DEF T
<1>5. T \in SUBSET Nat
  BY DEF T
<1>6. \A k \in Nat : k \in T
  BY <1>3, <1>4, <1>5, SetInduction
<1>7. ASSUME NEW b \in Block, Has(s, b) PROVE Target(s, b) = Target(s, root)
  <2> DEFINE k == Height(s, b) - InitHeight
  <2>1. Height(s, b) \in Nat /\ Height(s, b) >= InitHeight
    BY <1>1, <1>7, Stands
  <2>2. k \in Nat /\ Height(s, b) = InitHeight + k
    BY <1>1, <2>1
  <2> HIDE DEF k
  <2>3. QED
    BY <1>6, <1>7, <2>2 DEF T
<1>8. CountBlockWork(Target(s, root)) \in Nat \ {0}
  BY <1>1, <1>2, Stands
<1>9. OneWork(s, CountBlockWork(Target(s, root)))
  BY <1>7 DEF OneWork
<1>10. QED
  BY <1>8, <1>9

\* Until the first retarget after the checkpoint the head never falls.
THEOREM EpochNeverFalls == Spec /\ []InFirstEpoch(spv) => [][HeadNeverFalls]_spv
<1>1. Sound(spv) /\ InFirstEpoch(spv)' /\ [Next]_spv => [HeadNeverFalls]_spv
  <2>1. SUFFICES ASSUME Sound(spv), InFirstEpoch(spv'), Next PROVE HeadNeverFalls
    OBVIOUS
  <2>2. Sound(spv') /\ Grows(spv, spv')
    BY <2>1, StepSound
  <2>3. PICK w \in Nat \ {0} : OneWork(spv', w)
    BY <2>1, <2>2, EpochOneWork
  <2>4. QED
    BY <2>1, <2>2, <2>3, HeavierIsHigher DEF HeadNeverFalls
<1>2. QED
  BY <1>1, GatewaySound, PTL DEF Spec

\* All targets headers carry stand for the same work.
OneDifficulty(w) == w \in Nat \ {0} /\ \A t \in HeaderTarget : CountBlockWork(t) = w

\* With one difficulty the head never falls, in any epoch.
THEOREM OneDifficultyNeverFalls ==
    ASSUME NEW w, OneDifficulty(w)
    PROVE  Spec => [][HeadNeverFalls]_spv
<1>1. w \in Nat \ {0}
  BY DEF OneDifficulty
<1>2. Sound(spv) /\ [Next]_spv => [HeadNeverFalls]_spv
  <2>1. SUFFICES ASSUME Sound(spv), Next PROVE HeadNeverFalls
    OBVIOUS
  <2>2. Sound(spv') /\ Grows(spv, spv')
    BY <2>1, StepSound
  <2>3. OneWork(spv', w)
    BY <2>2, Stands DEF OneWork, OneDifficulty, Sound
  <2>4. QED
    BY <1>1, <2>1, <2>2, <2>3, HeavierIsHigher DEF HeadNeverFalls
<1>3. QED
  BY <1>2, GatewaySound, PTL DEF Spec

\* So with one difficulty the gateway implements HeaderChain, without any
\* condition on the behaviour.
THEOREM OneDifficultyReports ==
    ASSUME NEW w, OneDifficulty(w), IsFiniteSet(Block)
    PROVE  Spec => ReportsHeaviestChain
<1>1. Spec => [][HeadNeverFalls]_spv
  BY OneDifficultyNeverFalls
<1>2. Spec /\ [][HeadNeverFalls]_spv => ReportsHeaviestChain
  BY ReportsHeaviestChainHolds
<1>3. QED
  BY <1>1, <1>2, PTL

-----------------------------------------------------------------------------
(* A batch is accepted when its headers are.  This needs no assumption on   *)
(* the difficulty, only that the storage can be read.                       *)

Readable(s) ==
    /\ {"blocksData", "blocksHeightToBlockHash", "mainchainHead"} \subseteq DOMAIN s
    /\ DOMAIN s.blocksData = Block
    /\ \A b \in Block : s.blocksData[b].blockHeight \in Nat

\* Moving the head leaves the blocks alone.
LEMMA UpdateKeepsData ==
    ASSUME NEW r, Readable(r), NEW header, NEW h
    PROVE  /\ UpdateMainchainHead(r, header, h).blocksData = r.blocksData
           /\ DOMAIN UpdateMainchainHead(r, header, h) = DOMAIN r
  BY DEF UpdateMainchainHead, Readable

\* What adding a header does to the blocks, whether it is accepted or not.
LEMMA AddedData ==
    ASSUME NEW s, Readable(s), NEW header \in Header
    PROVE  LET t == Added(s, header)
               b == header.hash
           IN  /\ Readable(t)
               /\ \A d \in Block : d # b => t.blocksData[d] = s.blocksData[d]
               /\ t.blocksData[b].prevBlockHash = header.prevBlockHash
               /\ t.blocksData[b].time = header.time
               /\ t.blocksData[b].target = header.target
               /\ Height(t, b) = Height(s, header.prevBlockHash) + 1
<1> DEFINE b == header.hash
           p == header.prevBlockHash
           rec == [prevBlockHash |-> p, time |-> header.time, target |-> header.target,
                   blockHeight |-> HeightAfter(s, p),
                   cumulativeWork |-> NextCumulativeWork(s, p, header.target)]
           r == Recorded(s, header)
           t == Added(s, header)
<1>1. b \in Block /\ p \in Block
  BY DEF Header
<1>2. HeightAfter(s, p) = Height(s, p) + 1 /\ Height(s, p) \in Nat
  BY <1>1, Reads DEF Readable, Height
<1>3. rec.prevBlockHash = p /\ rec.time = header.time /\ rec.target = header.target
      /\ rec.blockHeight = Height(s, p) + 1
  BY <1>2
<1>4. r = [s EXCEPT !.blocksData[b] = rec]
  BY DEF Recorded
<1> HIDE DEF rec
<1>5. r.blocksData = [s.blocksData EXCEPT ![b] = rec] /\ DOMAIN r = DOMAIN s
  BY <1>4 DEF Readable
<1>6. DOMAIN r.blocksData = Block /\ r.blocksData[b] = rec
      /\ \A d \in Block : d # b => r.blocksData[d] = s.blocksData[d]
  BY <1>1, <1>5 DEF Readable
<1>7. Readable(r)
  BY <1>2, <1>3, <1>5, <1>6 DEF Readable
<1>8. t = UpdateMainchainHead(r, header, HeightAfter(s, p))
  BY DEF Added, AddBlock, Recorded
<1> HIDE DEF r, t
<1>9. t.blocksData = r.blocksData /\ DOMAIN t = DOMAIN r
  BY <1>7, <1>8, UpdateKeepsData
<1>10. Readable(t)
  BY <1>7, <1>9 DEF Readable
<1>11. Height(t, b) = Height(s, p) + 1
  BY <1>3, <1>6, <1>9 DEF Height
<1>12. QED
  BY <1>3, <1>6, <1>9, <1>10, <1>11 DEF t

\* The storage before header i + 1 of a batch holds what s held and the first i
\* headers, each one higher than the last.
Prefix(s, t, headers, i) ==
    /\ Readable(t)
    /\ \A d \in Block : (\A j \in 1..i : headers[j].hash # d) => t.blocksData[d] = s.blocksData[d]
    /\ \A j \in 1..i :
          /\ t.blocksData[headers[j].hash].prevBlockHash = headers[j].prevBlockHash
          /\ t.blocksData[headers[j].hash].time = headers[j].time
          /\ t.blocksData[headers[j].hash].target = headers[j].target
          /\ Height(t, headers[j].hash) = Height(s, headers[1].prevBlockHash) + j

LEMMA BatchPrefix ==
    ASSUME NEW s, Readable(s), NEW n \in Nat \ {0}, NEW headers \in Batches(s, n)
    PROVE  \A i \in 0..n : Prefix(s, BatchStates(s, headers)[i], headers, i)
<1> DEFINE After(i) == BatchStates(s, headers)[i]
           base == Height(s, headers[1].prevBlockHash)
           T == {i \in Nat : i <= n => Prefix(s, After(i), headers, i)}
<1>1. /\ Len(headers) = n
      /\ \A i \in 1..n : headers[i] \in Header /\ ~Has(s, headers[i].hash)
      /\ \A i, j \in 1..n : headers[i].hash = headers[j].hash => i = j
      /\ \A i \in 2..n : headers[i].prevBlockHash = headers[i - 1].hash
      /\ Has(s, headers[1].prevBlockHash)
  BY BatchShape
<1>2. After(0) = s /\ \A i \in 1..n : After(i) = Added(After(i - 1), headers[i])
  BY <1>1, BatchSteps
<1>3. \A i \in 1..n : headers[i].hash \in Block /\ headers[i].prevBlockHash \in Block
  BY <1>1 DEF Header
<1>4. base \in Nat
  <2>1. headers[1].prevBlockHash \in Block
    <3>1. 1 \in 1..n
      OBVIOUS
    <3>2. QED
      BY <1>3, <3>1
  <2>2. QED
    BY <2>1 DEF Readable, Height
<1> HIDE DEF After, base
<1>5. 0 \in T
  BY <1>2 DEF Prefix
<1>6. ASSUME NEW i \in T PROVE i + 1 \in T
  <2>1. SUFFICES ASSUME i + 1 <= n PROVE Prefix(s, After(i + 1), headers, i + 1)
    OBVIOUS
  <2> DEFINE u == After(i)
             hd == headers[i + 1]
             t == After(i + 1)
  <2>2. i \in Nat /\ i <= n /\ i + 1 \in 1..n /\ (i + 1) - 1 = i
    BY <2>1
  <2>3. Prefix(s, u, headers, i)
    BY <2>2
  <2>4. t = Added(u, hd) /\ hd \in Header
    BY <1>1, <1>2, <2>2
  <2>5. Height(u, hd.prevBlockHash) = base + i
    <3>1. CASE i = 0
      BY <1>2, <1>4, <3>1 DEF base
    <3>2. CASE i # 0
      <4>1. i + 1 \in 2..n /\ i \in 1..i
        BY <2>2, <3>2
      <4>2. hd.prevBlockHash = headers[i].hash
        BY <1>1, <2>2, <4>1
      <4>3. QED
        BY <2>3, <4>1, <4>2 DEF Prefix, base
    <3>3. QED
      BY <3>1, <3>2
  <2> HIDE DEF u, hd, t
  <2>6. /\ Readable(t)
        /\ \A d \in Block : d # hd.hash => t.blocksData[d] = u.blocksData[d]
        /\ t.blocksData[hd.hash].prevBlockHash = hd.prevBlockHash
        /\ t.blocksData[hd.hash].time = hd.time
        /\ t.blocksData[hd.hash].target = hd.target
        /\ Height(t, hd.hash) = base + (i + 1)
    <3>1. Readable(u)
      BY <2>3 DEF Prefix
    <3>2. (base + i) + 1 = base + (i + 1)
      BY <1>4, <2>2
    <3>3. QED
      BY <2>4, <2>5, <3>1, <3>2, AddedData
  <2>7. ASSUME NEW d \in Block, \A j \in 1..(i + 1) : headers[j].hash # d
        PROVE  t.blocksData[d] = s.blocksData[d]
    <3>1. d # hd.hash /\ \A j \in 1..i : headers[j].hash # d
      <4>1. i + 1 \in 1..(i + 1) /\ \A j \in 1..i : j \in 1..(i + 1)
        BY <2>2
      <4>2. QED
        BY <2>7, <4>1 DEF hd
    <3>2. QED
      BY <2>3, <2>6, <3>1 DEF Prefix
  <2>8. ASSUME NEW j \in 1..(i + 1)
        PROVE  /\ t.blocksData[headers[j].hash].prevBlockHash = headers[j].prevBlockHash
               /\ t.blocksData[headers[j].hash].time = headers[j].time
               /\ t.blocksData[headers[j].hash].target = headers[j].target
               /\ Height(t, headers[j].hash) = base + j
    <3>1. CASE j = i + 1
      BY <2>6, <3>1 DEF hd
    <3>2. CASE j # i + 1
      <4>1. j \in 1..i /\ j \in 1..n
        BY <2>2, <3>2
      <4>2. headers[j].hash \in Block /\ headers[j].hash # hd.hash
        BY <1>1, <1>3, <2>2, <3>2, <4>1 DEF hd
      <4>3. t.blocksData[headers[j].hash] = u.blocksData[headers[j].hash]
        BY <2>6, <4>2
      <4>4. QED
        BY <2>3, <4>1, <4>3 DEF Prefix, Height, base
    <3>3. QED
      BY <3>1, <3>2
  <2>9. QED
    BY <2>6, <2>7, <2>8 DEF Prefix, t, base
<1> HIDE DEF T
<1>7. T \in SUBSET Nat
  BY DEF T
<1>8. \A i \in Nat : i \in T
  BY <1>5, <1>6, <1>7, SetInduction
<1>9. QED
  BY <1>8 DEF T, After

\* Walking back from a header of a batch meets the headers before it.
LEMMA BatchAncestors ==
    ASSUME NEW s, NEW n \in Nat \ {0}, NEW headers \in Batches(s, n),
           NEW m \in 1..n, NEW t, Prefix(s, t, headers, m)
    PROVE  \A k \in 0..(m - 1) : AncestorOf(t, headers[m].hash, k) = headers[m - k].hash
<1> DEFINE A(k) == AncestorOf(t, headers[m].hash, k)
           T == {k \in Nat : k <= m - 1 => A(k) = headers[m - k].hash}
<1>1. /\ \A i \in 1..n : headers[i] \in Header
      /\ \A i \in 2..n : headers[i].prevBlockHash = headers[i - 1].hash
  BY BatchShape
<1>2. A(0) = headers[m].hash /\ \A k \in Nat : A(k + 1) = Data(t, A(k)).prevBlockHash
  BY AncestorSteps
<1> HIDE DEF A
<1>3. 0 \in T
  <2>1. m - 0 = m
    OBVIOUS
  <2>2. QED
    BY <1>2, <2>1
<1>4. ASSUME NEW k \in T PROVE k + 1 \in T
  <2>1. SUFFICES ASSUME k + 1 <= m - 1 PROVE A(k + 1) = headers[m - (k + 1)].hash
    OBVIOUS
  <2>2. k \in Nat /\ k <= m - 1 /\ m - k \in 1..m /\ m - k \in 2..n /\ m - k \in 1..n
        /\ (m - k) - 1 = m - (k + 1)
    BY <2>1
  <2>3. A(k) = headers[m - k].hash
    BY <2>2
  <2>4. A(k) \in Block
    BY <1>1, <2>2, <2>3 DEF Header
  <2>5. A(k + 1) = t.blocksData[A(k)].prevBlockHash
    BY <1>2, <2>2, <2>4, Reads
  <2>6. t.blocksData[headers[m - k].hash].prevBlockHash = headers[m - k].prevBlockHash
    BY <2>2 DEF Prefix
  <2>7. headers[m - k].prevBlockHash = headers[m - (k + 1)].hash
    BY <1>1, <2>2
  <2>8. QED
    BY <2>3, <2>5, <2>6, <2>7
<1> HIDE DEF T
<1>5. T \in SUBSET Nat
  BY DEF T
<1>6. \A k \in Nat : k \in T
  BY <1>3, <1>4, <1>5, SetInduction
<1>7. QED
  BY <1>6 DEF T, A

\* As many indices satisfy a condition read backwards.
LEMMA ReversedCardinality ==
    ASSUME NEW m \in Nat, NEW U \in SUBSET (1..m)
    PROVE  Cardinality({k \in 1..m : m + 1 - k \in U}) = Cardinality(U)
<1> DEFINE V == {k \in 1..m : m + 1 - k \in U}
           f == [x \in U |-> m + 1 - x]
<1>1. IsFiniteSet(U)
  <2>1. IsFiniteSet(1..m)
    BY FS_Interval
  <2>2. QED
    BY <2>1, FS_Subset
<1>2. f \in [U -> V]
  <2>1. ASSUME NEW x \in U PROVE m + 1 - x \in V
    <3>1. x \in 1..m /\ m + 1 - x \in 1..m /\ m + 1 - (m + 1 - x) = x
      OBVIOUS
    <3>2. QED
      BY <3>1
  <2>2. QED
    BY <2>1
<1>3. ASSUME NEW x \in U, NEW y \in U, f[x] = f[y] PROVE x = y
  <2>1. x \in 1..m /\ y \in 1..m /\ m + 1 - x = m + 1 - y
    BY <1>3
  <2>2. QED
    BY <2>1
<1>4. ASSUME NEW v \in V PROVE \E x \in U : f[x] = v
  <2>1. m + 1 - v \in U /\ v \in 1..m
    OBVIOUS
  <2>2. f[m + 1 - v] = v
    BY <2>1
  <2>3. QED
    BY <2>1, <2>2
<1> HIDE DEF f, V
<1>5. f \in Bijection(U, V)
  BY <1>2, <1>3, <1>4 DEF Bijection, Injection, Surjection, IsInjective
<1>6. Cardinality(V) = Cardinality(U)
  BY <1>1, <1>5, FS_Bijection DEF ExistsBijection
<1>7. QED
  BY <1>6 DEF V

\* The median does not depend on the order in which the times are read.
LEMMA MedianReversed ==
    ASSUME NEW f, NEW g, \A k \in 1..MedianPast : g[k] = f[MedianPast + 1 - k]
    PROVE  MedianOf(g) = MedianOf(f)
<1> DEFINE m == MedianPast
           Below(h, t) == {i \in 1..m : h[i] <= t}
           Under(h, t) == {i \in 1..m : h[i] < t}
<1>1. m \in Nat /\ \A k \in 1..m : m + 1 - k \in 1..m /\ m + 1 - (m + 1 - k) = k
  BY GatewayAssumption
<1>2. {g[i] : i \in 1..m} = {f[i] : i \in 1..m}
  <2>1. ASSUME NEW i \in 1..m PROVE g[i] \in {f[k] : k \in 1..m}
    BY <1>1
  <2>2. ASSUME NEW i \in 1..m PROVE f[i] \in {g[k] : k \in 1..m}
    <3>1. m + 1 - i \in 1..m /\ g[m + 1 - i] = f[i]
      BY <1>1
    <3>2. QED
      BY <3>1
  <2>3. QED
    BY <2>1, <2>2
<1>3. ASSUME NEW t PROVE Cardinality(Below(g, t)) = Cardinality(Below(f, t))
  <2>1. Below(g, t) = {k \in 1..m : m + 1 - k \in Below(f, t)}
    BY <1>1
  <2>2. Below(f, t) \in SUBSET (1..m)
    OBVIOUS
  <2> HIDE DEF Below
  <2>3. QED
    BY <1>1, <2>1, <2>2, ReversedCardinality
<1>4. ASSUME NEW t PROVE Cardinality(Under(g, t)) = Cardinality(Under(f, t))
  <2>1. Under(g, t) = {k \in 1..m : m + 1 - k \in Under(f, t)}
    BY <1>1
  <2>2. Under(f, t) \in SUBSET (1..m)
    OBVIOUS
  <2> HIDE DEF Under
  <2>3. QED
    BY <1>1, <2>1, <2>2, ReversedCardinality
<1>5. Medians(g) = Medians(f)
  BY <1>2, <1>3, <1>4, Zenon DEF Medians
<1>6. QED
  BY <1>5 DEF MedianOf

\* The median taken from memory is the one that storage gives.
LEMMA MediansAgree ==
    ASSUME NEW s, Readable(s), NEW n \in Nat \ {0}, NEW headers \in Batches(s, n),
           NEW i \in 1..n, NEW t, Prefix(s, t, headers, i - 1)
    PROVE  BatchMedian(t, headers, i) =
               StorageMedianTime(t, headers[i], HeightAfter(t, headers[i].prevBlockHash))
<1>1. CASE i <= MedianPast
  BY <1>1 DEF BatchMedian
<1>2. CASE ~(i <= MedianPast)
  <2> DEFINE m == i - 1
             p == headers[i].prevBlockHash
             h == HeightAfter(t, p)
             g == [k \in 1..MedianPast |-> Data(t, AncestorOf(t, p, k - 1)).time]
             f == [k \in 1..MedianPast |-> headers[i - MedianPast + k - 1].time]
  <2>1. MedianPast \in Nat /\ MedianPast >= 1 /\ m \in 1..n /\ i \in 2..n /\ m >= MedianPast
        /\ i > MedianPast
    BY <1>2, GatewayAssumption
  <2>2. /\ \A j \in 1..n : headers[j] \in Header
        /\ \A j \in 2..n : headers[j].prevBlockHash = headers[j - 1].hash
    BY BatchShape
  <2>3. p = headers[m].hash /\ p \in Block
    BY <2>1, <2>2 DEF Header
  <2>4. h = Height(s, headers[1].prevBlockHash) + m + 1 /\ Height(s, headers[1].prevBlockHash) \in Nat
    <3>1. headers[1].prevBlockHash \in Block
      <4>1. 1 \in 1..n
        OBVIOUS
      <4>2. QED
        BY <2>2, <4>1 DEF Header
    <3>2. Height(s, headers[1].prevBlockHash) \in Nat
      BY <3>1 DEF Readable, Height
    <3>3. m \in 1..m
      BY <2>1
    <3>4. Height(t, headers[m].hash) = Height(s, headers[1].prevBlockHash) + m
      BY <3>3 DEF Prefix
    <3>5. QED
      BY <2>1, <2>3, <3>2, <3>4, Reads
  <2>5. h # 1 /\ ~(h - 1 < MedianPast)
    BY <2>1, <2>4
  <2>6. ASSUME NEW k \in 1..MedianPast PROVE g[k] = f[MedianPast + 1 - k]
    <3>1. k - 1 \in 0..(m - 1) /\ m - (k - 1) = i - k /\ i - k \in 1..m /\ i - k \in 1..n
          /\ MedianPast + 1 - k \in 1..MedianPast
          /\ i - MedianPast + (MedianPast + 1 - k) - 1 = i - k
      BY <2>1
    <3>2. AncestorOf(t, p, k - 1) = headers[i - k].hash
      BY <2>1, <2>3, <3>1, BatchAncestors
    <3>3. headers[i - k].hash \in Block
      BY <2>2, <3>1 DEF Header
    <3>4. Data(t, headers[i - k].hash).time = headers[i - k].time
      BY <3>1, <3>3, Reads DEF Prefix
    <3>5. f[MedianPast + 1 - k] = headers[i - k].time
      BY <3>1
    <3>6. QED
      BY <3>2, <3>4, <3>5
  <2>7. BatchMedian(t, headers, i) = MedianOf(f)
    BY <1>2 DEF BatchMedian, MemoryMedianTime
  <2>8. StorageMedianTime(t, headers[i], h) = MedianOf(g)
    BY <2>5 DEF StorageMedianTime
  <2> HIDE DEF f, g
  <2>9. MedianOf(g) = MedianOf(f)
    BY <2>6, MedianReversed
  <2>10. QED
    BY <2>7, <2>8, <2>9
<1>3. QED
  BY <1>1, <1>2

\* Every storage the gateway reaches can be read, whatever the difficulties.
LEMMA ReadableCorrect == Spec => []Readable(spv)
<1>1. Init => Readable(spv)
  <2>1. SUFFICES ASSUME Init PROVE Readable(spv)
    OBVIOUS
  <2>2. PICK c \in Block, time \in Time, target \in HeaderTarget :
          spv = AddBlock([blocksData |-> [b \in Block |-> ZeroBlock],
                          blocksHeightToBlockHash |-> [h \in Heights |-> NoBlock],
                          mainchainHead |-> NoBlock],
                         [hash |-> c, prevBlockHash |-> Before, time |-> time,
                          target |-> target],
                         InitHeight, CountBlockWork(target))
    BY <2>1 DEF Init
  <2> DEFINE rec == [prevBlockHash |-> Before, time |-> time, target |-> target,
                     blockHeight |-> InitHeight, cumulativeWork |-> CountBlockWork(target)]
  <2>3. spv = [blocksData |-> [[b \in Block |-> ZeroBlock] EXCEPT ![c] = rec],
               blocksHeightToBlockHash |-> [[h \in Heights |-> NoBlock] EXCEPT ![InitHeight] = c],
               mainchainHead |-> c]
    BY <2>2 DEF AddBlock, UpdateMainchainHead
  <2>4. rec.blockHeight \in Nat /\ ZeroBlock.blockHeight \in Nat
    BY GatewayAssumption DEF ZeroBlock
  <2> HIDE DEF rec
  <2>5. QED
    BY <2>3, <2>4 DEF Readable
<1>2. Readable(spv) /\ [Next]_spv => Readable(spv)'
  <2>1. SUFFICES ASSUME Readable(spv), [Next]_spv PROVE Readable(spv')
    OBVIOUS
  <2>2. ASSUME NEW header \in Header, AddBlockHeader(header) PROVE Readable(spv')
    BY <2>1, <2>2, AddedData DEF AddBlockHeader
  <2>3. ASSUME NEW n \in 2..MaxBatch, NEW headers \in Batches(spv, n),
               AddBlockHeaderBatch(headers)
        PROVE  Readable(spv')
    <3>1. n \in Nat \ {0} /\ n \in 0..n
      BY GatewayAssumption
    <3>2. Len(headers) = n
      BY <3>1, BatchShape
    <3>3. Prefix(spv, BatchStates(spv, headers)[n], headers, n)
      BY <2>1, <3>1, BatchPrefix
    <3>4. QED
      BY <2>3, <3>2, <3>3 DEF AddBlockHeaderBatch, Prefix
  <2>4. CASE UNCHANGED spv
    BY <2>1, <2>4
  <2>5. QED
    BY <2>1, <2>2, <2>3, <2>4 DEF Next
<1>3. QED
  BY <1>1, <1>2, PTL DEF Spec

\* A batch is accepted exactly when its headers would be one at a time, for
\* every median window, every length and every mix of difficulties: reading the
\* times of the batch from memory and carrying its target change nothing.
THEOREM BatchIsSequenceHolds == Spec => []BatchIsSequence
<1>1. Readable(spv) => BatchIsSequence
  <2>1. SUFFICES ASSUME Readable(spv), NEW n \in 1..MaxBatch, NEW headers \in Batches(spv, n)
                 PROVE  AcceptsBatch(spv, headers) <=>
                          \A i \in 1..n : AcceptsOne(BatchStates(spv, headers)[i - 1], headers[i])
    BY DEF BatchIsSequence
  <2> DEFINE After(i) == BatchStates(spv, headers)[i]
             CarriedTarget(i) == IF i = 1 THEN Data(spv, headers[1].prevBlockHash).target
                                 ELSE headers[i - 1].target
  <2>2. n \in Nat \ {0}
    BY GatewayAssumption
  <2>3. /\ Len(headers) = n /\ headers # <<>>
        /\ \A i \in 1..n : headers[i] \in Header /\ ~Has(spv, headers[i].hash)
        /\ \A i \in 2..n : headers[i].prevBlockHash = headers[i - 1].hash
    BY <2>2, BatchShape
  <2>4. ASSUME NEW i \in 1..n PROVE ~BlockExists(spv, headers[i].hash)
    BY <2>3, Reads DEF Header
  <2>5. AcceptsBatch(spv, headers) <=>
          \A i \in 1..n : Accepts(After(i - 1), headers[i], CarriedTarget(i),
                                  BatchMedian(After(i - 1), headers, i))
    BY <2>3, <2>4 DEF AcceptsBatch
  <2>6. After(0) = spv
    BY <2>2, <2>3, BatchSteps
  <2> HIDE DEF After
  <2>7. ASSUME NEW i \in 1..n
        PROVE  /\ CarriedTarget(i) = Data(After(i - 1), headers[i].prevBlockHash).target
               /\ BatchMedian(After(i - 1), headers, i) =
                    StorageMedianTime(After(i - 1), headers[i],
                                      HeightAfter(After(i - 1), headers[i].prevBlockHash))
    <3>1. i - 1 \in 0..n
      BY <2>2
    <3>2. Prefix(spv, After(i - 1), headers, i - 1)
      BY <2>1, <2>2, <3>1, BatchPrefix DEF After
    <3>3. BatchMedian(After(i - 1), headers, i) =
            StorageMedianTime(After(i - 1), headers[i],
                              HeightAfter(After(i - 1), headers[i].prevBlockHash))
      BY <2>1, <2>2, <3>2, MediansAgree
    <3>4. CASE i = 1
      BY <2>6, <3>3, <3>4
    <3>5. CASE i # 1
      <4>1. i \in 2..n /\ i - 1 \in 1..(i - 1) /\ i - 1 \in 1..n
        BY <2>2, <3>5
      <4>2. headers[i].prevBlockHash = headers[i - 1].hash /\ headers[i - 1].hash \in Block
        BY <2>3, <4>1 DEF Header
      <4>3. Data(After(i - 1), headers[i - 1].hash).target = headers[i - 1].target
        BY <3>2, <4>1, <4>2, Reads DEF Prefix
      <4>4. QED
        BY <3>3, <3>5, <4>2, <4>3
    <3>6. QED
      BY <3>4, <3>5
  <2> HIDE DEF CarriedTarget
  <2>8. ASSUME NEW i \in 1..n
        PROVE  AcceptsOne(After(i - 1), headers[i]) <=>
                 Accepts(After(i - 1), headers[i], CarriedTarget(i), BatchMedian(After(i - 1), headers, i))
    BY <2>7 DEF AcceptsOne
  <2>9. QED
    BY <2>5, <2>8 DEF After
<1>2. QED
  BY <1>1, ReadableCorrect, PTL

-----------------------------------------------------------------------------
(* The relayer is a client of the gateway: each of its steps is a step of   *)
(* SPVGateway, or none.                                                     *)

\* New blocks on top of a stored one never outgrow the set of blocks: the walk
\* down from the stored block and the new blocks are all different.
LEMMA RoomAbove ==
    ASSUME NEW s, Sound(s), NEW p \in Block, Has(s, p), NEW n \in Nat, NEW hashes,
           \A i \in 1..n : hashes[i] \in Block /\ ~Has(s, hashes[i]),
           \A i, j \in 1..n : hashes[i] = hashes[j] => i = j
    PROVE  Height(s, p) + n <= MaxHeight
<1> DEFINE L == Height(s, p) + 1 - InitHeight
           f == [i \in 1..(L + n) |-> IF i <= L THEN AncestorOf(s, p, i - 1) ELSE hashes[i - L]]
<1>1. Height(s, p) \in Nat /\ Height(s, p) >= InitHeight /\ InitHeight \in Nat /\ L \in Nat
  BY Stands, HeightBounds DEF Sound
<1>2. ASSUME NEW i \in 1..(L + n), i <= L
      PROVE  f[i] \in Block /\ Has(s, f[i]) /\ Height(s, f[i]) = Height(s, p) - (i - 1)
  <2>1. i - 1 \in Nat /\ i - 1 <= Height(s, p) - InitHeight
    BY <1>1, <1>2
  <2>2. f[i] = AncestorOf(s, p, i - 1)
    BY <1>2
  <2>3. QED
    BY <2>1, <2>2, AncestorsStored DEF Sound
<1>3. ASSUME NEW i \in 1..(L + n), ~(i <= L)
      PROVE  i - L \in 1..n /\ f[i] = hashes[i - L] /\ f[i] \in Block /\ ~Has(s, f[i])
  <2>1. i - L \in 1..n
    BY <1>1, <1>3
  <2>2. f[i] = hashes[i - L]
    BY <1>3
  <2>3. QED
    BY <2>1, <2>2
<1>4. f \in [1..(L + n) -> Block]
  <2>1. \A i \in 1..(L + n) : f[i] \in Block
    BY <1>2, <1>3
  <2>2. QED
    BY <2>1
<1> HIDE DEF f
<1>5. ASSUME NEW i \in 1..(L + n), NEW j \in 1..(L + n), f[i] = f[j]
      PROVE  i = j
  <2>1. CASE i <= L
    <3>1. j <= L
      BY <1>2, <1>3, <1>5, <2>1
    <3>2. Height(s, p) - (i - 1) = Height(s, p) - (j - 1)
      BY <1>2, <1>5, <2>1, <3>1
    <3>3. QED
      BY <1>1, <3>2
  <2>2. CASE ~(i <= L)
    <3>1. ~(j <= L)
      BY <1>2, <1>3, <1>5, <2>2
    <3>2. i - L = j - L
      BY <1>3, <1>5, <2>2, <3>1
    <3>3. QED
      BY <1>1, <3>2
  <2>3. QED
    BY <2>1, <2>2
<1>6. f \in Injection(1..(L + n), Block)
  BY <1>4, <1>5 DEF Injection, IsInjective
<1>7. Cardinality(1..(L + n)) = L + n
  <2>1. L + n \in Nat
    BY <1>1
  <2>2. QED
    BY <1>1, <2>1, FS_Interval
<1>8. L + n <= Cardinality(Block)
  BY <1>6, <1>7, FS_Injection, RelayerAssumption
<1>9. Cardinality(Block) \in Nat /\ Cardinality(Block) <= MaxHeight + 1 - InitHeight
      /\ MaxHeight \in Nat
  BY RelayerAssumption, FS_CardinalityType, HeightBounds
<1>10. QED
  BY <1>1, <1>8, <1>9

\* The headers of an accepted batch are members of Header with hashes of their
\* own: each is refused where another with its hash was just stored.
LEMMA AcceptedShape ==
    ASSUME NEW s, Sound(s), NEW headers, NEW n \in Nat \ {0}, Len(headers) = n,
           \A i \in 1..n : /\ headers[i].hash \in Block
                           /\ headers[i] \in [hash : Block, prevBlockHash : Block \cup {Before},
                                              time : Time, target : HeaderTarget],
           AcceptsBatch(s, headers)
    PROVE  /\ \A i \in 1..n : headers[i] \in Header /\ ~Has(s, headers[i].hash)
           /\ \A i, j \in 1..n : headers[i].hash = headers[j].hash => i = j
           /\ Has(s, headers[1].prevBlockHash)
<1> DEFINE After(i) == BatchStates(s, headers)[i]
           T == {i \in Nat : i <= n =>
                    /\ Readable(After(i))
                    /\ \A j \in 1..i : Has(After(i), headers[j].hash)}
<1>1. After(0) = s /\ \A i \in 1..n : After(i) = Added(After(i - 1), headers[i])
  BY BatchSteps
<1>2. \A i \in 2..n : headers[i].prevBlockHash = headers[i - 1].hash
  BY DEF AcceptsBatch
<1>3. ASSUME NEW i \in 1..n PROVE ~Has(s, headers[i].hash)
  <2>1. ~BlockExists(s, headers[i].hash)
    BY DEF AcceptsBatch
  <2>2. QED
    BY <2>1, Reads
<1>4. headers[1].prevBlockHash \in Block /\ Has(s, headers[1].prevBlockHash)
  <2>1. 1 \in 1..n /\ 1 - 1 = 0
    OBVIOUS
  <2>2. BlockExists(After(0), headers[1].prevBlockHash)
    BY <2>1 DEF AcceptsBatch, Accepts
  <2>3. headers[1].prevBlockHash \in Block
    BY <1>1, <2>2 DEF BlockExists, Data, ZeroBlock
  <2>4. QED
    BY <1>1, <2>2, <2>3, Reads
<1>5. ASSUME NEW i \in 1..n PROVE headers[i] \in Header
  <2>1. headers[i].prevBlockHash \in Block
    <3>1. CASE i = 1
      BY <1>4, <3>1
    <3>2. CASE i # 1
      <4>1. i \in 2..n /\ i - 1 \in 1..n
        BY <3>2
      <4>2. QED
        BY <1>2, <4>1
    <3>3. QED
      BY <3>1, <3>2
  <2>2. QED
    BY <2>1 DEF Header
<1>6. ASSUME NEW i \in 1..n PROVE ~Has(After(i - 1), headers[i].hash)
  <2>1. ~BlockExists(After(i - 1), headers[i].hash)
    BY DEF AcceptsBatch, Accepts
  <2>2. QED
    BY <2>1, Reads
<1> HIDE DEF After
<1>7. 0 \in T
  <2>1. Readable(s)
    BY ReadTypes DEF Sound, Storage, BlockRecord, Readable, Height
  <2>2. QED
    BY <1>1, <2>1
<1>8. ASSUME NEW i \in T PROVE i + 1 \in T
  <2>1. SUFFICES ASSUME i + 1 <= n
                 PROVE  /\ Readable(After(i + 1))
                        /\ \A j \in 1..(i + 1) : Has(After(i + 1), headers[j].hash)
    OBVIOUS
  <2>2. i \in Nat /\ i <= n /\ i + 1 \in 1..n /\ (i + 1) - 1 = i
    BY <2>1
  <2>3. Readable(After(i)) /\ \A j \in 1..i : Has(After(i), headers[j].hash)
    BY <2>2
  <2>4. After(i + 1) = Added(After(i), headers[i + 1]) /\ headers[i + 1] \in Header
    BY <1>1, <1>5, <2>2
  <2>5. /\ Readable(After(i + 1))
        /\ \A d \in Block : d # headers[i + 1].hash =>
              After(i + 1).blocksData[d] = After(i).blocksData[d]
        /\ After(i + 1).blocksData[headers[i + 1].hash].time = headers[i + 1].time
    BY <2>3, <2>4, AddedData
  <2>6. Has(After(i + 1), headers[i + 1].hash)
    BY <2>4, <2>5, TimesPositive DEF Has, Header
  <2>7. ASSUME NEW j \in 1..i PROVE Has(After(i + 1), headers[j].hash)
    <3>1. j \in 1..n
      BY <2>2
    <3>2. QED
      BY <2>3, <2>5, <2>6, <3>1 DEF Has
  <2>8. QED
    BY <2>2, <2>5, <2>6, <2>7
<1> HIDE DEF T
<1>9. T \in SUBSET Nat
  BY DEF T
<1>10. \A i \in Nat : i \in T
  BY <1>7, <1>8, <1>9, SetInduction
<1>11. ASSUME NEW i \in 1..n, NEW j \in 1..n, j < i PROVE headers[i].hash # headers[j].hash
  <2>1. i - 1 \in Nat /\ i - 1 <= n /\ j \in 1..(i - 1)
    BY <1>11
  <2>2. Has(After(i - 1), headers[j].hash)
    BY <1>10, <2>1 DEF T
  <2>3. QED
    BY <1>6, <2>2
<1>12. \A i, j \in 1..n : headers[i].hash = headers[j].hash => i = j
  <2>1. SUFFICES ASSUME NEW i \in 1..n, NEW j \in 1..n, headers[i].hash = headers[j].hash
                 PROVE  i = j
    OBVIOUS
  <2>2. ~(j < i) /\ ~(i < j)
    BY <1>11, <2>1
  <2>3. QED
    BY <2>2
<1>13. QED
  BY <1>3, <1>4, <1>5, <1>12

\* So an accepted batch is one of those Next enumerates, and within its bounds.
LEMMA AcceptedIsBatch ==
    ASSUME Sound(spv), NEW headers, NEW n \in Nat \ {0}, Len(headers) = n,
           headers = [i \in 1..n |-> headers[i]],
           \A i \in 1..n : /\ headers[i].hash \in Block
                           /\ headers[i] \in [hash : Block, prevBlockHash : Block \cup {Before},
                                              time : Time, target : HeaderTarget],
           AcceptsBatch(spv, headers)
    PROVE  /\ headers \in Batches(spv, n)
           /\ HeightAfter(spv, headers[1].prevBlockHash) + n - 1 <= MaxHeight
<1>1. /\ \A i \in 1..n : headers[i] \in Header /\ ~Has(spv, headers[i].hash)
      /\ \A i, j \in 1..n : headers[i].hash = headers[j].hash => i = j
      /\ Has(spv, headers[1].prevBlockHash)
  BY AcceptedShape
<1> DEFINE p == headers[1].prevBlockHash
           hashes == [i \in 1..n |-> headers[i].hash]
           times == [i \in 1..n |-> headers[i].time]
           targets == [i \in 1..n |-> headers[i].target]
<1>2. 1 \in 1..n /\ p \in Block
  <2>1. 1 \in 1..n
    OBVIOUS
  <2>2. QED
    BY <1>1, <2>1 DEF Header
<1>3. \A i \in 1..n : hashes[i] \in Block /\ ~Has(spv, hashes[i])
  BY <1>1 DEF Header
<1>4. Height(spv, p) + n <= MaxHeight
  <2>1. \A i, j \in 1..n : hashes[i] = hashes[j] => i = j
    BY <1>1
  <2> HIDE DEF hashes
  <2>2. QED
    BY <1>1, <1>2, <1>3, <2>1, RoomAbove
<1>5. Height(spv, p) \in Nat /\ HeightAfter(spv, p) = Height(spv, p) + 1
  BY <1>2, Reads, ReadTypes DEF Sound
<1>6. p \in Block \ Fresh(spv)
  BY <1>1, <1>2, Reads DEF Fresh
<1>7. hashes \in DistinctHashes(spv, n)
  <2>1. \A i \in 1..n : hashes[i] \in Fresh(spv)
    BY <1>3, Reads DEF Fresh
  <2>2. QED
    BY <1>1, <2>1 DEF DistinctHashes
<1>8. times \in [1..n -> Time] /\ targets \in [1..n -> HeaderTarget]
  OBVIOUS
<1>9. headers = Batch(p, hashes, times, targets, n)
  <2>1. ASSUME NEW i \in 1..n
        PROVE  headers[i] = [hash |-> hashes[i],
                             prevBlockHash |-> IF i = 1 THEN p ELSE hashes[i - 1],
                             time |-> times[i], target |-> targets[i]]
    <3>1. headers[i].prevBlockHash = IF i = 1 THEN p ELSE hashes[i - 1]
      <4>1. CASE i # 1
        <5>1. i \in 2..n /\ i - 1 \in 1..n
          BY <4>1
        <5>2. headers[i].prevBlockHash = headers[i - 1].hash
          BY <5>1 DEF AcceptsBatch
        <5>3. QED
          BY <4>1, <5>1, <5>2
      <4>2. QED
        BY <4>1
    <3>2. headers[i] = [hash |-> headers[i].hash, prevBlockHash |-> headers[i].prevBlockHash,
                        time |-> headers[i].time, target |-> headers[i].target]
      BY <1>1 DEF Header
    <3>3. QED
      BY <3>1, <3>2
  <2> HIDE DEF p, hashes, times, targets
  <2>2. QED
    BY <2>1 DEF Batch
<1>10. headers \in Batches(spv, n)
  <2> HIDE DEF p, hashes, times, targets
  <2>1. QED
    BY <1>6, <1>7, <1>8, <1>9 DEF Batches
<1>11. QED
  BY <1>4, <1>5, <1>10

\* An accepted batch of the relayer's size is a call of Next.
LEMMA AcceptedIsStep ==
    ASSUME Sound(spv), NEW n \in Nat \ {0}, n <= MaxBatch, NEW headers \in Batches(spv, n),
           HeightAfter(spv, headers[1].prevBlockHash) + n - 1 <= MaxHeight,
           AcceptsBatch(spv, headers), spv' = BatchStates(spv, headers)[n]
    PROVE  Next
<1>1. Len(headers) = n /\ \A i \in 1..n : headers[i] \in Header
  BY BatchShape
<1>2. 1 \in 1..n /\ headers[1].prevBlockHash \in Block
  <2>1. 1 \in 1..n
    OBVIOUS
  <2>2. QED
    BY <1>1, <2>1 DEF Header
<1>3. HeightAfter(spv, headers[1].prevBlockHash) \in Nat
  BY <1>2, Reads, ReadTypes DEF Sound
<1>4. CASE n = 1
  <2>1. BatchStates(spv, headers)[0] = spv /\ BatchStates(spv, headers)[1] = Added(spv, headers[1])
    <3>1. 1 - 1 = 0
      OBVIOUS
    <3>2. QED
      BY <1>1, <1>2, <3>1, BatchSteps
  <2>2. 1 <= MedianPast /\ 1 - 1 = 0
    BY GatewayAssumption
  <2>3. Accepts(BatchStates(spv, headers)[1 - 1], headers[1],
                Data(spv, headers[1].prevBlockHash).target,
                BatchMedian(BatchStates(spv, headers)[1 - 1], headers, 1))
    BY <1>1, <1>2 DEF AcceptsBatch
  <2>4. AcceptsOne(spv, headers[1])
    BY <2>1, <2>2, <2>3 DEF AcceptsOne, BatchMedian
  <2>5. AddBlockHeader(headers[1])
    BY <1>3, <1>4, <2>1, <2>4 DEF AddBlockHeader
  <2>6. QED
    BY <1>1, <1>2, <2>5 DEF Next
<1>5. CASE n # 1
  <2>1. n \in 2..MaxBatch
    BY <1>5, GatewayAssumption
  <2>2. AddBlockHeaderBatch(headers)
    BY <1>1 DEF AddBlockHeaderBatch
  <2>3. QED
    BY <2>1, <2>2 DEF Next
<1>6. QED
  BY <1>4, <1>5

\* Bitcoin as the header source has it: a tree of blocks on the checkpoint, each
\* ranked above its parent.
RanksMined(rank) ==
    /\ rank \in [Mined -> 1..Cardinality(Mined)]
    /\ \A b \in Mined : prevOf[b] \in Mined => rank[prevOf[b]] < rank[b]

Bitcoin ==
    /\ Mined \subseteq Block /\ best \in Mined
    /\ \A b \in Mined : prevOf[b] \in Mined \cup {Before}
    /\ \E rank : RanksMined(rank)

\* The blocks from b down, one at each step, and Before once there are no more.
IsDescent(f, b, n) ==
    f = [i \in 0..n |-> IF i = 0 THEN b
                        ELSE IF f[i - 1] \in Mined THEN prevOf[f[i - 1]] ELSE Before]

LEMMA DescentExists ==
    ASSUME NEW b
    PROVE  \A n \in Nat : \E f : IsDescent(f, b, n)
<1> DEFINE T == {n \in Nat : \E f : IsDescent(f, b, n)}
<1>1. 0 \in T
  <2>1. IsDescent([i \in 0..0 |-> b], b, 0)
    BY DEF IsDescent
  <2>2. QED
    BY <2>1
<1>2. ASSUME NEW n \in T PROVE n + 1 \in T
  <2>1. PICK f : IsDescent(f, b, n)
    OBVIOUS
  <2> DEFINE g == [i \in 0..(n + 1) |-> IF i = n + 1
                                        THEN IF f[n] \in Mined THEN prevOf[f[n]] ELSE Before
                                        ELSE f[i]]
  <2>2. ASSUME NEW i \in 0..(n + 1)
        PROVE  g[i] = IF i = 0 THEN b
                      ELSE IF g[i - 1] \in Mined THEN prevOf[g[i - 1]] ELSE Before
    <3>1. CASE i = n + 1
      <4>1. i # 0 /\ n \in 0..(n + 1) /\ n # n + 1 /\ i - 1 = n
        BY <3>1
      <4>2. g[i - 1] = f[n]
        BY <4>1
      <4>3. QED
        BY <3>1, <4>1, <4>2
    <3>2. CASE i # n + 1
      <4>1. i \in 0..n
        BY <3>2
      <4>2. g[i] = f[i]
        BY <3>2
      <4>3. f[i] = IF i = 0 THEN b
                   ELSE IF f[i - 1] \in Mined THEN prevOf[f[i - 1]] ELSE Before
        BY <2>1, <4>1 DEF IsDescent
      <4>4. i # 0 => g[i - 1] = f[i - 1]
        BY <4>1
      <4>5. QED
        BY <4>2, <4>3, <4>4
    <3>3. QED
      BY <3>1, <3>2
  <2> HIDE DEF g
  <2>3. g = [i \in 0..(n + 1) |-> g[i]]
    BY DEF g
  <2>4. IsDescent(g, b, n + 1)
    BY <2>2, <2>3 DEF IsDescent
  <2>5. QED
    BY <2>4
<1> HIDE DEF T
<1>3. T \in SUBSET Nat
  BY DEF T
<1>4. \A n \in Nat : n \in T
  BY <1>1, <1>2, <1>3, SetInduction
<1>5. QED
  BY <1>4 DEF T

\* A descent stays among the mined blocks until it leaves them below the
\* checkpoint, which it does: the rank falls with every step.
LEMMA DescentEnds ==
    ASSUME Bitcoin, NEW b \in Mined, NEW f, IsDescent(f, b, Cardinality(Mined))
    PROVE  /\ Cardinality(Mined) \in Nat
           /\ \A i \in 0..Cardinality(Mined) : f[i] \in Mined \cup {Before}
           /\ f[Cardinality(Mined)] = Before
<1> DEFINE N == Cardinality(Mined)
<1>1. N \in Nat
  BY RelayerAssumption, FS_Subset, FS_CardinalityType DEF Bitcoin
<1>2. PICK rank : RanksMined(rank)
  BY DEF Bitcoin
<1>3. Before \notin Mined
  BY GatewayAssumption DEF Bitcoin
<1>4. \A c \in Mined : rank[c] \in 1..N
  BY <1>2 DEF RanksMined
<1> HIDE DEF N
<1> DEFINE T == {i \in Nat : i <= N =>
                    /\ f[i] \in Mined \cup {Before}
                    /\ f[i] \in Mined => rank[f[i]] + i <= N}
<1>5. IsDescent(f, b, N)
  BY DEF N
<1>6. 0 \in T
  <2>1. f[0] = b
    <3>1. 0 \in 0..N
      BY <1>1
    <3>2. QED
      BY <1>5, <3>1 DEF IsDescent
  <2>2. QED
    BY <1>1, <1>4, <2>1
<1>7. ASSUME NEW i \in T PROVE i + 1 \in T
  <2>1. SUFFICES ASSUME i + 1 <= N
                 PROVE  /\ f[i + 1] \in Mined \cup {Before}
                        /\ f[i + 1] \in Mined => rank[f[i + 1]] + (i + 1) <= N
    OBVIOUS
  <2>2. i \in Nat /\ i <= N /\ i + 1 \in 0..N /\ i + 1 # 0 /\ (i + 1) - 1 = i
    BY <1>1, <2>1
  <2>3. f[i + 1] = IF f[i] \in Mined THEN prevOf[f[i]] ELSE Before
    BY <1>5, <2>2 DEF IsDescent
  <2>4. /\ f[i] \in Mined \cup {Before}
        /\ f[i] \in Mined => rank[f[i]] + i <= N
    BY <2>2
  <2>5. f[i + 1] \in Mined \cup {Before}
    BY <2>3, <2>4 DEF Bitcoin
  <2>6. ASSUME f[i + 1] \in Mined PROVE rank[f[i + 1]] + (i + 1) <= N
    <3>1. f[i] \in Mined /\ prevOf[f[i]] = f[i + 1]
      BY <1>3, <2>3, <2>6
    <3>2. rank[f[i + 1]] < rank[f[i]]
      BY <1>2, <2>6, <3>1 DEF RanksMined
    <3>3. rank[f[i + 1]] \in Nat /\ rank[f[i]] \in Nat
      BY <1>4, <2>6, <3>1
    <3>4. QED
      BY <1>1, <2>2, <2>4, <3>1, <3>2, <3>3
  <2>7. QED
    BY <2>5, <2>6
<1> HIDE DEF T
<1>8. T \in SUBSET Nat
  BY DEF T
<1>9. \A i \in Nat : i \in T
  BY <1>6, <1>7, <1>8, SetInduction
<1>10. \A i \in 0..N : f[i] \in Mined \cup {Before}
  BY <1>1, <1>9 DEF T
<1>11. f[N] \notin Mined
  <2>1. SUFFICES ASSUME f[N] \in Mined PROVE FALSE
    OBVIOUS
  <2>2. rank[f[N]] + N <= N
    BY <1>1, <1>9, <2>1 DEF T
  <2>3. rank[f[N]] \in 1..N
    BY <1>4, <2>1
  <2>4. QED
    BY <1>1, <2>2, <2>3
<1>12. QED
  BY <1>1, <1>10, <1>11 DEF N

\* What the source answers for: the path to a mined block is a sequence of
\* mined blocks.
LEMMA PathIsMined ==
    ASSUME Bitcoin, NEW b \in Mined
    PROVE  /\ Len(PathDown(b)) \in Nat \ {0}
           /\ \A i \in 1..Len(PathDown(b)) : PathDown(b)[i] \in Mined
<1> DEFINE N == Cardinality(Mined)
           Up == CHOOSE f : IsDescent(f, b, N)
           Stops(d) == Up[d] = Before /\ \A i \in 0..(d - 1) : Up[i] # Before
           depth == CHOOSE d \in 0..N : Stops(d)
<1>1. N \in Nat
  BY RelayerAssumption, FS_Subset, FS_CardinalityType DEF Bitcoin
<1>2. IsDescent(Up, b, N)
  BY <1>1, DescentExists
<1>3. PathDown(b) = [i \in 1..depth |-> Up[i - 1]]
  BY DEF PathDown, IsDescent
<1>4. /\ \A i \in 0..N : Up[i] \in Mined \cup {Before}
      /\ Up[N] = Before
  BY <1>2, DescentEnds
<1> HIDE DEF N, Up
<1>5. \E d \in 0..N : Stops(d)
  <2> DEFINE E == {d \in 0..N : Up[d] = Before}
  <2>1. N \in E /\ E \in SUBSET Nat
    BY <1>1, <1>4
  <2>2. PICK d \in E : \A m \in E : d <= m
    BY <2>1, LeastNat
  <2>3. ASSUME NEW i \in 0..(d - 1) PROVE Up[i] # Before
    <3>1. i \in 0..N /\ ~(d <= i)
      BY <1>1, <2>2
    <3>2. QED
      BY <2>2, <3>1
  <2>4. QED
    BY <2>2, <2>3
<1>6. depth \in 0..N /\ Stops(depth)
  BY <1>5
<1> HIDE DEF depth
<1>7. depth \in Nat \ {0} /\ Len(PathDown(b)) = depth
  <2>1. 0 \in 0..N
    BY <1>1
  <2>2. Up[0] = b
    BY <1>2, <2>1 DEF IsDescent
  <2>3. Up[0] # Before
    BY <2>2, GatewayAssumption DEF Bitcoin
  <2>4. QED
    BY <1>1, <1>3, <1>6, <2>3
<1>8. ASSUME NEW i \in 1..depth PROVE PathDown(b)[i] \in Mined
  <2>1. i - 1 \in 0..(depth - 1) /\ i - 1 \in 0..N
    BY <1>1, <1>6, <1>7
  <2>2. PathDown(b)[i] = Up[i - 1]
    BY <1>3
  <2>3. QED
    BY <1>4, <1>6, <2>1, <2>2
<1>9. QED
  BY <1>7, <1>8

\* A height the source has and the gateway may want is that of a mined block.
LEMMA SourceIsMined ==
    ASSUME Bitcoin, NEW h \in Nat
    PROVE  /\ TipHeight \in Nat /\ TipHeight >= InitHeight
           /\ InitHeight <= h /\ h <= TipHeight => SourceBlock(h) \in Mined
           /\ h < InitHeight => SourceBlock(h) = Before
<1>1. Len(PathDown(best)) \in Nat \ {0}
      /\ \A i \in 1..Len(PathDown(best)) : PathDown(best)[i] \in Mined
  BY PathIsMined DEF Bitcoin
<1>2. InitHeight \in Nat
  BY GatewayAssumption
<1>3. TipHeight = InitHeight + Len(PathDown(best)) - 1
  BY DEF TipHeight, HeightOf
<1>4. ASSUME InitHeight <= h, h <= TipHeight PROVE SourceBlock(h) \in Mined
  <2>1. TipHeight - h + 1 \in 1..Len(PathDown(best))
    BY <1>1, <1>2, <1>3, <1>4
  <2>2. ~(h < InitHeight)
    BY <1>2, <1>4
  <2>3. SourceBlock(h) = PathDown(best)[TipHeight - h + 1]
    BY <2>2 DEF SourceBlock
  <2>4. QED
    BY <1>1, <2>1, <2>3
<1>5. QED
  BY <1>1, <1>2, <1>3, <1>4 DEF SourceBlock

\* A header the source may answer with.
AnyHeader == [hash : Block, prevBlockHash : Block \cup {Before}, time : Time,
              target : HeaderTarget]

MiddleOf(r) == r.lo + (r.hi - r.lo) \div 2

\* What each stage of a round may count on.
StageOk(r) ==
    /\ r.pc = "tip" => r.gh >= InitHeight
    /\ r.pc = "fetch" => /\ r.from >= InitHeight /\ r.from + Len(r.batch) <= r.to
                         /\ r.to < r.from + RelayBatchMax
    /\ r.pc \in {"fit", "send"} => Len(r.batch) >= 1 /\ Len(r.batch) <= RelayBatchMax
    /\ r.pc = "send" => r.n \in 1..Len(r.batch)
    /\ r.pc = "searched" => r.lo <= r.hi /\ (r.hash \in Block => MiddleOf(r) >= InitHeight)

\* The fetched headers are blocks of Bitcoin with the parents they have there.
FromBitcoin(batch) ==
    /\ batch \in Seq(AnyHeader)
    /\ \A i \in 1..Len(batch) :
          batch[i].hash \in Mined /\ batch[i].prevBlockHash = prevOf[batch[i].hash]

Round(r) ==
    /\ DOMAIN r = DOMAIN Idle
    /\ r.gh \in Nat /\ r.tip \in Nat /\ r.from \in Nat /\ r.to \in Nat
    /\ r.lo \in Nat /\ r.hi \in Nat
    /\ FromBitcoin(r.batch)
    /\ r.found = NoHeight \/ (r.found \in Nat /\ r.found >= InitHeight)
    /\ StageOk(r)

\* Every header the gateway has is a block of Bitcoin with the parent it has
\* there.
StoredIsMined ==
    \A b \in Block : Has(spv, b) => b \in Mined /\ Parent(spv, b) = prevOf[b]

RelayInv == Sound(spv) /\ Bitcoin /\ StoredIsMined /\ Round(relay)

LEMMA NoHeaders == FromBitcoin(<<>>)
  BY DEF FromBitcoin

LEMMA IdleFields ==
    DOMAIN Idle = {"pc", "gh", "tip", "from", "to", "batch", "n", "lo", "hi", "found", "hash",
                   "recovering"}
  BY DEF Idle

\* Between rounds there is nothing to count on.
LEMMA IdleRound == Round(Idle)
<1>1. StageOk(Idle)
  BY DEF StageOk, Idle
<1>2. QED
  BY <1>1, NoHeaders DEF Round, Idle

LEMMA LowerIs ==
    ASSUME NEW a \in Nat, NEW c \in Nat
    PROVE  Lower(a, c) \in Nat /\ Lower(a, c) <= a /\ Lower(a, c) <= c
  BY DEF Lower

\* A recovery starts from any stage.
LEMMA RecoverRound ==
    ASSUME NEW r, Round(r)
    PROVE  Round(RecoverReorg(r))
<1> DEFINE t == RecoverReorg(r)
<1>1. DOMAIN t = DOMAIN r /\ DOMAIN r = DOMAIN Idle
  BY DEF Round, RecoverReorg
<1>2. r.gh \in Nat /\ r.tip \in Nat /\ Lookback \in Nat
  BY RelayerAssumption DEF Round
<1>3. /\ t.pc = "search" /\ t.batch = <<>> /\ t.found = NoHeight
      /\ t.gh = r.gh /\ t.tip = r.tip /\ t.from = r.from /\ t.to = r.to
      /\ t.lo = (IF r.gh > Lookback THEN r.gh - Lookback ELSE 0) /\ t.hi = Lower(r.gh, r.tip)
  BY IdleFields, <1>1 DEF RecoverReorg
<1> HIDE DEF t
<1>4. t.lo \in Nat /\ t.hi \in Nat
  <2>1. Lower(r.gh, r.tip) \in Nat
    BY <1>2, LowerIs
  <2>2. ASSUME NEW g \in Nat
        PROVE  (IF g > Lookback THEN g - Lookback ELSE 0) \in Nat
    BY <1>2
  <2>3. QED
    BY <1>2, <1>3, <2>1, <2>2
<1>5. StageOk(t)
  BY <1>3 DEF StageOk
<1>6. QED
  BY <1>1, <1>3, <1>4, <1>5, NoHeaders DEF Round, t

\* A fetch starts at a height of the gateway's or above.
LEMMA FetchRound ==
    ASSUME NEW r, Round(r), NEW from \in Nat, from >= InitHeight
    PROVE  Round(FetchFrom(r, from))
<1> DEFINE to == Lower(from + RelayBatchMax - 1, r.tip)
           t == [r EXCEPT !.pc = "fetch", !.from = from, !.to = to, !.batch = <<>>]
<1>1. RelayBatchMax \in Nat /\ RelayBatchMax # 0 /\ r.tip \in Nat
  BY RelayerAssumption DEF Round
<1>2. to \in Nat /\ to <= from + RelayBatchMax - 1
  <2>1. from + RelayBatchMax - 1 \in Nat
    BY <1>1
  <2>2. QED
    BY <1>1, <2>1, LowerIs
<1>3. FetchFrom(r, from) = IF from > to THEN Idle ELSE t
  BY DEF FetchFrom, EndRound
<1> HIDE DEF to
<1>4. DOMAIN t = DOMAIN r /\ DOMAIN r = DOMAIN Idle
  BY DEF Round
<1>5. /\ t.pc = "fetch" /\ t.from = from /\ t.to = to /\ t.batch = <<>>
      /\ t.gh = r.gh /\ t.tip = r.tip /\ t.lo = r.lo /\ t.hi = r.hi /\ t.found = r.found
  BY IdleFields, <1>4
<1> HIDE DEF t
<1>6. ASSUME ~(from > to) PROVE StageOk(t)
  BY <1>1, <1>2, <1>5, <1>6 DEF StageOk
<1>7. ASSUME ~(from > to) PROVE Round(t)
  BY <1>2, <1>4, <1>5, <1>6, <1>7, NoHeaders DEF Round
<1>8. QED
  BY <1>3, <1>7, IdleRound

\* The header of a mined block.
LEMMA MinedHeaderType ==
    ASSUME Bitcoin, NEW b \in Mined
    PROVE  /\ MinedHeader(b) \in AnyHeader
           /\ MinedHeader(b).hash = b /\ MinedHeader(b).prevBlockHash = prevOf[b]
<1>1. b \in Block /\ prevOf[b] \in Block \cup {Before}
  BY DEF Bitcoin
<1>2. (CHOOSE t \in Time : TRUE) \in Time /\ (CHOOSE t \in HeaderTarget : TRUE) \in HeaderTarget
  BY RelayerAssumption
<1>3. QED
  BY <1>1, <1>2 DEF MinedHeader, AnyHeader

\* A record that differs from relay in what the rounds' reads change.
LEMMA ReadTipRound ==
    ASSUME RelayInv, ReadTip
    PROVE  Round(relay')
<1> DEFINE r == [relay EXCEPT !.tip = TipHeight]
           t == [r EXCEPT !.pc = "probe"]
<1>1. Round(relay) /\ relay.pc = "tip" /\ relay.gh >= InitHeight /\ relay.gh \in Nat
      /\ InitHeight \in Nat
  BY GatewayAssumption DEF RelayInv, ReadTip, Round, StageOk
<1>2. TipHeight \in Nat
  <2>1. 0 \in Nat
    OBVIOUS
  <2>2. QED
    BY <2>1, SourceIsMined DEF RelayInv
<1>3. DOMAIN r = DOMAIN Idle /\ DOMAIN t = DOMAIN Idle
  BY <1>1 DEF Round
<1>4. /\ r.tip = TipHeight /\ r.pc = "tip" /\ r.gh = relay.gh /\ r.from = relay.from
      /\ r.to = relay.to /\ r.lo = relay.lo /\ r.hi = relay.hi /\ r.batch = relay.batch
      /\ r.found = relay.found
  BY <1>1, IdleFields DEF Round
<1>5. /\ t.tip = TipHeight /\ t.pc = "probe" /\ t.gh = relay.gh /\ t.from = relay.from
      /\ t.to = relay.to /\ t.lo = relay.lo /\ t.hi = relay.hi /\ t.batch = relay.batch
      /\ t.found = relay.found
  BY <1>1, IdleFields DEF Round
<1>6. relay' = FetchFrom(r, r.gh + 1) \/ relay' = t \/ relay' = Idle
  BY DEF RelayInv, ReadTip, EndRound
<1> HIDE DEF r, t
<1>7. StageOk(r) /\ StageOk(t)
  BY <1>1, <1>4, <1>5 DEF StageOk
<1>8. Round(r) /\ Round(t)
  BY <1>1, <1>2, <1>3, <1>4, <1>5, <1>7 DEF Round
<1>9. r.gh + 1 \in Nat /\ r.gh + 1 >= InitHeight
  BY <1>1, <1>4
<1>10. Round(FetchFrom(r, r.gh + 1)) /\ Round(Idle)
  BY <1>8, <1>9, FetchRound, IdleRound
<1>11. QED
  BY <1>6, <1>8, <1>10

\* read_gateway_height is never below the checkpoint's.
LEMMA ReadHeightRound ==
    ASSUME RelayInv, ReadGatewayHeight
    PROVE  Round(relay')
<1> DEFINE g == GetMainchainHeight(spv)
<1>1. g \in Nat /\ g >= InitHeight
  <2>1. spv.mainchainHead \in Block /\ Has(spv, spv.mainchainHead) /\ spv \in Storage /\ Tree(spv)
    BY ReadTypes DEF RelayInv, Sound, HeadIsHeaviest
  <2>2. g = Height(spv, spv.mainchainHead)
    BY <2>1, Reads DEF GetMainchainHeight, Height
  <2>3. QED
    BY <2>1, <2>2, Stands
<1>2. Round(relay) /\ relay' = [relay EXCEPT !.pc = "tip", !.gh = g]
  BY DEF RelayInv, ReadGatewayHeight
<1> HIDE DEF g
<1>3. DOMAIN relay' = DOMAIN Idle
  BY <1>2 DEF Round
<1>4. /\ relay'.tip = relay.tip /\ relay'.pc = "tip" /\ relay'.gh = g /\ relay'.from = relay.from
      /\ relay'.to = relay.to /\ relay'.lo = relay.lo /\ relay'.hi = relay.hi
      /\ relay'.batch = relay.batch /\ relay'.found = relay.found
  BY <1>2, IdleFields DEF Round
<1>5. StageOk(relay')
  BY <1>1, <1>4 DEF StageOk
<1>6. QED
  BY <1>1, <1>2, <1>3, <1>4, <1>5 DEF Round

\* The probe leaves the round as it is, ends it or starts a recovery.
LEMMA ProbeRound ==
    ASSUME RelayInv, ProbeSource \/ ProbeGateway
    PROVE  Round(relay')
<1> DEFINE x == SourceBlock(Lower(relay.gh, relay.tip))
           t == [relay EXCEPT !.pc = "probed", !.hash = x]
<1>1. relay' = t \/ relay' = Idle \/ relay' = RecoverReorg(relay)
  BY DEF ProbeSource, ProbeGateway, EndRound
<1>2. Round(relay)
  BY DEF RelayInv
<1> HIDE DEF x
<1>3. DOMAIN t = DOMAIN Idle
  BY <1>2 DEF Round
<1>4. /\ t.tip = relay.tip /\ t.pc = "probed" /\ t.gh = relay.gh /\ t.from = relay.from
      /\ t.to = relay.to /\ t.lo = relay.lo /\ t.hi = relay.hi
      /\ t.batch = relay.batch /\ t.found = relay.found
  BY <1>2, IdleFields DEF Round
<1> HIDE DEF t
<1>5. StageOk(t)
  BY <1>4 DEF StageOk
<1>6. Round(t)
  BY <1>2, <1>3, <1>4, <1>5 DEF Round
<1>7. QED
  BY <1>1, <1>2, <1>6, IdleRound, RecoverRound

\* header_at answers with a block of Bitcoin: the height is the checkpoint's or
\* above, and the source reaches it.
LEMMA FetchHeaderRound ==
    ASSUME RelayInv, FetchHeader
    PROVE  Round(relay')
<1> DEFINE h == relay.from + Len(relay.batch)
           hd == MinedHeader(SourceBlock(h))
           batch == Append(relay.batch, hd)
           stage == IF h = relay.to THEN "fit" ELSE "fetch"
           t == [relay EXCEPT !.batch = batch, !.pc = stage]
<1>1. /\ Round(relay) /\ relay.pc = "fetch" /\ relay.from \in Nat /\ relay.to \in Nat
      /\ relay.batch \in Seq(AnyHeader) /\ Bitcoin
  BY DEF RelayInv, Round, FetchHeader, FromBitcoin
<1>2. /\ Len(relay.batch) \in Nat /\ relay.from >= InitHeight /\ h <= relay.to
      /\ relay.to < relay.from + RelayBatchMax /\ InitHeight \in Nat /\ RelayBatchMax \in Nat
  BY <1>1, GatewayAssumption, RelayerAssumption DEF Round, StageOk
<1>3. relay' = Idle \/ (h <= TipHeight /\ relay' = t)
  <2>1. h \in Nat
    BY <1>1, <1>2
  <2>2. TipHeight \in Nat
    BY <1>1, <2>1, SourceIsMined
  <2>3. relay' = IF h > TipHeight THEN Idle
                 ELSE [relay EXCEPT !.batch = Append(@, MinedHeader(SourceBlock(h))),
                                    !.pc = IF h = relay.to THEN "fit" ELSE "fetch"]
    BY DEF FetchHeader, EndRound
  <2>4. QED
    BY <2>1, <2>2, <2>3
<1>4. CASE h <= TipHeight /\ relay' = t
  <2>1. h \in Nat /\ InitHeight <= h
    BY <1>1, <1>2
  <2>2. SourceBlock(h) \in Mined
    BY <1>1, <1>4, <2>1, SourceIsMined
  <2>3. hd \in AnyHeader /\ hd.hash \in Mined /\ hd.prevBlockHash = prevOf[hd.hash]
    BY <1>1, <2>2, MinedHeaderType
  <2> HIDE DEF hd
  <2>4. /\ batch \in Seq(AnyHeader) /\ Len(batch) = Len(relay.batch) + 1
        /\ \A i \in 1..Len(relay.batch) : batch[i] = relay.batch[i]
        /\ batch[Len(relay.batch) + 1] = hd
    BY <1>1, <2>3
  <2>5. FromBitcoin(batch)
    <3>1. ASSUME NEW i \in 1..Len(batch)
          PROVE  batch[i].hash \in Mined /\ batch[i].prevBlockHash = prevOf[batch[i].hash]
      <4>1. CASE i = Len(relay.batch) + 1
        BY <2>3, <2>4, <4>1
      <4>2. CASE i # Len(relay.batch) + 1
        <5>1. i \in 1..Len(relay.batch)
          BY <1>2, <2>4, <4>2
        <5>2. QED
          BY <1>1, <2>4, <5>1 DEF Round, FromBitcoin
      <4>3. QED
        BY <4>1, <4>2
    <3>2. QED
      BY <2>4, <3>1 DEF FromBitcoin
  <2> HIDE DEF batch
  <2>6. DOMAIN t = DOMAIN Idle
    BY <1>1 DEF Round
  <2>7. /\ t.tip = relay.tip /\ t.pc = stage /\ t.gh = relay.gh /\ t.from = relay.from
        /\ t.to = relay.to /\ t.lo = relay.lo /\ t.hi = relay.hi
        /\ t.batch = batch /\ t.found = relay.found
    BY <1>1, IdleFields DEF Round
  <2> HIDE DEF t
  <2>8. StageOk(t)
    <3>1. CASE h = relay.to
      BY <1>1, <1>2, <2>4, <2>7, <3>1 DEF StageOk
    <3>2. CASE h # relay.to
      <4>1. t.pc = "fetch"
        BY <2>7, <3>2
      <4>2. relay.from + Len(batch) <= relay.to
        <5>1. /\ relay.from \in Nat /\ relay.to \in Nat /\ Len(relay.batch) \in Nat
              /\ h <= relay.to
          BY <1>1, <1>2
        <5>2. Len(batch) = Len(relay.batch) + 1
          BY <2>4
        <5>3. QED
          BY <3>2, <5>1, <5>2
      <4>3. QED
        BY <1>2, <2>7, <4>1, <4>2 DEF StageOk
    <3>3. QED
      BY <3>1, <3>2
  <2>9. Round(t)
    BY <1>1, <2>5, <2>6, <2>7, <2>8 DEF Round
  <2>10. QED
    BY <1>4, <2>9
<1>5. QED
  BY <1>3, <1>4, IdleRound

\* fit_batch chooses a prefix that is not empty.
LEMMA FitRound ==
    ASSUME RelayInv, FitBatch
    PROVE  Round(relay')
<1>1. Round(relay) /\ relay.pc = "fit"
  BY DEF RelayInv, FitBatch
<1>2. CASE \E n \in 1..Len(relay.batch) : relay' = [relay EXCEPT !.pc = "send", !.n = n]
  <2>1. PICK n \in 1..Len(relay.batch) : relay' = [relay EXCEPT !.pc = "send", !.n = n]
    BY <1>2
  <2>2. DOMAIN relay' = DOMAIN Idle
    BY <1>1, <2>1 DEF Round
  <2>3. /\ relay'.tip = relay.tip /\ relay'.pc = "send" /\ relay'.gh = relay.gh
        /\ relay'.from = relay.from /\ relay'.to = relay.to /\ relay'.lo = relay.lo
        /\ relay'.hi = relay.hi /\ relay'.batch = relay.batch /\ relay'.found = relay.found
        /\ relay'.n = n
    BY <1>1, <2>1, IdleFields DEF Round
  <2>4. StageOk(relay')
    BY <1>1, <2>1, <2>3 DEF StageOk, Round
  <2>5. QED
    BY <1>1, <2>2, <2>3, <2>4 DEF Round
<1>3. QED
  BY <1>1, <1>2, IdleRound, RecoverRound DEF FitBatch, EndRound

\* The search never takes a height below the checkpoint for the fork: nothing
\* down there is known to the gateway.
LEMMA SearchRound ==
    ASSUME RelayInv, SearchSource \/ SearchGateway \/ SearchEnds
    PROVE  Round(relay')
<1>1. /\ Round(relay) /\ Bitcoin /\ relay.lo \in Nat /\ relay.hi \in Nat
      /\ InitHeight \in Nat
  BY GatewayAssumption DEF RelayInv, Round
<1>2. ASSUME relay.lo <= relay.hi PROVE Middle \in Nat
  BY <1>1, <1>2 DEF Middle
<1>3. CASE SearchSource
  <2> DEFINE x == SourceBlock(Middle)
             t == [relay EXCEPT !.pc = "searched", !.hash = x]
  <2>1. relay.lo <= relay.hi /\ Middle \in Nat
    BY <1>2, <1>3 DEF SearchSource
  <2>2. TipHeight \in Nat /\ (Middle < InitHeight => x = Before)
    BY <1>1, <2>1, SourceIsMined
  <2>3. relay' = Idle \/ relay' = t
    BY <1>3 DEF SearchSource, EndRound
  <2> HIDE DEF x
  <2>4. DOMAIN t = DOMAIN Idle
    BY <1>1 DEF Round
  <2>5. /\ t.tip = relay.tip /\ t.pc = "searched" /\ t.gh = relay.gh /\ t.from = relay.from
        /\ t.to = relay.to /\ t.lo = relay.lo /\ t.hi = relay.hi
        /\ t.batch = relay.batch /\ t.found = relay.found /\ t.hash = x
    BY <1>1, IdleFields DEF Round
  <2> HIDE DEF t
  <2>6. MiddleOf(t) = Middle
    BY <2>5 DEF Middle, MiddleOf
  <2>7. x \in Block => Middle >= InitHeight
    BY <1>1, <2>1, <2>2, GatewayAssumption
  <2>8. StageOk(t)
    BY <2>1, <2>5, <2>6, <2>7 DEF StageOk
  <2>9. Round(t)
    BY <1>1, <2>4, <2>5, <2>8 DEF Round
  <2>10. QED
    BY <2>3, <2>9, IdleRound
<1>4. CASE SearchGateway
  <2>1. relay.pc = "searched" /\ relay.lo <= relay.hi /\ Middle \in Nat
        /\ (relay.hash \in Block => Middle >= InitHeight)
    BY <1>1, <1>2, <1>4 DEF SearchGateway, Round, StageOk, MiddleOf, Middle
  <2>2. BlockExists(spv, relay.hash) => relay.hash \in Block
    BY DEF BlockExists, Data, ZeroBlock
  <2>3. PICK lo \in Nat, hi \in Nat, found \in Nat \cup {NoHeight} :
          /\ found = NoHeight \/ found >= InitHeight
          /\ DOMAIN relay' = DOMAIN Idle
          /\ relay'.tip = relay.tip /\ relay'.pc = "search" /\ relay'.gh = relay.gh
          /\ relay'.from = relay.from /\ relay'.to = relay.to /\ relay'.batch = relay.batch
          /\ relay'.lo = lo /\ relay'.hi = hi /\ relay'.found = found
    <3>1. CASE BlockExists(spv, relay.hash)
      <4>1. relay' = [relay EXCEPT !.pc = "search", !.found = Middle, !.lo = Middle + 1]
        BY <1>4, <3>1 DEF SearchGateway
      <4>2. Middle >= InitHeight /\ Middle + 1 \in Nat
        BY <2>1, <2>2, <3>1
      <4>3. QED
        BY <1>1, <2>1, <4>1, <4>2, IdleFields DEF Round
    <3>2. CASE ~BlockExists(spv, relay.hash) /\ Middle = 0
      <4>1. relay' = [relay EXCEPT !.pc = "search", !.lo = 1, !.hi = 0]
        BY <1>4, <3>2 DEF SearchGateway
      <4>2. QED
        BY <1>1, <4>1, IdleFields DEF Round
    <3>3. CASE ~BlockExists(spv, relay.hash) /\ Middle # 0
      <4>1. relay' = [relay EXCEPT !.pc = "search", !.hi = Middle - 1]
        BY <1>4, <3>3 DEF SearchGateway
      <4>2. Middle - 1 \in Nat
        BY <2>1, <3>3
      <4>3. QED
        BY <1>1, <4>1, <4>2, IdleFields DEF Round
    <3>4. QED
      BY <3>1, <3>2, <3>3
  <2>4. StageOk(relay')
    BY <2>3 DEF StageOk
  <2>5. QED
    BY <1>1, <2>3, <2>4 DEF Round
<1>5. CASE SearchEnds
  <2>1. relay' = Idle \/ (relay.found # NoHeight /\ relay' = FetchFrom(relay, relay.found + 1))
    BY <1>5 DEF SearchEnds, EndRound
  <2>2. ASSUME relay.found # NoHeight
        PROVE  relay.found + 1 \in Nat /\ relay.found + 1 >= InitHeight
    BY <1>1, <2>2 DEF Round
  <2>3. QED
    BY <1>1, <2>1, <2>2, FetchRound, IdleRound
<1>6. QED
  BY <1>3, <1>4, <1>5

\* Steps of the relayer that only read leave the round in order.
LEMMA ReadsRound ==
    ASSUME RelayInv, ReadsOnly
    PROVE  Round(relay')
BY ReadHeightRound, ReadTipRound, ProbeRound, FetchHeaderRound, FitRound, SearchRound
   DEF ReadsOnly

\* A prefix of what was fetched, as send_tx submits it.
LEMMA SentHeaders ==
    ASSUME RelayInv, relay.pc = "send"
    PROVE  LET headers == SubSeq(relay.batch, 1, relay.n)
               n == relay.n
           IN  /\ n \in Nat \ {0} /\ n <= MaxBatch /\ Len(headers) = n
               /\ headers = [i \in 1..n |-> headers[i]]
               /\ \A i \in 1..n : /\ headers[i] \in AnyHeader /\ headers[i].hash \in Mined
                                  /\ headers[i].hash \in Block
                                  /\ headers[i].prevBlockHash = prevOf[headers[i].hash]
<1> DEFINE n == relay.n
           headers == SubSeq(relay.batch, 1, n)
<1>1. /\ relay.batch \in Seq(AnyHeader) /\ n \in 1..Len(relay.batch)
      /\ Len(relay.batch) <= RelayBatchMax
      /\ \A i \in 1..Len(relay.batch) :
            /\ relay.batch[i].hash \in Mined
            /\ relay.batch[i].prevBlockHash = prevOf[relay.batch[i].hash]
  BY DEF RelayInv, Round, StageOk, FromBitcoin
<1>2. Len(relay.batch) \in Nat /\ MaxBatch \in Nat /\ RelayBatchMax \in Nat
      /\ RelayBatchMax <= MaxBatch
  BY <1>1, GatewayAssumption, RelayerAssumption
<1>3. n \in Nat \ {0} /\ n <= MaxBatch
  BY <1>1, <1>2
<1>4. headers = [i \in 1..n |-> relay.batch[i]]
  BY <1>1, <1>2
<1> HIDE DEF headers
<1>5. Len(headers) = n
  BY <1>3, <1>4
<1>6. ASSUME NEW i \in 1..n
      PROVE  /\ headers[i] \in AnyHeader /\ headers[i].hash \in Mined
             /\ headers[i].prevBlockHash = prevOf[headers[i].hash]
  <2>1. i \in 1..Len(relay.batch) /\ headers[i] = relay.batch[i]
    BY <1>1, <1>2, <1>3, <1>4
  <2>2. QED
    BY <1>1, <2>1
<1>7. Mined \subseteq Block
  BY DEF RelayInv, Bitcoin
<1>8. QED
  BY <1>3, <1>4, <1>5, <1>6, <1>7 DEF headers

LEMMA SoundIsReadable ==
    ASSUME NEW s, Sound(s)
    PROVE  Readable(s)
  BY ReadTypes DEF Sound, Storage, BlockRecord, Readable, Height

\* A batch that is accepted is a call of the gateway, and adds blocks of Bitcoin.
LEMMA SendIsStep ==
    ASSUME RelayInv, SendBatch
    PROVE  /\ [Next]_spv
           /\ Round(relay')
           /\ \A b \in Block : Has(spv', b) => b \in Mined /\ Parent(spv', b) = prevOf[b]
<1> DEFINE n == relay.n
           headers == SubSeq(relay.batch, 1, n)
<1>1. Round(relay) /\ relay.pc = "send" /\ Sound(spv) /\ StoredIsMined
  BY DEF RelayInv, SendBatch
<1>2. /\ n \in Nat \ {0} /\ n <= MaxBatch /\ Len(headers) = n
      /\ headers = [i \in 1..n |-> headers[i]]
      /\ \A i \in 1..n : /\ headers[i] \in AnyHeader /\ headers[i].hash \in Mined
                         /\ headers[i].hash \in Block
                         /\ headers[i].prevBlockHash = prevOf[headers[i].hash]
  BY <1>1, SentHeaders
<1>3. /\ spv' = IF AcceptsBatch(spv, headers) THEN BatchStates(spv, headers)[n] ELSE spv
      /\ relay' = Idle \/ relay' = RecoverReorg(relay)
  BY DEF SendBatch, EndRound
<1> HIDE DEF headers, n
<1>4. Round(relay')
  BY <1>1, <1>3, IdleRound, RecoverRound
<1>5. CASE ~AcceptsBatch(spv, headers)
  <2>1. spv' = spv
    BY <1>3, <1>5
  <2>2. QED
    BY <1>1, <1>4, <2>1 DEF StoredIsMined
<1>6. CASE AcceptsBatch(spv, headers)
  <2>1. /\ headers \in Batches(spv, n)
        /\ HeightAfter(spv, headers[1].prevBlockHash) + n - 1 <= MaxHeight
    BY <1>1, <1>2, <1>6, AcceptedIsBatch DEF AnyHeader
  <2>2. spv' = BatchStates(spv, headers)[n]
    BY <1>3, <1>6
  <2>3. Next
    BY <1>1, <1>2, <1>6, <2>1, <2>2, AcceptedIsStep
  <2>4. Prefix(spv, spv', headers, n)
    <3>1. n \in 0..n
      BY <1>2
    <3>2. QED
      BY <1>1, <1>2, <2>1, <2>2, <3>1, BatchPrefix, SoundIsReadable
  <2>5. ASSUME NEW b \in Block, Has(spv', b)
        PROVE  b \in Mined /\ Parent(spv', b) = prevOf[b]
    <3>1. CASE \E j \in 1..n : headers[j].hash = b
      <4>1. PICK j \in 1..n : headers[j].hash = b
        BY <3>1
      <4>2. Parent(spv', b) = headers[j].prevBlockHash
        BY <2>4, <4>1 DEF Prefix, Parent
      <4>3. QED
        BY <1>2, <4>1, <4>2
    <3>2. CASE ~\E j \in 1..n : headers[j].hash = b
      <4>1. spv'.blocksData[b] = spv.blocksData[b]
        BY <2>4, <3>2 DEF Prefix
      <4>2. QED
        BY <1>1, <2>5, <4>1 DEF StoredIsMined, Has, Parent
    <3>3. QED
      BY <3>1, <3>2
  <2>6. QED
    BY <1>4, <2>3, <2>5
<1>7. QED
  BY <1>5, <1>6

\* So is a header someone else submits.
LEMMA SubmitIsStep ==
    ASSUME RelayInv, NEW b \in Mined, SomeoneSubmits(b)
    PROVE  /\ Next
           /\ \A c \in Block : Has(spv', c) => c \in Mined /\ Parent(spv', c) = prevOf[c]
<1> DEFINE hd == MinedHeader(b)
<1>1. Sound(spv) /\ Bitcoin /\ StoredIsMined /\ Mined \subseteq Block
  BY DEF RelayInv, Bitcoin
<1>2. hd \in AnyHeader /\ hd.hash = b /\ hd.prevBlockHash = prevOf[b]
  BY <1>1, MinedHeaderType
<1>3. prevOf[b] \in Mined /\ AcceptsOne(spv, hd) /\ spv' = Added(spv, hd)
  BY DEF SomeoneSubmits
<1> HIDE DEF hd
<1>4. hd \in Header
  BY <1>1, <1>2, <1>3 DEF AnyHeader, Header
<1>5. b \in Block /\ prevOf[b] \in Block
  BY <1>1, <1>3
<1>6. Has(spv, prevOf[b]) /\ ~Has(spv, b)
  BY <1>2, <1>3, <1>5, Reads DEF AcceptsOne, Accepts
<1>7. Height(spv, prevOf[b]) + 1 <= MaxHeight
  <2> DEFINE hashes == [i \in 1..1 |-> b]
  <2>1. /\ \A i \in 1..1 : hashes[i] \in Block /\ ~Has(spv, hashes[i])
        /\ \A i, j \in 1..1 : hashes[i] = hashes[j] => i = j
    BY <1>5, <1>6
  <2> HIDE DEF hashes
  <2>2. 1 \in Nat
    OBVIOUS
  <2>3. QED
    BY <1>1, <1>5, <1>6, <2>1, <2>2, RoomAbove
<1>8. HeightAfter(spv, hd.prevBlockHash) <= MaxHeight
  BY <1>2, <1>5, <1>7, Reads
<1>9. Next
  BY <1>3, <1>4, <1>8 DEF Next, AddBlockHeader
<1>10. /\ \A d \in Block : d # b => spv'.blocksData[d] = spv.blocksData[d]
       /\ spv'.blocksData[b].prevBlockHash = prevOf[b]
  BY <1>1, <1>2, <1>3, <1>4, AddedData, SoundIsReadable
<1>11. ASSUME NEW c \in Block, Has(spv', c) PROVE c \in Mined /\ Parent(spv', c) = prevOf[c]
  <2>1. CASE c = b
    BY <1>10, <2>1 DEF Parent
  <2>2. CASE c # b
    <3>1. spv'.blocksData[c] = spv.blocksData[c]
      BY <1>10, <2>2
    <3>2. QED
      BY <1>1, <1>11, <3>1 DEF StoredIsMined, Has, Parent
  <2>3. QED
    BY <2>1, <2>2
<1>12. QED
  BY <1>9, <1>11

-----------------------------------------------------------------------------
\* A block is mined: Bitcoin stays a tree, and what was mined before keeps its
\* parent.
LEMMA MineKeeps ==
    ASSUME RelayInv, NEW p \in Mined, Mine(p)
    PROVE  RelayInv'
<1> DEFINE b == CHOOSE c \in Block : c \notin Mined
           N == Cardinality(Mined)
<1>1. Sound(spv) /\ Bitcoin /\ StoredIsMined /\ Round(relay) /\ Mined \subseteq Block
  BY DEF RelayInv, Bitcoin
<1>2. b \in Block /\ b \notin Mined
  <2>1. \E c \in Block : c \notin Mined
    BY <1>1 DEF Mine
  <2>2. QED
    BY <2>1
<1>3. /\ prevOf' = [c \in Mined \cup {b} |-> IF c = b THEN p ELSE prevOf[c]]
      /\ best' \in {b, best} /\ spv' = spv /\ relay' = relay
  BY DEF Mine
<1>4. N \in Nat /\ Cardinality(Mined \cup {b}) = N + 1
  <2>1. IsFiniteSet(Mined)
    BY <1>1, RelayerAssumption, FS_Subset
  <2>2. QED
    BY <1>2, <2>1, FS_CardinalityType, FS_AddElement
<1> HIDE DEF b, N
<1>5. Mined' = Mined \cup {b} /\ \A c \in Mined : c # b /\ prevOf'[c] = prevOf[c]
  BY <1>2, <1>3 DEF Mined
<1>6. prevOf'[b] = p /\ p # b
  BY <1>2, <1>3
<1>7. Bitcoin'
  <2>1. PICK rank : RanksMined(rank)
    BY <1>1 DEF Bitcoin
  <2>2. \A c \in Mined : rank[c] \in 1..N
    BY <2>1 DEF RanksMined, N
  <2> DEFINE above == [c \in Mined \cup {b} |-> IF c = b THEN N + 1 ELSE rank[c]]
  <2>3. above \in [Mined \cup {b} -> 1..(N + 1)]
    <3>1. \A c \in Mined : rank[c] \in 1..(N + 1)
      BY <1>4, <2>2
    <3>2. N + 1 \in 1..(N + 1)
      BY <1>4
    <3>3. QED
      BY <3>1, <3>2
  <2>4. ASSUME NEW c \in Mined \cup {b}, prevOf'[c] \in Mined \cup {b}
        PROVE  above[prevOf'[c]] < above[c]
    <3>1. CASE c = b
      <4>1. above[c] = N + 1 /\ prevOf'[c] = p /\ above[p] = rank[p]
        BY <1>6, <3>1
      <4>2. QED
        BY <1>4, <2>2, <4>1
    <3>2. CASE c # b
      <4>1. c \in Mined /\ prevOf'[c] = prevOf[c] /\ prevOf[c] # b
        <5>1. c \in Mined /\ prevOf'[c] = prevOf[c]
          BY <1>5, <3>2
        <5>2. prevOf[c] \in Mined \cup {Before} /\ Before # b
          BY <1>1, <1>2, <5>1, GatewayAssumption DEF Bitcoin
        <5>3. QED
          BY <1>2, <5>1, <5>2
      <4>2. prevOf[c] \in Mined
        BY <2>4, <4>1
      <4>3. above[c] = rank[c] /\ above[prevOf[c]] = rank[prevOf[c]]
        BY <3>2, <4>1, <4>2
      <4>4. rank[prevOf[c]] < rank[c]
        BY <2>1, <4>1, <4>2 DEF RanksMined
      <4>5. QED
        BY <4>1, <4>3, <4>4
    <3>3. QED
      BY <3>1, <3>2
  <2> HIDE DEF above
  <2>5. PICK higher : higher = above
    OBVIOUS
  <2>6. RanksMined(higher)'
    BY <1>4, <1>5, <2>3, <2>4, <2>5 DEF RanksMined
  <2>7. \A c \in Mined' : prevOf'[c] \in Mined' \cup {Before}
    BY <1>1, <1>5, <1>6 DEF Bitcoin
  <2>8. Mined' \subseteq Block /\ best' \in Mined'
    BY <1>1, <1>2, <1>3, <1>5 DEF Bitcoin
  <2>9. QED
    BY <2>6, <2>7, <2>8 DEF Bitcoin
<1>8. FromBitcoin(relay.batch)'
  <2>1. FromBitcoin(relay.batch)
    BY <1>1 DEF Round
  <2>2. QED
    BY <1>3, <1>5, <2>1 DEF FromBitcoin
<1>9. Round(relay)'
  BY <1>1, <1>3, <1>8 DEF Round, StageOk, MiddleOf
<1>10. StoredIsMined'
  BY <1>1, <1>3, <1>5 DEF StoredIsMined, Has, Parent
<1>11. Sound(spv)'
  BY <1>1, <1>3
<1>12. QED
  BY <1>7, <1>9, <1>10, <1>11 DEF RelayInv

\* The relayer starts on a gateway just deployed at the checkpoint.
LEMMA RelayStarts ==
    ASSUME RelayInit
    PROVE  Init /\ RelayInv
<1> DEFINE c == CHOOSE b \in Block : TRUE
           time == CHOOSE t \in Time : TRUE
           target == CHOOSE t \in HeaderTarget : TRUE
           empty == [blocksData |-> [b \in Block |-> ZeroBlock],
                     blocksHeightToBlockHash |-> [h \in Heights |-> NoBlock],
                     mainchainHead |-> NoBlock]
           rec == [prevBlockHash |-> Before, time |-> time, target |-> target,
                   blockHeight |-> InitHeight, cumulativeWork |-> CountBlockWork(target)]
<1>1. c \in Block /\ time \in Time /\ target \in HeaderTarget
  BY RelayerAssumption
<1>2. /\ prevOf = [b \in {c} |-> Before] /\ best = c /\ relay = Idle
      /\ spv = AddBlock(empty, MinedHeader(c), InitHeight,
                        CountBlockWork(MinedHeader(c).target))
  BY DEF RelayInit
<1>3. MinedHeader(c) = [hash |-> c, prevBlockHash |-> Before, time |-> time,
                        target |-> target]
      /\ MinedHeader(c).target = target
  BY <1>2 DEF MinedHeader
<1>4. spv = AddBlock(empty, [hash |-> c, prevBlockHash |-> Before, time |-> time,
                             target |-> target], InitHeight, CountBlockWork(target))
  BY <1>2, <1>3
<1>5. Init
  BY <1>1, <1>4 DEF Init
<1>6. Sound(spv)
  BY <1>5, InitGood DEF Good
<1>7. Mined = {c} /\ prevOf[c] = Before
  BY <1>2 DEF Mined
<1>8. Bitcoin
  <2>1. Cardinality(Mined) = 1
    BY <1>7, FS_Singleton
  <2>2. Before \notin Mined
    BY <1>1, <1>7, GatewayAssumption
  <2> DEFINE rank == [b \in {c} |-> 1]
  <2>3. rank \in [{c} -> 1..1]
    OBVIOUS
  <2> HIDE DEF rank, c
  <2>4. RanksMined(rank)
    BY <1>7, <2>1, <2>2, <2>3 DEF RanksMined
  <2>5. QED
    BY <1>1, <1>2, <1>7, <2>4 DEF Bitcoin
<1>9. StoredIsMined
  <2>1. spv.blocksData = [[b \in Block |-> ZeroBlock] EXCEPT ![c] = rec]
    BY <1>4 DEF AddBlock, UpdateMainchainHead
  <2>2. rec.prevBlockHash = Before
    OBVIOUS
  <2> HIDE DEF rec, c
  <2>3. \A b \in Block : spv.blocksData[b] = IF b = c THEN rec ELSE ZeroBlock
    BY <2>1
  <2>4. \A b \in Block : Has(spv, b) => b = c
    BY <2>3 DEF Has, ZeroBlock
  <2>5. QED
    BY <1>1, <1>7, <2>2, <2>3, <2>4 DEF StoredIsMined, Parent
<1>10. Round(relay)
  BY <1>2, IdleRound
<1>11. QED
  BY <1>5, <1>6, <1>8, <1>9, <1>10 DEF RelayInv

\* Every step of the relayer, of Bitcoin and of other submitters is a call of the
\* gateway or none.
LEMMA RelayStep ==
    ASSUME RelayInv, [RelayNext]_relayVars
    PROVE  RelayInv' /\ [Next]_spv
<1>1. Sound(spv) /\ Bitcoin /\ StoredIsMined /\ Round(relay)
  BY DEF RelayInv
<1>2. ASSUME UNCHANGED <<prevOf, best>>, Round(relay'), [Next]_spv,
             \A b \in Block : Has(spv', b) => b \in Mined /\ Parent(spv', b) = prevOf[b]
      PROVE  RelayInv'
  <2>1. Mined' = Mined /\ prevOf' = prevOf /\ best' = best
    BY <1>2 DEF Mined
  <2>2. Bitcoin'
    BY <1>1, <2>1 DEF Bitcoin, RanksMined
  <2>3. Round(relay)'
    BY <1>2, <2>1 DEF Round, FromBitcoin, StageOk, MiddleOf
  <2>4. StoredIsMined'
    BY <1>2, <2>1 DEF StoredIsMined
  <2>5. Sound(spv)'
    BY <1>1, <1>2, StepSound
  <2>6. QED
    BY <2>2, <2>3, <2>4, <2>5 DEF RelayInv
<1>3. ASSUME ReadsOnly, UNCHANGED <<spv, prevOf, best>>
      PROVE  RelayInv' /\ [Next]_spv
  <2>1. Round(relay')
    BY <1>3, ReadsRound
  <2>2. \A b \in Block : Has(spv', b) => b \in Mined /\ Parent(spv', b) = prevOf[b]
    BY <1>1, <1>3 DEF StoredIsMined
  <2>3. QED
    BY <1>2, <1>3, <2>1, <2>2
<1>4. ASSUME SendBatch, UNCHANGED <<prevOf, best>>
      PROVE  RelayInv' /\ [Next]_spv
  BY <1>2, <1>4, SendIsStep
<1>5. CASE RpcFails
  <2>1. relay' = Idle /\ UNCHANGED <<spv, prevOf, best>>
    BY <1>5 DEF RpcFails, EndRound
  <2>2. \A b \in Block : Has(spv', b) => b \in Mined /\ Parent(spv', b) = prevOf[b]
    BY <1>1, <2>1 DEF StoredIsMined
  <2>3. QED
    BY <1>2, <2>1, <2>2, IdleRound
<1>6. ASSUME NEW b \in Mined, Mine(b)
      PROVE  RelayInv' /\ [Next]_spv
  BY <1>6, MineKeeps DEF Mine
<1>7. ASSUME NEW b \in Mined, SourceSwitches(b)
      PROVE  RelayInv' /\ [Next]_spv
  <2>1. best' = b /\ prevOf' = prevOf /\ spv' = spv /\ relay' = relay
    BY <1>7 DEF SourceSwitches
  <2>2. Mined' = Mined
    BY <2>1 DEF Mined
  <2>3. Bitcoin'
    BY <1>1, <2>1, <2>2 DEF Bitcoin, RanksMined
  <2>4. Round(relay)' /\ StoredIsMined' /\ Sound(spv)'
    BY <1>1, <2>1, <2>2 DEF Round, FromBitcoin, StageOk, MiddleOf, StoredIsMined
  <2>5. QED
    BY <2>1, <2>3, <2>4 DEF RelayInv
<1>8. ASSUME NEW b \in Mined, SomeoneSubmits(b)
      PROVE  RelayInv' /\ [Next]_spv
  <2>1. UNCHANGED <<prevOf, best, relay>>
    BY <1>8 DEF SomeoneSubmits
  <2>2. /\ Next
        /\ \A c \in Block : Has(spv', c) => c \in Mined /\ Parent(spv', c) = prevOf[c]
    BY <1>8, SubmitIsStep
  <2>3. QED
    BY <1>1, <1>2, <2>1, <2>2
<1>9. CASE UNCHANGED relayVars
  <2>1. UNCHANGED <<spv, prevOf, best, relay>>
    BY <1>9 DEF relayVars
  <2>2. \A b \in Block : Has(spv', b) => b \in Mined /\ Parent(spv', b) = prevOf[b]
    BY <1>1, <2>1 DEF StoredIsMined
  <2>3. QED
    BY <1>1, <1>2, <2>1, <2>2
<1>10. CASE RelayerStep
  BY <1>3, <1>4, <1>10 DEF RelayerStep
<1>11. QED
  BY <1>5, <1>6, <1>7, <1>8, <1>9, <1>10 DEF RelayNext

\* What holds through every round, reorg and foreign submission: the gateway's
\* storage is sound, its headers and the fetched ones are Bitcoin's, and the
\* round never asks the source for a block below the checkpoint's height to send.
THEOREM RelayerCorrect == RelaySpec => []RelayInv
<1>1. RelayInit => RelayInv
  BY RelayStarts
<1>2. RelayInv /\ [RelayNext]_relayVars => RelayInv'
  BY RelayStep
<1>3. QED
  BY <1>1, <1>2, PTL DEF RelaySpec

\* The relayer implements the gateway's users: all it ever does to the contract,
\* together with all others, is calls that Spec allows, so what is proved of Spec
\* holds of the gateway the daemon drives.
THEOREM RelayerIsGateway == RelaySpec => Spec
<1>1. RelayInit => Init
  BY RelayStarts
<1>2. RelayInv /\ [RelayNext]_relayVars => [Next]_spv
  BY RelayStep
<1>3. QED
  BY <1>1, <1>2, RelayerCorrect, PTL DEF RelaySpec, Spec

\* Whatever was stale when a batch was fetched, fitted and sent, the gateway
\* only ever has blocks of Bitcoin, each on the parent it has there.
THEOREM StoredIsMinedHolds == RelaySpec => []StoredIsMined
<1>1. RelayInv => StoredIsMined
  BY DEF RelayInv
<1>2. QED
  BY <1>1, RelayerCorrect, PTL

\* With the one difficulty of the relayer's Bitcoin, the gateway it feeds reports
\* a heaviest chain.
THEOREM RelayerReports ==
    ASSUME NEW w, OneDifficulty(w)
    PROVE  RelaySpec => ReportsHeaviestChain
<1>1. IsFiniteSet(Block)
  BY RelayerAssumption
<1>2. Spec => ReportsHeaviestChain
  BY <1>1, OneDifficultyReports
<1>3. QED
  BY <1>2, RelayerIsGateway, PTL

-----------------------------------------------------------------------------
(* The arithmetic of targets. *)

\* f holds the first n + 1 powers of Byte.
IsPowers(f, n) == f = [i \in 0..n |-> IF i = 0 THEN 1 ELSE Byte * f[i - 1]]

LEMMA PowersExist == \A n \in Nat : \E f : IsPowers(f, n)
<1> DEFINE T == {n \in Nat : \E f : IsPowers(f, n)}
<1>1. 0 \in T
  <2>1. IsPowers([i \in 0..0 |-> 1], 0)
    BY DEF IsPowers
  <2>2. QED
    BY <2>1
<1>2. ASSUME NEW n \in T PROVE n + 1 \in T
  <2>1. PICK f : IsPowers(f, n)
    OBVIOUS
  <2> DEFINE g == [i \in 0..(n + 1) |-> IF i = n + 1 THEN Byte * f[n] ELSE f[i]]
  <2>2. ASSUME NEW i \in 0..(n + 1)
        PROVE  g[i] = IF i = 0 THEN 1 ELSE Byte * g[i - 1]
    <3>1. CASE i = n + 1
      <4>1. i # 0 /\ n \in 0..(n + 1) /\ n # n + 1 /\ i - 1 = n
        BY <3>1
      <4>2. g[i - 1] = f[n]
        BY <4>1
      <4>3. QED
        BY <3>1, <4>1, <4>2
    <3>2. CASE i # n + 1
      <4>1. i \in 0..n
        BY <3>2
      <4>2. g[i] = f[i]
        BY <3>2
      <4>3. f[i] = IF i = 0 THEN 1 ELSE Byte * f[i - 1]
        BY <2>1, <4>1 DEF IsPowers
      <4>4. i # 0 => g[i - 1] = f[i - 1]
        BY <4>1
      <4>5. QED
        BY <4>2, <4>3, <4>4
    <3>3. QED
      BY <3>1, <3>2
  <2> HIDE DEF g
  <2>3. g = [i \in 0..(n + 1) |-> g[i]]
    BY DEF g
  <2>4. IsPowers(g, n + 1)
    BY <2>2, <2>3 DEF IsPowers
  <2>5. QED
    BY <2>4
<1> HIDE DEF T
<1>3. T \in SUBSET Nat
  BY DEF T
<1>4. \A n \in Nat : n \in T
  BY <1>1, <1>2, <1>3, SetInduction
<1>5. QED
  BY <1>4 DEF T

\* Pow satisfies its equation.
LEMMA PowSteps ==
    /\ Pow[0] = 1
    /\ \A n \in 0..Width : n # 0 => Pow[n] = Byte * Pow[n - 1]
<1>1. Width \in Nat
  BY TargetsAssumption
<1>2. PICK f : IsPowers(f, Width)
  BY <1>1, PowersExist
<1>3. IsPowers(Pow, Width)
  BY <1>2 DEF Pow, IsPowers
<1>4. ASSUME NEW n \in 0..Width PROVE Pow[n] = IF n = 0 THEN 1 ELSE Byte * Pow[n - 1]
  BY <1>3, Zenon DEF IsPowers
<1>5. 0 \in 0..Width
  BY <1>1
<1>6. QED
  BY <1>4, <1>5

\* The powers are positive and grow by Byte with each byte.
LEMMA PowFacts ==
    /\ \A n \in 0..Width : Pow[n] \in Nat /\ Pow[n] > 0
    /\ \A n \in 1..Width : Pow[n] = Byte * Pow[n - 1]
    /\ \A m, n \in 0..Width : m <= n => Pow[m] <= Pow[n]
<1> Byte \in Nat /\ Byte >= 2 /\ Width \in Nat
  BY TargetsAssumption
<1>1. \A n \in 0..Width : Pow[n] \in Nat /\ Pow[n] > 0
  <2> DEFINE T == {n \in Nat : n <= Width => Pow[n] \in Nat /\ Pow[n] > 0}
  <2>1. 0 \in T
    BY PowSteps
  <2>2. ASSUME NEW n \in T PROVE n + 1 \in T
    <3> SUFFICES ASSUME n + 1 <= Width PROVE Pow[n + 1] \in Nat /\ Pow[n + 1] > 0
      OBVIOUS
    <3>1. Pow[n + 1] = Byte * Pow[n] /\ Pow[n] \in Nat /\ Pow[n] > 0
      BY PowSteps
    <3>2. QED
      BY <3>1
  <2> HIDE DEF T
  <2>3. T \in SUBSET Nat
    BY DEF T
  <2>4. \A n \in Nat : n \in T
    BY <2>1, <2>2, <2>3, SetInduction
  <2>5. QED
    BY <2>4 DEF T
<1>2. \A n \in 1..Width : Pow[n] = Byte * Pow[n - 1]
  BY PowSteps
<1>3. ASSUME NEW m \in 0..Width PROVE \A n \in 0..Width : m <= n => Pow[m] <= Pow[n]
  <2> DEFINE T == {k \in Nat : m + k <= Width => Pow[m] <= Pow[m + k]}
  <2>1. 0 \in T
    BY <1>1
  <2>2. ASSUME NEW k \in T PROVE k + 1 \in T
    <3> SUFFICES ASSUME m + (k + 1) <= Width PROVE Pow[m] <= Pow[m + (k + 1)]
      OBVIOUS
    <3>1. Pow[m] <= Pow[m + k] /\ m + k \in 0..Width /\ m + (k + 1) \in 1..Width
      OBVIOUS
    <3>2. Pow[m + (k + 1)] = Byte * Pow[m + k]
      BY <1>2, <3>1
    <3>3. Pow[m] \in Nat /\ Pow[m + k] \in Nat
      BY <1>1, <3>1
    <3>4. Pow[m + k] <= Byte * Pow[m + k]
      BY <3>3
    <3>5. QED
      BY <3>1, <3>2, <3>3, <3>4
  <2> HIDE DEF T
  <2>3. T \in SUBSET Nat
    BY DEF T
  <2>4. \A n \in Nat : n \in T
    BY <2>1, <2>2, <2>3, SetInduction
  <2>5. SUFFICES ASSUME NEW n \in 0..Width, m <= n PROVE Pow[m] <= Pow[n]
    OBVIOUS
  <2>6. n - m \in T /\ m + (n - m) = n
    BY <2>4, <2>5
  <2>7. QED
    BY <2>5, <2>6 DEF T
<1>4. QED
  BY <1>1, <1>2, <1>3

\* The length of a word is where its powers lie on either side of it.
LEMMA LengthFacts ==
    ASSUME NEW t \in Word
    PROVE  /\ Length(t) \in 0..Width
           /\ t < Pow[Length(t)]
           /\ Length(t) > 0 => t >= Pow[Length(t) - 1]
<1> Width \in Nat /\ t \in Nat
  BY TargetsAssumption DEF Word
<1> DEFINE T == {n \in 0..Width : t < Pow[n]}
<1>1. Width \in T /\ T \in SUBSET Nat
  BY PowFacts DEF Word
<1>2. PICK n \in T : \A m \in T : n <= m
  BY <1>1, LeastNat
<1>3. n > 0 => t >= Pow[n - 1]
  <2> SUFFICES ASSUME n > 0 PROVE t >= Pow[n - 1]
    OBVIOUS
  <2>1. n - 1 \in 0..Width /\ n - 1 \notin T
    BY <1>2
  <2>2. QED
    BY <2>1, PowFacts
<1>4. n \in 0..Width /\ t < Pow[n] /\ (n > 0 => t >= Pow[n - 1])
  BY <1>3
<1>5. QED
  BY <1>4 DEF Length

\* A word of at least Pow[n] has more than n bytes.
LEMMA LongerThan ==
    ASSUME NEW t \in Word, NEW n \in 0..Width, t >= Pow[n]
    PROVE  Length(t) > n
<1> Width \in Nat /\ t \in Nat
  BY TargetsAssumption DEF Word
<1>1. Length(t) \in 0..Width /\ t < Pow[Length(t)]
  BY LengthFacts
<1>2. ASSUME Length(t) <= n PROVE FALSE
  <2>1. Pow[Length(t)] <= Pow[n] /\ Pow[n] \in Nat /\ Pow[Length(t)] \in Nat
    BY <1>1, <1>2, PowFacts
  <2>2. QED
    BY <1>1, <2>1
<1>3. QED
  BY <1>1, <1>2

\* Products of naturals keep and reflect the order.
LEMMA ProductOrder ==
    ASSUME NEW a \in Nat, NEW b \in Nat, NEW c \in Nat
    PROVE  /\ a <= b => c * a <= c * b
           /\ c * a < c * b => a < b
           /\ c > 0 /\ a < b => c * a < c * b
           /\ c > 0 /\ c * a <= c * b => a <= b
<1>1. ASSUME a <= b PROVE c * a <= c * b
  <2>1. b - a \in Nat /\ c * (b - a) \in Nat
    BY <1>1
  <2>2. c * b = c * a + c * (b - a)
    OBVIOUS
  <2>3. QED
    BY <2>1, <2>2
<1>2. ASSUME c * a < c * b, b <= a PROVE FALSE
  <2>1. a - b \in Nat /\ c * (a - b) \in Nat
    BY <1>2
  <2>2. c * a = c * b + c * (a - b)
    OBVIOUS
  <2>3. QED
    BY <1>2, <2>1, <2>2
<1>3. ASSUME c > 0, a < b PROVE c * a < c * b
  <2>1. b - a \in Nat /\ b - a >= 1 /\ c * (b - a) \in Nat
    BY <1>3
  <2>2. c * (b - a) > 0
    BY <1>3, <2>1
  <2>3. c * b = c * a + c * (b - a)
    OBVIOUS
  <2>4. QED
    BY <2>1, <2>2, <2>3
<1>4. ASSUME c > 0, c * a <= c * b, b < a PROVE FALSE
  <2>1. a - b \in Nat /\ a - b >= 1 /\ c * (a - b) \in Nat
    BY <1>4
  <2>2. c * (a - b) > 0
    BY <1>4, <2>1
  <2>3. c * a = c * b + c * (a - b)
    OBVIOUS
  <2>4. QED
    BY <1>4, <2>1, <2>2, <2>3
<1>5. QED
  BY <1>1, <1>2, <1>3, <1>4

\* The quotient is the number of times the divisor fits.
LEMMA Quotient ==
    ASSUME NEW a \in Nat, NEW b \in Nat, b > 0
    PROVE  /\ a \div b \in Nat
           /\ b * (a \div b) <= a
           /\ a < b * (a \div b) + b
           /\ a % b = a - b * (a \div b)
OBVIOUS

\* And the only one.
LEMMA QuotientIs ==
    ASSUME NEW a \in Nat, NEW b \in Nat, b > 0, NEW q \in Nat, b * q <= a, a < b * q + b
    PROVE  a \div b = q
<1> DEFINE p == a \div b
<1>1. p \in Nat /\ b * p <= a /\ a < b * p + b
  BY Quotient
<1> HIDE DEF p
<1>2. b * q < b * (p + 1) /\ b * p < b * (q + 1)
  <2>1. b * (p + 1) = b * p + b /\ b * (q + 1) = b * q + b /\ b * p \in Nat /\ b * q \in Nat
    BY <1>1
  <2>2. QED
    BY <1>1, <2>1
<1>3. q < p + 1 /\ p < q + 1
  BY <1>1, <1>2, ProductOrder
<1>4. QED
  BY <1>1, <1>3 DEF p

\* The first n bytes of a word, as a factor of the rest.
LEMMA PowSplit ==
    ASSUME NEW n \in 2..3, NEW k \in n..Width
    PROVE  /\ n \in 0..Width /\ k - n \in 0..Width
           /\ Pow[k] = Pow[n] * Pow[k - n]
<1> Width \in Nat /\ Width >= 3 /\ Byte \in Nat
  BY TargetsAssumption
<1>1. Pow[0] = 1 /\ Pow[1] = Byte /\ Pow[2] = Byte * Byte /\ Pow[3] = Byte * (Byte * Byte)
  <2>1. Pow[0] = 1 /\ Pow[1] = Byte * Pow[0] /\ Pow[2] = Byte * Pow[1] /\ Pow[3] = Byte * Pow[2]
    BY PowSteps
  <2>2. QED
    BY <2>1
<1>2. k \in 1..Width /\ k - 1 \in 1..Width /\ k - 2 \in 0..Width /\ k - n \in 0..Width
  OBVIOUS
<1>3. Pow[k] = Byte * Pow[k - 1] /\ Pow[k - 1] = Byte * Pow[k - 2]
  <2>1. (k - 1) - 1 = k - 2
    OBVIOUS
  <2>2. QED
    BY <1>2, <2>1, PowFacts
<1>4. CASE n = 2
  <2>1. Pow[k - 2] \in Nat
    BY <1>2, PowFacts
  <2>2. Byte * (Byte * Pow[k - 2]) = (Byte * Byte) * Pow[k - 2]
    BY <2>1
  <2>3. QED
    BY <1>1, <1>2, <1>3, <1>4, <2>2
<1>5. CASE n = 3
  <2>1. k - 2 \in 1..Width /\ (k - 2) - 1 = k - 3 /\ k - 3 \in 0..Width
    BY <1>5
  <2>2. Pow[k - 2] = Byte * Pow[k - 3] /\ Pow[k - 3] \in Nat
    BY <2>1, PowFacts
  <2>3. Byte * (Byte * (Byte * Pow[k - 3])) = (Byte * (Byte * Byte)) * Pow[k - 3]
    BY <2>2
  <2>4. QED
    BY <1>1, <1>2, <1>3, <1>5, <2>2, <2>3
<1>6. QED
  BY <1>2, <1>4, <1>5

\* What masking leaves: a coefficient of n bytes that is not zero, and zeros.
LEMMA MaskedIs ==
    ASSUME NEW t \in Word, NEW n \in 2..3, Length(t) >= n
    PROVE  \E q \in 1..(Pow[n] - 1) : Masked(t, n) = q * Pow[Length(t) - n]
<1> DEFINE L == Length(t)
           P == Pow[L - n]
           q == t \div P
<1> Width \in Nat /\ Width >= 3 /\ t \in Nat
  BY TargetsAssumption DEF Word
<1>1. L \in n..Width /\ t < Pow[L] /\ t >= Pow[L - 1]
  BY LengthFacts
<1> HIDE DEF L
<1>2. L - n \in 0..Width /\ n \in 0..Width /\ L - 1 \in 0..Width /\ L - n <= L - 1
      /\ Pow[L] = Pow[n] * P
  BY <1>1, PowSplit
<1>3. P \in Nat /\ P > 0 /\ Pow[n] \in Nat /\ P <= Pow[L - 1] /\ Pow[L - 1] \in Nat
  BY <1>2, PowFacts
<1> HIDE DEF P
<1>4. q \in Nat /\ P * q <= t /\ t < P * q + P /\ t % P = t - P * q
  BY <1>3, Quotient
<1> HIDE DEF q
<1>5. q >= 1
  <2>1. ASSUME q = 0 PROVE FALSE
    <3>1. P * q = 0
      BY <1>3, <2>1
    <3>2. t >= P
      BY <1>1, <1>3
    <3>3. QED
      BY <1>3, <1>4, <3>1, <3>2
  <2>2. QED
    BY <1>4, <2>1
<1>6. q < Pow[n]
  <2>1. P * q < P * Pow[n]
    BY <1>1, <1>2, <1>3, <1>4
  <2>2. QED
    BY <1>3, <1>4, <2>1, ProductOrder
<1>7. Masked(t, n) = t - (t % P)
  BY <1>1 DEF Masked, L, P
<1>8. t - (t % P) = q * P
  BY <1>3, <1>4
<1>9. Masked(t, n) = q * Pow[Length(t) - n] /\ q \in 1..(Pow[n] - 1)
  BY <1>3, <1>4, <1>5, <1>6, <1>7, <1>8 DEF L, P
<1>10. QED
  BY <1>9

\* A target of at least three bytes is rounded to one that is not zero and that
\* the bits of a header express.
LEMMA RoundedIsExpressible ==
    ASSUME NEW t \in Word, Length(t) >= 3
    PROVE  /\ RoundTarget(t) \in Nat /\ RoundTarget(t) > 0
           /\ \E length \in 0..Width, coefficient \in 1..(Pow[3] - 1) :
                 BitsToTarget(length, coefficient) = RoundTarget(t)
<1> DEFINE L == Length(t)
<1> Width \in Nat /\ Width >= 3 /\ t \in Nat /\ Byte \in Nat /\ Byte >= 2
  BY TargetsAssumption DEF Word
<1>1. L \in 3..Width
  BY LengthFacts
<1>2. L - 2 \in 1..Width /\ L - 3 \in 0..Width /\ Pow[L - 2] = Byte * Pow[L - 3]
  <2>1. L - 2 \in 1..Width /\ L - 3 \in 0..Width /\ (L - 2) - 1 = L - 3
    BY <1>1
  <2>2. QED
    BY <2>1, PowFacts
<1>3. Pow[L - 3] \in Nat /\ Pow[L - 3] > 0 /\ Pow[2] \in Nat /\ Pow[3] = Byte * Pow[2]
      /\ Pow[3] \in Nat
  BY <1>2, PowSteps, PowFacts
<1>4. CASE TopByte(t) > SignByte
  <2>1. RoundTarget(t) = Masked(t, 2)
    BY <1>4 DEF RoundTarget
  <2>2. PICK q \in 1..(Pow[2] - 1) : Masked(t, 2) = q * Pow[L - 2]
    BY <1>1, MaskedIs
  <2>3. q * (Byte * Pow[L - 3]) = (q * Byte) * Pow[L - 3]
    BY <1>3
  <2>4. q * Byte \in Nat /\ q * Byte >= 1 /\ q * Byte < Pow[3]
    <3>1. q * Byte \in Nat /\ q * Byte >= 1
      OBVIOUS
    <3>2. Byte * (q + 1) <= Byte * Pow[2]
      BY <1>3, ProductOrder
    <3>3. q * Byte < Byte * (q + 1)
      OBVIOUS
    <3>4. QED
      BY <1>3, <3>1, <3>2, <3>3
  <2>5. BitsToTarget(L, q * Byte) = (q * Byte) * Pow[L - 3]
    BY <1>1 DEF BitsToTarget
  <2>6. (q * Byte) * Pow[L - 3] > 0 /\ (q * Byte) * Pow[L - 3] \in Nat
    BY <1>3, <2>4
  <2>7. L \in 0..Width /\ q * Byte \in 1..(Pow[3] - 1)
    BY <1>1, <1>3, <2>4
  <2> HIDE DEF L
  <2>8. QED
    BY <1>2, <2>1, <2>2, <2>3, <2>5, <2>6, <2>7
<1>5. CASE ~(TopByte(t) > SignByte)
  <2>1. RoundTarget(t) = Masked(t, 3)
    BY <1>5 DEF RoundTarget
  <2>2. PICK q \in 1..(Pow[3] - 1) : Masked(t, 3) = q * Pow[L - 3]
    BY <1>1, MaskedIs
  <2>3. BitsToTarget(L, q) = q * Pow[L - 3]
    BY <1>1 DEF BitsToTarget
  <2>4. q * Pow[L - 3] > 0 /\ q * Pow[L - 3] \in Nat
    BY <1>3
  <2>5. L \in 0..Width
    BY <1>1
  <2> HIDE DEF L
  <2>6. QED
    BY <2>1, <2>2, <2>3, <2>4, <2>5
<1>6. QED
  BY <1>4, <1>5

\* The ratio of countNewTarget and the span of the consensus rule, each between
\* a quarter and four.
Ratio(p) == AtMost(AtLeast((p * FixedPoint) \div EpochTime, FixedPoint \div 4), 4 * FixedPoint)
Span(p) == AtMost(AtLeast(p, EpochTime \div 4), 4 * EpochTime)

LEMMA RatioType ==
    ASSUME NEW p \in Nat
    PROVE  /\ Ratio(p) \in Nat /\ Ratio(p) >= FixedPoint \div 4
           /\ FixedPoint \div 4 \in Nat /\ FixedPoint = 4 * (FixedPoint \div 4)
           /\ FixedPoint \div 4 > 0
           /\ FixedPoint \in Nat /\ FixedPoint > 0 /\ EpochTime \in Nat /\ EpochTime > 0
           /\ (p * FixedPoint) \div EpochTime \in Nat
<1>1. FixedPoint \in Nat /\ FixedPoint > 0 /\ EpochTime \in Nat /\ EpochTime > 0
      /\ FixedPoint % 4 = 0
  BY TargetsAssumption
<1>2. FixedPoint \div 4 \in Nat /\ FixedPoint = 4 * (FixedPoint \div 4) /\ FixedPoint \div 4 > 0
  BY <1>1
<1>3. p * FixedPoint \in Nat
  BY <1>1
<1>4. (p * FixedPoint) \div EpochTime \in Nat
  BY <1>1, <1>3, Quotient
<1>5. QED
  BY <1>1, <1>2, <1>4 DEF Ratio, AtMost, AtLeast

\* One epoch takes a target of four bytes to one of at least three.
LEMMA NewTargetLong ==
    ASSUME Byte >= 4, InitialTarget >= Pow[3],
           NEW target \in Word, target >= Pow[3], NEW p \in Nat
    PROVE  CountNewTarget(target, p) \in Word /\ CountNewTarget(target, p) >= Pow[2]
<1> DEFINE f == FixedPoint \div 4
           ratio == Ratio(p)
           r == (target * ratio) \div FixedPoint
<1> Width \in Nat /\ Width >= 3 /\ target \in Nat /\ Byte \in Nat /\ InitialTarget \in Nat
  BY TargetsAssumption DEF Word
<1>1. f \in Nat /\ f > 0 /\ FixedPoint = 4 * f /\ ratio \in Nat /\ ratio >= f
      /\ FixedPoint \in Nat /\ FixedPoint > 0
  BY RatioType
<1>2. Pow[2] \in Nat /\ Pow[2] > 0 /\ Pow[3] \in Nat /\ Pow[3] = Byte * Pow[2]
      /\ Pow[Width] \in Nat /\ Pow[2] <= Pow[3]
  BY PowFacts
<1>3. CountNewTarget(target, p) = AtMost(r, InitialTarget)
  BY DEF CountNewTarget, Ratio
<1> HIDE DEF f, ratio
<1>4. target * ratio \in Nat
  BY <1>1
<1>5. r \in Nat /\ target * ratio < FixedPoint * r + FixedPoint
  BY <1>1, <1>4, Quotient
<1> HIDE DEF r
<1>6. target * f <= target * ratio
  BY <1>1, ProductOrder
<1>7. f * target < f * (4 * (r + 1))
  <2>1. FixedPoint * r + FixedPoint = f * (4 * (r + 1))
    BY <1>1, <1>5
  <2>2. f * target = target * f /\ f * target \in Nat
    BY <1>1
  <2>3. QED
    BY <1>1, <1>4, <1>5, <1>6, <2>1, <2>2
<1>8. target < 4 * (r + 1)
  <2>1. 4 * (r + 1) \in Nat
    BY <1>5
  <2>2. QED
    BY <1>1, <1>7, <2>1, ProductOrder
<1>9. 4 * Pow[2] <= Byte * Pow[2]
  <2>1. Pow[2] * 4 <= Pow[2] * Byte
    BY <1>2, ProductOrder
  <2>2. QED
    BY <1>2, <2>1
<1>10. r >= Pow[2]
  BY <1>2, <1>5, <1>8, <1>9
<1>11. InitialTarget < Pow[Width]
  BY InitialTargetAssumption
<1>12. QED
  BY <1>2, <1>3, <1>5, <1>10, <1>11 DEF AtMost, Word

\* Where the fixed point is exact, ratio and span are the same fraction.
LEMMA RatioIsSpan ==
    ASSUME EpochTime % 4 = 0, NEW p \in Nat, (p * FixedPoint) % EpochTime = 0
    PROVE  Span(p) \in Nat /\ EpochTime * Ratio(p) = FixedPoint * Span(p)
<1> DEFINE k == (p * FixedPoint) \div EpochTime
           f == FixedPoint \div 4
           e == EpochTime \div 4
<1>1. k \in Nat /\ f \in Nat /\ f > 0 /\ FixedPoint = 4 * f
      /\ FixedPoint \in Nat /\ FixedPoint > 0 /\ EpochTime \in Nat /\ EpochTime > 0
  BY RatioType
<1>2. e \in Nat /\ e > 0 /\ EpochTime = 4 * e
  BY <1>1
<1>3. p * FixedPoint \in Nat /\ EpochTime * k = FixedPoint * p
  <2>1. p * FixedPoint \in Nat
    BY <1>1
  <2>2. (p * FixedPoint) % EpochTime = p * FixedPoint - EpochTime * k
    BY <1>1, <2>1, Quotient
  <2>3. EpochTime * k \in Nat
    BY <1>1
  <2>4. QED
    BY <1>1, <2>1, <2>2, <2>3
<1>4. Ratio(p) = AtMost(AtLeast(k, f), 4 * FixedPoint) /\ Span(p) = AtMost(AtLeast(p, e), 4 * EpochTime)
  BY DEF Ratio, Span
<1> HIDE DEF k, f, e
<1>5. EpochTime * f = FixedPoint * e
  <2>1. EpochTime * f = (4 * e) * f /\ FixedPoint * e = (4 * f) * e
    BY <1>1, <1>2
  <2>2. (4 * e) * f = (4 * f) * e
    BY <1>1, <1>2
  <2>3. QED
    BY <2>1, <2>2
<1>6. EpochTime * (4 * FixedPoint) = FixedPoint * (4 * EpochTime)
  BY <1>1
<1>7. k < f <=> p < e
  <2>1. k < f <=> EpochTime * k < EpochTime * f
    BY <1>1, ProductOrder
  <2>2. p < e <=> FixedPoint * p < FixedPoint * e
    BY <1>1, <1>2, ProductOrder
  <2>3. QED
    BY <1>3, <1>5, <2>1, <2>2
<1>8. k > 4 * FixedPoint <=> p > 4 * EpochTime
  <2>1. 4 * FixedPoint \in Nat /\ 4 * EpochTime \in Nat
    BY <1>1
  <2>2. 4 * FixedPoint < k <=> EpochTime * (4 * FixedPoint) < EpochTime * k
    BY <1>1, <2>1, ProductOrder
  <2>3. 4 * EpochTime < p <=> FixedPoint * (4 * EpochTime) < FixedPoint * p
    BY <1>1, <2>1, ProductOrder
  <2>4. QED
    BY <1>1, <1>3, <1>6, <2>1, <2>2, <2>3
<1>9. f <= 4 * FixedPoint /\ e <= 4 * EpochTime
  BY <1>1, <1>2
<1>10. CASE k < f
  <2>1. Ratio(p) = f /\ Span(p) = e
    BY <1>1, <1>2, <1>4, <1>7, <1>9, <1>10 DEF AtMost, AtLeast
  <2>2. QED
    BY <1>2, <1>5, <2>1
<1>11. CASE ~(k < f) /\ k > 4 * FixedPoint
  <2>1. Ratio(p) = 4 * FixedPoint /\ Span(p) = 4 * EpochTime
    BY <1>4, <1>7, <1>8, <1>11 DEF AtMost, AtLeast
  <2>2. QED
    BY <1>1, <1>6, <2>1
<1>12. CASE ~(k < f) /\ ~(k > 4 * FixedPoint)
  <2>1. Ratio(p) = k /\ Span(p) = p
    BY <1>4, <1>7, <1>8, <1>12 DEF AtMost, AtLeast
  <2>2. QED
    BY <1>3, <2>1
<1>13. QED
  BY <1>10, <1>11, <1>12

\* Equal fractions scale a target alike.
LEMMA SameScale ==
    ASSUME NEW t \in Nat, NEW a \in Nat, NEW b \in Nat, NEW c \in Nat, NEW d \in Nat,
           b > 0, d > 0, d * a = b * c
    PROVE  (t * a) \div b = (t * c) \div d
<1> DEFINE r == (t * a) \div b
<1>1. t * a \in Nat /\ t * c \in Nat
  OBVIOUS
<1>2. r \in Nat /\ b * r <= t * a /\ t * a < b * (r + 1)
  BY <1>1, Quotient
<1> HIDE DEF r
<1>3. d * (t * a) = b * (t * c)
  <2>1. d * (t * a) = t * (d * a) /\ b * (t * c) = t * (b * c)
    OBVIOUS
  <2>2. QED
    BY <2>1
<1>4. b * r \in Nat /\ b * (r + 1) \in Nat /\ d * r \in Nat /\ d * (r + 1) \in Nat
  BY <1>2
<1>5. d * (b * r) <= d * (t * a) /\ d * (t * a) < d * (b * (r + 1))
  BY <1>1, <1>2, <1>4, ProductOrder
<1>6. d * (b * r) = b * (d * r) /\ d * (b * (r + 1)) = b * (d * (r + 1))
  BY <1>2
<1>7. b * (d * r) <= b * (t * c) /\ b * (t * c) < b * (d * (r + 1))
  BY <1>3, <1>5, <1>6
<1>8. d * r <= t * c /\ t * c < d * (r + 1)
  BY <1>1, <1>4, <1>7, ProductOrder
<1>9. d * (r + 1) = d * r + d
  BY <1>2
<1>10. (t * c) \div d = r
  BY <1>1, <1>2, <1>8, <1>9, QuotientIs
<1>11. QED
  BY <1>10 DEF r

\* For a target of at least three bytes whose first is not 0x80, the rounding of
\* the code is the compact form of consensus.
LEMMA RoundIsCompact ==
    ASSUME NEW t \in Word, Length(t) >= 3, TopByte(t) # SignByte
    PROVE  RoundTarget(t) = Compact(t)
<1> DEFINE L == Length(t)
<1> Width \in Nat /\ t \in Nat /\ Byte \in Nat /\ Byte >= 2
  BY TargetsAssumption DEF Word
<1>1. L \in 3..Width /\ t < Pow[L]
  BY LengthFacts
<1>2. TopByte(t) \in Nat /\ SignByte \in Nat
  <2>1. L - 1 \in 0..Width /\ Pow[L - 1] \in Nat /\ Pow[L - 1] > 0
    BY <1>1, PowFacts
  <2>2. t \div Pow[L - 1] \in Nat
    BY <2>1, Quotient
  <2>3. TopByte(t) \in Nat
    BY <2>2 DEF TopByte
  <2>4. SignByte \in Nat
    BY Quotient DEF SignByte
  <2>5. QED
    BY <2>3, <2>4
<1>3. (TopByte(t) >= SignByte) = (TopByte(t) > SignByte)
  BY <1>2
<1>4. Masked(t, 3) = IF L <= 3 THEN t ELSE Masked(t, 3)
  <2> SUFFICES ASSUME L <= 3 PROVE Masked(t, 3) = t
    OBVIOUS
  <2>1. L - 3 = 0 /\ t % 1 = 0
    BY <1>1
  <2>2. QED
    BY <1>1, <2>1, PowSteps DEF Masked
<1>5. Masked(t, 2) = IF L <= 2 THEN t ELSE Masked(t, 2)
  BY <1>1
<1> HIDE DEF L
<1>6. CASE TopByte(t) > SignByte
  BY <1>3, <1>5, <1>6 DEF RoundTarget, Compact, L
<1>7. CASE ~(TopByte(t) > SignByte)
  BY <1>3, <1>4, <1>7 DEF RoundTarget, Compact, L
<1>8. QED
  BY <1>6, <1>7

\* A word between two powers has the length of the greater.
LEMMA LengthIs ==
    ASSUME NEW t \in Word, NEW n \in 1..Width, Pow[n - 1] <= t, t < Pow[n]
    PROVE  Length(t) = n
<1> Width \in Nat /\ t \in Nat
  BY TargetsAssumption DEF Word
<1>1. Length(t) > n - 1
  BY LongerThan
<1>2. Length(t) \in 0..Width /\ (Length(t) > 0 => t >= Pow[Length(t) - 1])
  BY LengthFacts
<1>3. ASSUME Length(t) > n PROVE FALSE
  <2>1. Length(t) - 1 \in 0..Width /\ n <= Length(t) - 1
    BY <1>2, <1>3
  <2>2. Pow[n] <= Pow[Length(t) - 1] /\ Pow[n] \in Nat /\ Pow[Length(t) - 1] \in Nat
    BY <2>1, PowFacts
  <2>3. QED
    BY <1>2, <1>3, <2>2
<1>4. QED
  BY <1>1, <1>2, <1>3

\* Masking keeps the length and the first byte, and masking again changes
\* nothing.
LEMMA MaskAgain ==
    ASSUME NEW t \in Word, NEW n \in 2..3, Length(t) >= n
    PROVE  /\ Masked(t, n) \in Word /\ Masked(t, n) <= t
           /\ Length(Masked(t, n)) = Length(t)
           /\ TopByte(Masked(t, n)) = TopByte(t)
           /\ Masked(Masked(t, n), n) = Masked(t, n)
<1> DEFINE L == Length(t)
           P == Pow[L - n]
           H == Pow[n - 1]
           q == t \div P
           d == t \div Pow[L - 1]
           m == Masked(t, n)
<1> Width \in Nat /\ Width >= 3 /\ t \in Nat
  BY TargetsAssumption DEF Word
<1>1. L \in n..Width /\ t < Pow[L] /\ t >= Pow[L - 1] /\ L \in 1..Width
  BY LengthFacts
<1>2. m = t - (t % P)
  BY <1>1 DEF Masked
<1>3. TopByte(t) = d
  <2>1. L - 1 \in 0..Width
    BY <1>1
  <2>2. t # 0
    <3>1. Pow[L - 1] > 0 /\ Pow[L - 1] \in Nat
      BY <2>1, PowFacts
    <3>2. QED
      BY <1>1, <3>1
  <2>3. QED
    BY <2>2 DEF TopByte
<1> HIDE DEF L, m
<1>4. L - n \in 0..Width /\ n - 1 \in 0..Width /\ L - 1 \in 0..Width
  BY <1>1
<1>5. Pow[L - 1] = H * P
  <2>1. CASE n = 2
    <3>1. L - 1 \in 1..Width /\ (L - 1) - 1 = L - n /\ n - 1 = 1
      BY <1>1, <2>1
    <3>2. Pow[L - 1] = Byte * P /\ H = Byte
      <4>1. Byte \in Nat /\ Pow[0] = 1 /\ Pow[1] = Byte * Pow[0]
        BY PowSteps, TargetsAssumption
      <4>2. QED
        BY <3>1, <4>1, PowFacts
    <3>3. QED
      BY <3>2
  <2>2. CASE n = 3
    <3>1. L - 1 \in 2..Width /\ (L - 1) - 2 = L - n /\ n - 1 = 2 /\ 2 \in 2..3
      BY <1>1, <2>2
    <3>2. Pow[L - 1] = Pow[2] * Pow[(L - 1) - 2]
      BY <3>1, PowSplit
    <3>3. QED
      BY <3>1, <3>2
  <2>3. QED
    BY <2>1, <2>2
<1>6. P \in Nat /\ P > 0 /\ H \in Nat /\ H > 0 /\ Pow[L - 1] \in Nat /\ Pow[L - 1] > 0
      /\ Pow[L] \in Nat /\ Pow[Width] \in Nat
  BY <1>1, <1>4, PowFacts
<1>7. q \in Nat /\ P * q <= t /\ t < P * q + P /\ t % P = t - P * q
  BY <1>6, Quotient
<1>8. d \in Nat /\ Pow[L - 1] * d <= t /\ t < Pow[L - 1] * d + Pow[L - 1]
  BY <1>6, Quotient
<1> HIDE DEF P, H, q, d
<1>9. m = P * q /\ m \in Nat /\ m <= t
  BY <1>2, <1>6, <1>7
<1>10. m \in Word
  BY <1>6, <1>9 DEF Word
<1>11. H * d <= q
  <2>1. Pow[L - 1] * d = P * (H * d) /\ H * d \in Nat
    BY <1>5, <1>6, <1>8
  <2>2. P * (q + 1) = P * q + P /\ P * q \in Nat
    BY <1>6, <1>7
  <2>3. P * (H * d) < P * (q + 1)
    <3>1. P * (H * d) <= t /\ t < P * (q + 1)
      BY <1>7, <1>8, <2>1, <2>2
    <3>2. P * (H * d) \in Nat /\ P * (q + 1) \in Nat
      BY <1>6, <1>7, <2>1
    <3>3. QED
      BY <3>1, <3>2
  <2>4. H * d < q + 1
    BY <1>6, <1>7, <2>1, <2>3, ProductOrder
  <2>5. QED
    BY <1>7, <2>1, <2>4
<1>12. Pow[L - 1] * d <= m
  <2>1. H * d \in Nat /\ P * (H * d) <= P * q
    BY <1>6, <1>7, <1>8, <1>11, ProductOrder
  <2>2. Pow[L - 1] * d = P * (H * d)
    BY <1>5, <1>6, <1>8
  <2>3. QED
    BY <1>9, <2>1, <2>2
<1>13. m \div Pow[L - 1] = d
  <2>1. Pow[L - 1] * d \in Nat
    BY <1>6, <1>8
  <2>2. m < Pow[L - 1] * d + Pow[L - 1]
    BY <1>6, <1>8, <1>9, <2>1
  <2>3. QED
    BY <1>6, <1>8, <1>9, <1>12, <2>2, QuotientIs
<1>14. d >= 1
  <2>1. ASSUME d = 0 PROVE FALSE
    <3>1. Pow[L - 1] * d = 0
      BY <1>6, <2>1
    <3>2. QED
      BY <1>1, <1>6, <1>8, <3>1
  <2>2. QED
    BY <1>8, <2>1
<1>15. m >= Pow[L - 1] /\ m < Pow[L]
  <2>1. Pow[L - 1] * 1 <= Pow[L - 1] * d
    BY <1>6, <1>8, <1>14, ProductOrder
  <2>2. Pow[L - 1] * d \in Nat
    BY <1>6, <1>8
  <2>3. QED
    BY <1>1, <1>6, <1>9, <1>12, <2>1, <2>2
<1>16. Length(m) = L
  BY <1>1, <1>10, <1>15, LengthIs
<1>17. TopByte(m) = d
  <2>1. m # 0
    BY <1>6, <1>15
  <2>2. QED
    BY <1>13, <1>16, <2>1 DEF TopByte
<1>18. Masked(m, n) = m
  <2>1. m \div P = q
    BY <1>6, <1>7, <1>9, QuotientIs
  <2>2. m % P = 0
    BY <1>6, <1>9, <2>1, Quotient
  <2>3. Masked(m, n) = m - (m % P)
    BY <1>1, <1>16 DEF Masked, P
  <2>4. QED
    BY <1>9, <2>2, <2>3
<1>19. QED
  BY <1>3, <1>9, <1>10, <1>16, <1>17, <1>18 DEF L, m

\* A rounded target is its own rounding.
LEMMA RoundAgain ==
    ASSUME NEW t \in Word, Length(t) >= 3
    PROVE  /\ RoundTarget(t) \in Word /\ RoundTarget(t) <= t
           /\ Length(RoundTarget(t)) = Length(t)
           /\ TopByte(RoundTarget(t)) = TopByte(t)
           /\ RoundTarget(RoundTarget(t)) = RoundTarget(t)
<1>1. Length(t) \in Nat
  BY LengthFacts, TargetsAssumption
<1> DEFINE n == IF TopByte(t) > SignByte THEN 2 ELSE 3
<1>2. n \in 2..3 /\ Length(t) >= n
  BY <1>1
<1>3. RoundTarget(t) = Masked(t, n)
  BY DEF RoundTarget
<1>4. /\ Masked(t, n) \in Word /\ Masked(t, n) <= t
      /\ Length(Masked(t, n)) = Length(t)
      /\ TopByte(Masked(t, n)) = TopByte(t)
      /\ Masked(Masked(t, n), n) = Masked(t, n)
  BY <1>2, MaskAgain
<1>5. RoundTarget(Masked(t, n)) = Masked(Masked(t, n), n)
  BY <1>4 DEF RoundTarget
<1> HIDE DEF n
<1>6. QED
  BY <1>3, <1>4, <1>5

\* A word of at least Pow[2] has three bytes.
LEMMA ThreeBytes ==
    ASSUME NEW t \in Word, t >= Pow[2]
    PROVE  Length(t) >= 3
<1>1. 2 \in 0..Width /\ Width \in Nat
  BY TargetsAssumption
<1>2. Length(t) > 2
  BY <1>1, LongerThan
<1>3. Length(t) \in Nat
  BY <1>1, LengthFacts
<1>4. QED
  BY <1>2, <1>3

\* Where the fixed point is exact, the new target is that of consensus.
LEMMA NewTargetIsConsensus ==
    ASSUME EpochTime % 4 = 0, NEW target \in Nat, NEW p \in Nat,
           (p * FixedPoint) % EpochTime = 0
    PROVE  CountNewTarget(target, p) = ConsensusTarget(target, p)
<1>1. Span(p) \in Nat /\ EpochTime * Ratio(p) = FixedPoint * Span(p)
  BY RatioIsSpan
<1>2. Ratio(p) \in Nat /\ FixedPoint \in Nat /\ FixedPoint > 0 /\ EpochTime \in Nat /\ EpochTime > 0
  BY RatioType
<1>3. (target * Ratio(p)) \div FixedPoint = (target * Span(p)) \div EpochTime
  <2>1. \A a, c \in Nat : EpochTime * a = FixedPoint * c =>
                              (target * a) \div FixedPoint = (target * c) \div EpochTime
    BY <1>2, SameScale
  <2>2. QED
    BY <1>1, <1>2, <2>1
<1>4. CountNewTarget(target, p) = AtMost((target * Ratio(p)) \div FixedPoint, InitialTarget)
  BY DEF CountNewTarget, Ratio
<1>5. ConsensusTarget(target, p) = AtMost((target * Span(p)) \div EpochTime, InitialTarget)
  BY DEF ConsensusTarget, Span
<1>6. QED
  BY <1>3, <1>4, <1>5

-----------------------------------------------------------------------------
(* The targets required of an epoch, in Retarget. *)

\* The target of an epoch is a word of at least four bytes.
LEMMA EpochTargetFacts ==
    ASSUME NEW target \in EpochTarget
    PROVE  target \in Word /\ target >= Pow[3]
<1>1. Width \in Nat /\ Width >= 3 /\ Pow[Width] \in Nat /\ Pow[3] \in Nat
  BY TargetsAssumption, PowFacts
<1>2. target \in Nat /\ target >= Pow[3] /\ target <= InitialTarget
  <2>1. PICK length \in 0..Width, coefficient \in 1..(Pow[3] - 1) :
            target = BitsToTarget(length, coefficient)
    BY DEF EpochTarget, Expressible
  <2>2. BitsToTarget(length, coefficient) \in Nat
    <3>1. coefficient \in Nat
      BY <1>1
    <3>2. CASE length >= 3
      <4>1. length - 3 \in 0..Width
        BY <1>1, <3>2
      <4>2. Pow[length - 3] \in Nat
        BY <4>1, PowFacts
      <4>3. coefficient * Pow[length - 3] \in Nat
        BY <3>1, <4>2
      <4>4. QED
        BY <3>2, <4>3 DEF BitsToTarget
    <3>3. CASE length < 3
      <4>1. 3 - length \in 0..Width
        BY <1>1, <3>3
      <4>2. Pow[3 - length] \in Nat /\ Pow[3 - length] > 0
        BY <4>1, PowFacts
      <4>3. coefficient \div Pow[3 - length] \in Nat
        BY <3>1, <4>2
      <4>4. QED
        BY <3>3, <4>3 DEF BitsToTarget
    <3>4. QED
      BY <3>2, <3>3
  <2>3. QED
    BY <2>1, <2>2 DEF EpochTarget
<1>3. QED
  BY <1>1, <1>2, TargetsAssumption, InitialTargetAssumption DEF Word

\* Retargeting is consensus outside the two exceptions.
LEMMA RoundedIsConsensus ==
    ASSUME EpochTime % 4 = 0, Byte >= 4, InitialTarget >= Pow[3],
           NEW target \in Word, target >= Pow[3], NEW p \in Nat,
           (p * FixedPoint) % EpochTime = 0,
           TopByte(CountNewTarget(target, p)) # SignByte
    PROVE  RoundTarget(CountNewTarget(target, p)) = ConsensusRetarget(target, p)
<1> DEFINE t == CountNewTarget(target, p)
<1>0. Width \in Nat /\ Width >= 3 /\ target \in Nat
  BY TargetsAssumption DEF Word
<1>1. t \in Word /\ t >= Pow[2]
  BY NewTargetLong
<1>2. Length(t) >= 3
  BY <1>1, ThreeBytes
<1>3. t = ConsensusTarget(target, p)
  BY <1>0, NewTargetIsConsensus
<1> HIDE DEF t
<1>4. RoundTarget(t) = Compact(t)
  BY <1>1, <1>2, RoundIsCompact DEF t
<1>5. QED
  BY <1>3, <1>4 DEF t, ConsensusRetarget

\* Whatever an epoch took, and for words and bytes of any size, the target
\* countNewRoundedTarget requires is not zero and has a compact form, so the
\* gateway never asks for a target no header can carry.
THEOREM RequiredIsExpressibleHolds == Spec => []RequiredIsExpressible
<1>1. RequiredIsExpressible
  <2> SUFFICES ASSUME NEW target \in EpochTarget, NEW p \in 0..MaxPassed
               PROVE  /\ CountNewRoundedTarget(target, p) > 0
                      /\ CountNewRoundedTarget(target, p) \in Expressible
    BY DEF RequiredIsExpressible
  <2> DEFINE t == CountNewTarget(target, p)
  <2>1. Byte >= 4 /\ EpochTime % 4 = 0 /\ InitialTarget >= Pow[3] /\ p \in Nat
        /\ target \in Word /\ target >= Pow[3]
    BY RetargetAssumption, EpochTargetFacts
  <2>2. t \in Word /\ t >= Pow[2]
    BY <2>1, NewTargetLong
  <2>3. Length(t) >= 3
    BY <2>2, ThreeBytes
  <2> HIDE DEF t
  <2>4. /\ RoundTarget(t) > 0
        /\ \E length \in 0..Width, coefficient \in 1..(Pow[3] - 1) :
              BitsToTarget(length, coefficient) = RoundTarget(t)
    BY <2>2, <2>3, RoundedIsExpressible, RoundAgain
  <2>5. QED
    BY <2>4 DEF t, CountNewRoundedTarget, Expressible
<1>2. QED
  BY <1>1, PTL

\* And it is the target of Bitcoin's consensus, but for a first byte of exactly
\* 0x80 and an epoch time whose ratio the fixed point rounds.
THEOREM RequiredIsConsensusHolds == Spec => []RequiredIsConsensusElsewhere
<1>1. RequiredIsConsensusElsewhere
  <2> SUFFICES ASSUME NEW target \in EpochTarget, NEW p \in 0..MaxPassed,
                      TopByte(CountNewTarget(target, p)) # SignByte,
                      (p * FixedPoint) % EpochTime = 0
               PROVE  CountNewRoundedTarget(target, p) = ConsensusRetarget(target, p)
    BY DEF RequiredIsConsensusElsewhere
  <2>1. Byte >= 4 /\ EpochTime % 4 = 0 /\ InitialTarget >= Pow[3] /\ p \in Nat
        /\ target \in Word /\ target >= Pow[3]
    BY RetargetAssumption, EpochTargetFacts
  <2>2. QED
    BY <2>1, RoundedIsConsensus DEF CountNewRoundedTarget
<1>2. QED
  BY <1>1, PTL

=============================================================================
