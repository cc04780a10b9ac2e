-------------------------- MODULE BTCChannels_proofs --------------------------
(***************************************************************************)
(* The custody of BTCChannels for every set of LPs, outpoints, keys and    *)
(* swaps, and every bound on amounts.  None of the parts of the custody    *)
(* invariant is inductive alone: a counter stays the sum of the open       *)
(* channels only if no call touches a channel that was never opened, and   *)
(* that holds only if the outpoint of an opened channel is real.  On it    *)
(* rest the share ledger and the swap-outs: the vBTC supply is the sum of  *)
(* its balances, an obligation is settled once, and the dollars Core keeps *)
(* pending cover what undelivered swappers are owed.                       *)
(***************************************************************************)
EXTENDS BTCChannels, FiniteSetTheorems, TLAPS

-----------------------------------------------------------------------------
(* What an update of a function does to its Total. *)

\* One column of units is as large as the value it stands for.
LEMMA ColumnCardinality ==
    ASSUME NEW x, NEW n \in Nat
    PROVE  IsFiniteSet({x} \X (1..n)) /\ Cardinality({x} \X (1..n)) = n
<1>1. IsFiniteSet(1..n) /\ Cardinality(1..n) = n
  BY FS_Interval
<1>2. IsFiniteSet({x}) /\ Cardinality({x}) = 1
  BY FS_Singleton
<1>3. QED
  BY <1>1, <1>2, FS_Product

\* A function on a finite set has finitely many units.
LEMMA UnitsFinite ==
    ASSUME NEW S, IsFiniteSet(S), NEW f \in [S -> Nat]
    PROVE  IsFiniteSet(Units(f, S))
<1> DEFINE T == {{x} \X (1..f[x]) : x \in S}
           g == [x \in S |-> {x} \X (1..f[x])]
<1>1. g \in Surjection(S, T)
  BY DEF Surjection
<1>2. IsFiniteSet(T)
  BY <1>1, FS_Surjection
<1>3. ASSUME NEW t \in T PROVE IsFiniteSet(t)
  <2>1. PICK x \in S : t = {x} \X (1..f[x])
    OBVIOUS
  <2>2. f[x] \in Nat
    OBVIOUS
  <2>3. QED
    BY <2>1, <2>2, ColumnCardinality
<1>4. IsFiniteSet(UNION T)
  BY <1>2, <1>3, FS_UNION
<1>5. QED
  BY <1>4 DEF Units

\* A total is a natural number, and no column is larger than it.
LEMMA TotalType ==
    ASSUME NEW S, IsFiniteSet(S), NEW f \in [S -> Nat]
    PROVE  Total(f, S) \in Nat /\ \A x \in S : f[x] <= Total(f, S)
<1>1. IsFiniteSet(Units(f, S))
  BY UnitsFinite
<1>2. Total(f, S) \in Nat
  BY <1>1, FS_CardinalityType DEF Total
<1>3. ASSUME NEW x \in S PROVE f[x] <= Total(f, S)
  <2>1. {x} \X (1..f[x]) \in SUBSET Units(f, S)
    BY DEF Units
  <2>2. f[x] \in Nat
    OBVIOUS
  <2>3. Cardinality({x} \X (1..f[x])) = f[x]
    BY <2>2, ColumnCardinality
  <2>4. QED
    BY <1>1, <2>1, <2>3, FS_Subset DEF Total
<1>4. QED
  BY <1>2, <1>3

\* A function that is zero everywhere has total zero.
LEMMA TotalZero ==
    ASSUME NEW S, NEW f \in [S -> Nat], \A x \in S : f[x] = 0
    PROVE  Total(f, S) = 0
<1>1. Units(f, S) = {}
  BY DEF Units
<1>2. QED
  BY <1>1, FS_EmptySet DEF Total

\* The total splits into the column of one element and the rest.
LEMMA TotalSplit ==
    ASSUME NEW S, IsFiniteSet(S), NEW f \in [S -> Nat], NEW x \in S
    PROVE  /\ Total(f, S \ {x}) \in Nat
           /\ Total(f, S) = Total(f, S \ {x}) + f[x]
<1> DEFINE rest == Units(f, S \ {x})
           col == {x} \X (1..f[x])
<1>1. f[x] \in Nat
  OBVIOUS
<1>2. IsFiniteSet(col) /\ Cardinality(col) = f[x]
  BY <1>1, ColumnCardinality
<1>3. Units(f, S) = rest \cup col
  BY DEF Units
<1>4. rest \in SUBSET Units(f, S)
  BY <1>3
<1>5. IsFiniteSet(rest)
  BY <1>4, UnitsFinite, FS_Subset
<1>6. rest \cap col = {}
  BY DEF Units
<1>7. Cardinality(rest \cap col) = 0
  BY <1>6, FS_EmptySet
<1>8. Cardinality(rest) \in Nat
  BY <1>5, FS_CardinalityType
<1>9. Cardinality(rest \cup col) = Cardinality(rest) + Cardinality(col) - Cardinality(rest \cap col)
  BY <1>2, <1>5, FS_Union
<1>10. QED
  BY <1>1, <1>2, <1>3, <1>7, <1>8, <1>9 DEF Total

\* Changing one column changes the total by as much: the step every running
\* counter of the contracts takes.
THEOREM TotalUpdate ==
    ASSUME NEW S, IsFiniteSet(S), NEW f \in [S -> Nat], NEW g \in [S -> Nat],
           NEW x \in S, \A y \in S \ {x} : g[y] = f[y]
    PROVE  /\ Total(f, S) \in Nat /\ Total(g, S) \in Nat
           /\ Total(g, S) + f[x] = Total(f, S) + g[x]
<1>1. Units(g, S \ {x}) = Units(f, S \ {x})
  BY DEF Units
<1>2. Total(g, S \ {x}) = Total(f, S \ {x})
  BY <1>1 DEF Total
<1>3. f[x] \in Nat /\ g[x] \in Nat
  OBVIOUS
<1>4. /\ Total(f, S \ {x}) \in Nat
      /\ Total(f, S) = Total(f, S \ {x}) + f[x]
  BY TotalSplit
<1>5. Total(g, S) = Total(g, S \ {x}) + g[x]
  BY TotalSplit
<1>6. QED
  BY <1>2, <1>3, <1>4, <1>5

\* Functions that agree on S have the same total.
LEMMA TotalSame ==
    ASSUME NEW S, NEW f, NEW g, \A y \in S : g[y] = f[y]
    PROVE  Total(g, S) = Total(f, S)
<1>1. Units(g, S) = Units(f, S)
  BY DEF Units
<1>2. QED
  BY <1>1 DEF Total

-----------------------------------------------------------------------------
(***************************************************************************)
(* Four actions move a channel to a new outpoint; three close it.  What    *)
(* the custody part of the proof needs of each family is stated once.      *)
(***************************************************************************)
Moves(c, o, sats, keys, rungs, hi) ==
    /\ WhenOpen(c) /\ TxSpendsChannel(c)
    /\ MoveChannel(c, o, sats, keys)
    /\ totalSatsLocked' \in Nat
    /\ totalSatsLocked' + channels[c].amountSats = totalSatsLocked + sats
    /\ ArmLadder(c, o, rungs, hi)
    /\ sats >= channels[c].amountSats \/ pendingClaimSats[c] = 0
    /\ UNCHANGED <<hasOpenBtcChannel, pendingClaimSats>>

Closes(c) == WhenOpen(c) /\ TxSpendsChannel(c) /\ FinalizeClose(c)

\* An opened channel is one whose record names an LP.
USE DEF Known

-----------------------------------------------------------------------------
(* Types. *)

\* A channel record with new fields is a channel record.
LEMMA MovedRecord ==
    ASSUME NEW ch \in ChannelRecord, NEW o \in Outpoint, NEW sats \in 0..MaxSats,
           NEW keys \in Key
    PROVE  [ch EXCEPT !.outpoint = o, !.amountSats = sats, !.keysHash = keys] \in ChannelRecord
BY DEF ChannelRecord

\* A closed channel record is a channel record.
LEMMA ClosedRecord ==
    ASSUME NEW ch \in ChannelRecord
    PROVE  [ch EXCEPT !.status = STATUS_CLOSED] \in ChannelRecord
BY DEF ChannelRecord

\* The fields of a record read out of storage have their types.
LEMMA FieldTypes ==
    ASSUME TypeOK, NEW c \in Outpoint
    PROVE  /\ channels[c] \in ChannelRecord
           /\ channels[c].amountSats \in 0..MaxSats
           /\ channels[c].amountSats \in Nat
           /\ channels[c].outpoint \in Outpoint \cup {NoOutpoint}
           /\ channels[c].lpEth \in Account
           /\ channels[c].status \in {STATUS_OPEN, STATUS_CLOSED}
           /\ channels[c].keysHash \in Key \cup {NoKey}
BY ConstantsAssumption DEF TypeOK, ChannelRecord, Account

\* Arming a ladder keeps the types of the ladder variables.
LEMMA TypeArm ==
    ASSUME TypeOK, NEW c \in Outpoint, NEW o \in Outpoint, NEW rungs \in Ladders,
           NEW hi \in Checkpoint, ArmLadder(c, o, rungs, hi)
    PROVE  /\ exitArmedOnOutpoint' \in [Outpoint -> SUBSET Deadline]
           /\ checkpointOf' \in [Outpoint -> Nat]
           /\ paidOutSinceCheckpoint' \in [Outpoint -> Nat]
BY ConstantsAssumption DEF ArmLadder, Ladders, TypeOK

\* What a splice or delivery does to the types of the custody variables.
LEMMA TypeMoves ==
    ASSUME TypeOK, NEW c \in Outpoint, NEW o \in Outpoint, NEW sats \in 0..MaxSats,
           NEW keys \in Key, NEW rungs \in Ladders, NEW hi \in Checkpoint,
           Moves(c, o, sats, keys, rungs, hi)
    PROVE  /\ channels' \in [Outpoint -> ChannelRecord]
           /\ fundingOutpointUsed' \subseteq Outpoint
           /\ totalSatsLocked' \in Nat
           /\ hasOpenBtcChannel' \subseteq LP
           /\ exitArmedOnOutpoint' \in [Outpoint -> SUBSET Deadline]
           /\ checkpointOf' \in [Outpoint -> Nat]
           /\ paidOutSinceCheckpoint' \in [Outpoint -> Nat]
           /\ pendingClaimSats' \in [Outpoint -> 0..MaxSats]
<1>1. channels' \in [Outpoint -> ChannelRecord]
  BY MovedRecord DEF Moves, MoveChannel, TypeOK
<1>2. QED
  BY <1>1, ConstantsAssumption DEF Moves, MoveChannel, UseOutpoint, ArmLadder, Ladders, TypeOK

\* What the range releases leaves the pool within its bound, and so does what it
\* pairs.
LEMMA ReleaseType ==
    ASSUME TypeOK, NEW usd \in Nat, pooledUsd >= usd, ReleaseDollars(pooledUsd - usd)
    PROVE  pooledUsd' \in 0..MaxPoolUsd
<1>1. pooledUsd \in Nat /\ pooledUsd <= MaxPoolUsd /\ MaxPoolUsd \in Nat
  BY ConstantsAssumption DEF TypeOK
<1>2. QED
  BY <1>1 DEF ReleaseDollars

LEMMA PairType ==
    ASSUME TypeOK, PairDollars
    PROVE  pooledUsd' \in 0..MaxPoolUsd
<1>1. pooledUsd \in Nat /\ MaxPoolUsd \in Nat
  BY ConstantsAssumption DEF TypeOK
<1>2. QED
  BY <1>1 DEF PairDollars

\* So does a credit.
LEMMA CreditType ==
    ASSUME TypeOK, NEW minUsd, CreditSwapIn(minUsd)
    PROVE  pooledUsd' \in 0..MaxPoolUsd
<1>1. pooledUsd \in Nat /\ MaxPoolUsd \in Nat
  BY ConstantsAssumption DEF TypeOK
<1>2. PICK held \in pooledUsd..MaxPoolUsd : \E filled \in 0..held : \E sent \in 0..filled :
          pooledUsd' = held - sent
  BY DEF CreditSwapIn
<1>3. PICK filled \in 0..held : \E sent \in 0..filled : pooledUsd' = held - sent
  BY <1>2
<1>4. PICK sent \in 0..filled : pooledUsd' = held - sent
  BY <1>3
<1>5. QED
  BY <1>1, <1>4

\* Vault.resize keeps the share ledger well typed.
LEMMA TypeResize ==
    ASSUME TypeOK, NEW lp \in Account, NEW n \in Nat, NEW usd \in Nat, Resize(lp, n, usd)
    PROVE  /\ pooled' \in [Account -> Nat] /\ lpShares' \in Nat
           /\ pendingSwapOutUsd' \in Nat /\ pooledUsd' \in 0..MaxPoolUsd
<1>1. CASE pooled[lp] = 0
  BY <1>1 DEF Resize, shares, dollars, TypeOK
<1>2. CASE pooled[lp] # 0
  <2> DEFINE removed == Least(n, pooled[lp])
  <2>1. removed \in Nat /\ removed <= pooled[lp]
    BY DEF Least, TypeOK
  <2>2. pooledUsd' \in 0..MaxPoolUsd
    BY <1>2, ReleaseType DEF Resize
  <2>3. QED
    BY <1>2, <2>1, <2>2 DEF Resize, SubPendingSwapOut, TypeOK
<1>3. QED
  BY <1>1, <1>2

\* Closing keeps every type.
LEMMA TypeFinalizeClose ==
    ASSUME TypeOK, NEW c \in Outpoint, FinalizeClose(c)
    PROVE  TypeOK'
<1>1. channels' \in [Outpoint -> ChannelRecord]
  BY ClosedRecord DEF FinalizeClose, TypeOK
<1>2. totalSatsLocked' \in Nat
  BY FieldTypes DEF FinalizeClose, TypeOK
<1>3. pooled' \in [Account -> Nat] /\ lpShares' \in Nat
  BY FieldTypes DEF FinalizeClose, RequestRedeem, TypeOK, shares
<1>4. hasOpenBtcChannel' \subseteq LP
  BY DEF FinalizeClose, FreeLp, TypeOK
<1>5. pendingClaimSats' \in [Outpoint -> 0..MaxSats]
  BY ConstantsAssumption DEF FinalizeClose, TypeOK
<1>6. pooledUsd' \in 0..MaxPoolUsd
  <2>1. pooledUsd - 0 = pooledUsd /\ pooledUsd >= 0
    BY DEF TypeOK
  <2>2. ReleaseDollars(pooledUsd) \/ pooledUsd' = pooledUsd
    BY DEF FinalizeClose, RequestRedeem
  <2>3. QED
    BY <2>1, <2>2, ReleaseType DEF TypeOK
<1>7. QED
  BY <1>1, <1>2, <1>3, <1>4, <1>5, <1>6 DEF FinalizeClose, TypeOK, ladders, swaps

\* Discharging a swap-out keeps the types of the swap variables.
LEMMA TypeDischarge ==
    ASSUME TypeOK, NEW s \in Swap, Discharge(s)
    PROVE  /\ swapInUsed' \subseteq Ids /\ swapOutUsed' \subseteq Swap
           /\ pendingOnchainSwapOut' \in [Swap -> SwapOutRecord]
           /\ discharged' \in [Swap -> Nat] /\ credited' \in [Deposit -> Nat]
<1>1. NoSwapOut \in SwapOutRecord
  BY ConstantsAssumption DEF NoSwapOut, SwapOutRecord
<1>2. QED
  BY <1>1 DEF Discharge, TypeOK, Ids

\* A splice that grows the channel is a Moves step.
LEMMA GrowMoves ==
    ASSUME TypeOK, NEW c \in Outpoint, NEW o \in Outpoint, NEW sats \in SatsLeft,
           NEW keys \in Key, NEW rungs \in Ladders, NEW hi \in Checkpoint,
           SpliceGrow(c, o, sats, keys, rungs, hi)
    PROVE  Moves(c, o, sats, keys, rungs, hi)
<1>1. sats \in Nat /\ totalSatsLocked \in Nat /\ channels[c].amountSats \in Nat
  BY FieldTypes DEF SatsLeft, TypeOK
<1>2. QED
  BY <1>1 DEF SpliceGrow, Moves, RequestDeposit

\* A splice that withdraws is a Moves step.
LEMMA ShrinkMoves ==
    ASSUME TypeOK, NEW c \in Outpoint, NEW o \in Outpoint, NEW sats \in SatsLeft,
           NEW keys \in Key, NEW rungs \in Ladders, NEW hi \in Checkpoint,
           SpliceShrink(c, o, sats, keys, rungs, hi)
    PROVE  Moves(c, o, sats, keys, rungs, hi)
<1>1. sats \in Nat /\ totalSatsLocked \in Nat /\ channels[c].amountSats \in Nat
  BY FieldTypes DEF SatsLeft, TypeOK
<1>2. QED
  BY <1>1 DEF SpliceShrink, Moves, RequireClaimRegistered

\* A key rotation is a Moves step at the same amount.
LEMMA RekeyMoves ==
    ASSUME TypeOK, NEW c \in Outpoint, NEW o \in Outpoint,
           NEW keys \in Key, NEW rungs \in Ladders, NEW hi \in Checkpoint,
           SpliceRekey(c, o, keys, rungs, hi)
    PROVE  Moves(c, o, channels[c].amountSats, keys, rungs, hi)
<1>1. totalSatsLocked \in Nat /\ channels[c].amountSats \in Nat
  BY FieldTypes DEF TypeOK
<1>2. QED
  BY <1>1 DEF SpliceRekey, Moves

\* A swap-out delivery is a Moves step.
LEMMA DeliverMoves ==
    ASSUME TypeOK, NEW s \in Swap, NEW c \in Outpoint, NEW o \in Outpoint, NEW sats \in SatsLeft,
           NEW keys \in Key, NEW rungs \in Ladders, NEW hi \in Checkpoint,
           DeliverSwapOutOnchain(s, c, o, sats, keys, rungs, hi)
    PROVE  Moves(c, o, sats, keys, rungs, hi)
<1>1. sats \in Nat /\ totalSatsLocked \in Nat /\ channels[c].amountSats \in Nat
  BY FieldTypes DEF SatsLeft, TypeOK
<1>2. QED
  BY <1>1 DEF DeliverSwapOutOnchain, Moves, RequireClaimRegistered

\* Initial storage is well typed.
LEMMA TypeInit == Init => TypeOK
<1>1. ZeroChannel \in ChannelRecord
  BY ConstantsAssumption DEF ZeroChannel, ChannelRecord, STATUS_OPEN
<1>2. NoSwapOut \in SwapOutRecord
  BY ConstantsAssumption DEF NoSwapOut, SwapOutRecord
<1>3. QED
  BY <1>1, <1>2, ConstantsAssumption DEF Init, TypeOK, Account

\* Every external call leaves every storage slot well typed; in particular no
\* counter is ever decremented below zero.
LEMMA TypeStep == TypeOK /\ [Next]_vars => TypeOK'
<1> SUFFICES ASSUME TypeOK, [Next]_vars PROVE TypeOK'
  OBVIOUS
<1> Sats \subseteq 0..MaxSats /\ Sats \subseteq Nat /\ SatsLeft \subseteq 0..MaxSats
  BY ConstantsAssumption DEF Sats, SatsLeft
<1>1. ASSUME NEW lp \in LP, NEW c \in Outpoint, NEW sats \in Sats, NEW keys \in Key,
             NEW rungs \in Ladders, NEW hi \in Checkpoint, NEW deposited \in BOOLEAN,
             OpenChannel(lp, c, sats, keys, rungs, hi, deposited)
      PROVE  TypeOK'
  <2> DEFINE ch == [amountSats |-> sats, outpoint |-> c, lpEth |-> lp,
                    status |-> STATUS_OPEN, keysHash |-> keys]
  <2>1. ch \in ChannelRecord
    BY DEF ChannelRecord
  <2>2. channels' \in [Outpoint -> ChannelRecord]
    BY <1>1, <2>1 DEF OpenChannel, TypeOK
  <2>3. pooled' \in [Account -> Nat] /\ lpShares' \in Nat
    BY <1>1 DEF OpenChannel, RequestDeposit, TypeOK, shares, Account
  <2>4. pendingClaimSats' \in [Outpoint -> 0..MaxSats]
    BY <1>1 DEF OpenChannel, TypeOK
  <2>5. /\ exitArmedOnOutpoint' \in [Outpoint -> SUBSET Deadline]
        /\ checkpointOf' \in [Outpoint -> Nat]
        /\ paidOutSinceCheckpoint' \in [Outpoint -> Nat]
    <3>1. ArmLadder(c, c, rungs, hi)
      BY <1>1 DEF OpenChannel
    <3>2. QED
      BY <3>1, TypeArm
  <2>6. fundingOutpointUsed' \subseteq Outpoint /\ hasOpenBtcChannel' \subseteq LP
        /\ totalSatsLocked' \in Nat
    BY <1>1 DEF OpenChannel, UseOutpoint, TypeOK
  <2>7. pooledUsd' \in 0..MaxPoolUsd
    <3>1. PairDollars \/ pooledUsd' = pooledUsd
      BY <1>1 DEF OpenChannel, RequestDeposit
    <3>2. QED
      BY <3>1, PairType DEF TypeOK
  <2>8. QED
    BY <1>1, <2>2, <2>3, <2>4, <2>5, <2>6, <2>7 DEF OpenChannel, TypeOK, swaps
<1>2. ASSUME NEW c \in Outpoint, RegisterChannelClaim(c)
      PROVE  TypeOK'
  <2> DEFINE sats == Least(pendingClaimSats[c], channels[c].amountSats)
  <2>1. sats \in Nat /\ channels[c].lpEth \in Account
    BY FieldTypes, ConstantsAssumption DEF TypeOK, Least
  <2>2. pooled' \in [Account -> Nat] /\ lpShares' \in Nat
    BY <1>2, <2>1 DEF RegisterChannelClaim, RequestDeposit, TypeOK
  <2>3. pendingClaimSats' \in [Outpoint -> 0..MaxSats]
    BY <1>2, ConstantsAssumption DEF RegisterChannelClaim, TypeOK
  <2>4. pooledUsd' \in 0..MaxPoolUsd
    BY <1>2, PairType DEF RegisterChannelClaim, RequestDeposit
  <2>5. QED
    BY <1>2, <2>2, <2>3, <2>4 DEF RegisterChannelClaim, TypeOK, custody, ladders, swaps
<1>3. ASSUME NEW c \in Outpoint, NEW o \in Outpoint, NEW sats \in SatsLeft, NEW keys \in Key,
             NEW rungs \in Ladders, NEW hi \in Checkpoint,
             SpliceGrow(c, o, sats, keys, rungs, hi)
      PROVE  TypeOK'
  <2>1. Moves(c, o, sats, keys, rungs, hi)
    BY <1>3, GrowMoves
  <2>2. pooled' \in [Account -> Nat] /\ lpShares' \in Nat /\ pooledUsd' \in 0..MaxPoolUsd
    <3>1. sats \in Nat /\ channels[c].amountSats \in Nat /\ sats > channels[c].amountSats
          /\ channels[c].lpEth \in Account
          /\ RequestDeposit(channels[c].lpEth, sats - channels[c].amountSats)
      BY <1>3, FieldTypes DEF SpliceGrow, SatsLeft
    <3>2. sats - channels[c].amountSats \in Nat
      BY <3>1
    <3>3. QED
      BY <3>1, <3>2, PairType DEF RequestDeposit, TypeOK
  <2>3. swapInUsed' = swapInUsed /\ swapOutUsed' = swapOutUsed /\ discharged' = discharged
        /\ delivered' = delivered /\ credited' = credited
        /\ pendingOnchainSwapOut' = pendingOnchainSwapOut
        /\ pendingSwapOutUsd' = pendingSwapOutUsd
    BY <1>3 DEF SpliceGrow, swaps
  <2>4. QED
    BY <2>1, <2>2, <2>3, TypeMoves DEF TypeOK
<1>4. ASSUME NEW c \in Outpoint, NEW o \in Outpoint, NEW sats \in SatsLeft, NEW keys \in Key,
             NEW rungs \in Ladders, NEW hi \in Checkpoint,
             SpliceShrink(c, o, sats, keys, rungs, hi)
      PROVE  TypeOK'
  <2>1. Moves(c, o, sats, keys, rungs, hi)
    BY <1>4, ShrinkMoves
  <2>2. channels[c].amountSats - sats \in Nat /\ channels[c].lpEth \in Account
    <3>1. sats < channels[c].amountSats
      BY <1>4 DEF SpliceShrink
    <3>2. channels[c].amountSats \in Nat /\ channels[c].lpEth \in Account
      BY FieldTypes
    <3>3. sats \in Nat
      BY ConstantsAssumption DEF SatsLeft
    <3>4. QED
      BY <3>1, <3>2, <3>3
  <2>3. pooled' \in [Account -> Nat] /\ lpShares' \in Nat /\ pendingSwapOutUsd' \in Nat
        /\ pooledUsd' \in 0..MaxPoolUsd
    BY <1>4, <2>2, TypeResize DEF SpliceShrink
  <2>4. swapInUsed' = swapInUsed /\ swapOutUsed' = swapOutUsed /\ discharged' = discharged
        /\ delivered' = delivered /\ credited' = credited
        /\ pendingOnchainSwapOut' = pendingOnchainSwapOut
    BY <1>4 DEF SpliceShrink, swaps
  <2>5. QED
    BY <2>1, <2>3, <2>4, TypeMoves DEF TypeOK
<1>5. ASSUME NEW c \in Outpoint, NEW o \in Outpoint, NEW keys \in Key,
             NEW rungs \in Ladders, NEW hi \in Checkpoint,
             SpliceRekey(c, o, keys, rungs, hi)
      PROVE  TypeOK'
  <2>1. Moves(c, o, channels[c].amountSats, keys, rungs, hi)
    BY <1>5, RekeyMoves
  <2>2. channels[c].amountSats \in 0..MaxSats
    BY FieldTypes
  <2>3. QED
    BY <1>5, <2>1, <2>2, TypeMoves DEF SpliceRekey, TypeOK, swaps, shares, dollars
<1>6. ASSUME NEW c \in Outpoint, NEW keys \in Key, NEW d \in Deadline, NEW hi \in Checkpoint,
             EmitDeadManExit(c, keys, d, hi)
      PROVE  TypeOK'
  BY <1>6, ConstantsAssumption
     DEF EmitDeadManExit, ArmLadder, TypeOK, custody, swaps, shares, dollars
<1>7. ASSUME NEW c \in Outpoint, NEW keys \in Key, NEW coop \in BOOLEAN,
             NEW paid \in 0..MaxSats, NEW byLp \in BOOLEAN,
             RecordClose(c, keys, coop, paid, byLp)
      PROVE  TypeOK'
  BY <1>7, TypeFinalizeClose DEF RecordClose
<1>8. ASSUME NEW c \in Outpoint, NEW keys \in Key, NEW d \in Deadline,
             RecordDeadManExit(c, keys, d)
      PROVE  TypeOK'
  BY <1>8, TypeFinalizeClose DEF RecordDeadManExit
<1>9. ASSUME NEW c \in Outpoint, RecordForceClosePermissionless(c)
      PROVE  TypeOK'
  BY <1>9, TypeFinalizeClose DEF RecordForceClosePermissionless
<1>10. ASSUME NEW d \in Deposit, NEW floorUsd \in 0..MaxUsd, SettleSwapInProven(d, floorUsd)
       PROVE  TypeOK'
  <2>1. pooledUsd' \in 0..MaxPoolUsd
    BY <1>10, CreditType DEF SettleSwapInProven
  <2>2. QED
    BY <1>10, <2>1 DEF SettleSwapInProven, TypeOK, Ids, custody, ladders, shares
<1>11. ASSUME NEW s \in Swap, NEW sats \in Sats, NEW usd \in 1..MaxUsd,
              RequestSwapOutOnchain(s, sats, usd)
       PROVE  TypeOK'
  <2>1. [sats |-> sats, usd |-> usd, expired |-> FALSE] \in SwapOutRecord
    BY ConstantsAssumption DEF SwapOutRecord
  <2>2. pooledUsd' \in 0..MaxPoolUsd
    <3>1. pooledUsd \in Nat /\ usd \in Nat /\ MaxPoolUsd \in Nat
      BY ConstantsAssumption DEF TypeOK
    <3>2. QED
      BY <1>11, <3>1 DEF RequestSwapOutOnchain
  <2>3. QED
    BY <1>11, <2>1, <2>2, ConstantsAssumption
       DEF RequestSwapOutOnchain, AddPendingSwapOut, TypeOK, custody, ladders, shares
<1>12. ASSUME NEW s \in Swap, BlocksPass(s)
       PROVE  TypeOK'
  <2>1. [pendingOnchainSwapOut[s] EXCEPT !.expired = TRUE] \in SwapOutRecord
    BY DEF TypeOK, SwapOutRecord
  <2>2. QED
    BY <1>12, <2>1 DEF BlocksPass, TypeOK, custody, ladders, shares, dollars
<1>13. ASSUME NEW s \in Swap, NEW minUsd, ReturnDollars(s, minUsd)
       PROVE  TypeOK'
  <2>1. pendingOnchainSwapOut[s].usd \in Nat
    BY ConstantsAssumption DEF TypeOK, SwapOutRecord
  <2>2. pendingSwapOutUsd' \in Nat
    BY <1>13, <2>1 DEF ReturnDollars, SubPendingSwapOut, TypeOK
  <2>3. pooledUsd' \in 0..MaxPoolUsd
    BY <1>13, CreditType DEF ReturnDollars
  <2>4. QED
    BY <1>13, <2>2, <2>3, TypeDischarge DEF ReturnDollars, TypeOK, custody, ladders, shares
<1>14. ASSUME NEW s \in Swap, NEW c \in Outpoint, NEW o \in Outpoint, NEW sats \in SatsLeft,
              NEW keys \in Key, NEW rungs \in Ladders, NEW hi \in Checkpoint,
              DeliverSwapOutOnchain(s, c, o, sats, keys, rungs, hi)
       PROVE  TypeOK'
  <2>1. Moves(c, o, sats, keys, rungs, hi)
    BY <1>14, DeliverMoves
  <2>2. channels[c].amountSats - sats \in Nat /\ channels[c].lpEth \in Account
    <3>1. sats < channels[c].amountSats
      BY <1>14 DEF DeliverSwapOutOnchain
    <3>2. channels[c].amountSats \in Nat /\ channels[c].lpEth \in Account
      BY FieldTypes
    <3>3. sats \in Nat
      BY ConstantsAssumption DEF SatsLeft
    <3>4. QED
      BY <3>1, <3>2, <3>3
  <2>3. pendingOnchainSwapOut[s].usd \in Nat
    BY ConstantsAssumption DEF TypeOK, SwapOutRecord
  <2>4. pooled' \in [Account -> Nat] /\ lpShares' \in Nat /\ pendingSwapOutUsd' \in Nat
        /\ pooledUsd' \in 0..MaxPoolUsd
    BY <1>14, <2>2, <2>3, TypeResize DEF DeliverSwapOutOnchain
  <2>5. Discharge(s) /\ delivered' \subseteq Swap
    BY <1>14 DEF DeliverSwapOutOnchain, TypeOK
  <2>6. QED
    BY <2>1, <2>4, <2>5, TypeMoves, TypeDischarge DEF TypeOK
<1>15. ASSUME NEW from \in LP, NEW to \in LP, NEW amount \in 1..MaxTransfer,
              TransferShares(from, to, amount)
       PROVE  TypeOK'
  BY <1>15 DEF TransferShares, TypeOK, Account, custody, ladders, swaps, dollars
<1>16. ASSUME NEW usd \in 0..MaxPoolUsd, PoolMoves(usd)
       PROVE  TypeOK'
  BY <1>16 DEF PoolMoves, TypeOK, custody, ladders, swaps, shares
<1>17. CASE UNCHANGED vars
  BY <1>17 DEF vars, custody, ladders, swaps, shares, dollars, TypeOK
<1>18. QED
  BY <1>1, <1>2, <1>3, <1>4, <1>5, <1>6, <1>7, <1>8, <1>9, <1>10, <1>11, <1>12, <1>13,
     <1>14, <1>15, <1>16, <1>17 DEF Next, ReverseSwapOut, RefundExpiredSwapOut

\* Every storage slot keeps its type through every sequence of calls.
THEOREM TypeCorrect == Spec => []TypeOK
BY TypeInit, TypeStep, PTL DEF Spec

-----------------------------------------------------------------------------
(* The custody invariant. *)

\* An opened channel has an LP, an outpoint and keys.
KnownChannelRecord ==
    \A c \in Outpoint : Known(c) =>
        /\ channels[c].lpEth \in LP
        /\ channels[c].outpoint \in Outpoint
        /\ channels[c].keysHash \in Key

\* The inductive invariant.
CustodyInv ==
    /\ TypeOK
    /\ KnownChannelRecord
    /\ LockedIsSumOfOpen
    /\ OneOpenChannelPerLp
    /\ OutpointBacksOneChannel
    /\ UnknownChannelUntouched
    /\ DeferredClaimFits
    /\ OpenChannelHasLadder

-----------------------------------------------------------------------------
(* What each family of steps does to a record. *)

\* A ladder has two different rungs.
LEMMA LadderHasTwoRungs ==
    ASSUME NEW r \in Ladders
    PROVE  \E d, e \in r : d # e
<1>1. Cardinality(r) \in 2..MaxLadderRungs
  BY DEF Ladders
<1>2. Cardinality(r) # 0 /\ Cardinality(r) # 1
  BY <1>1, ConstantsAssumption
<1>3. r # {}
  BY <1>2, FS_EmptySet
<1>4. PICK d \in r : TRUE
  BY <1>3
<1>5. r # {d}
  BY <1>2, FS_Singleton
<1>6. QED
  BY <1>4, <1>5

\* A splice or delivery of an opened channel rewrites outpoint, amount and keys
\* of that channel and of no other.
LEMMA MovedFields ==
    ASSUME TypeOK, NEW c \in Outpoint, NEW o \in Outpoint, NEW sats \in 0..MaxSats,
           NEW keys \in Key, NEW rungs \in Ladders, NEW hi \in Checkpoint,
           Moves(c, o, sats, keys, rungs, hi)
    PROVE  /\ channels'[c].amountSats = sats
           /\ channels'[c].outpoint = o
           /\ channels'[c].keysHash = keys
           /\ channels'[c].lpEth = channels[c].lpEth
           /\ channels'[c].status = STATUS_OPEN
           /\ \A d \in Outpoint : d # c => channels'[d] = channels[d]
<1>1. channels[c] \in ChannelRecord /\ channels[c].status = STATUS_OPEN
  BY FieldTypes DEF Moves, WhenOpen
<1>2. channels'[c] = [channels[c] EXCEPT !.outpoint = o, !.amountSats = sats, !.keysHash = keys]
  BY DEF Moves, MoveChannel, TypeOK
<1>3. \A d \in Outpoint : d # c => channels'[d] = channels[d]
  BY DEF Moves, MoveChannel, TypeOK
<1>4. QED
  BY <1>1, <1>2, <1>3 DEF ChannelRecord

\* A close changes the status of its channel only.
LEMMA ClosedFields ==
    ASSUME TypeOK, NEW c \in Outpoint, Closes(c)
    PROVE  /\ channels'[c].amountSats = channels[c].amountSats
           /\ channels'[c].outpoint = channels[c].outpoint
           /\ channels'[c].keysHash = channels[c].keysHash
           /\ channels'[c].lpEth = channels[c].lpEth
           /\ channels'[c].status = STATUS_CLOSED
           /\ \A d \in Outpoint : d # c => channels'[d] = channels[d]
<1>1. channels[c] \in ChannelRecord
  BY FieldTypes
<1>2. channels'[c] = [channels[c] EXCEPT !.status = STATUS_CLOSED]
  BY DEF Closes, FinalizeClose, TypeOK
<1>3. \A d \in Outpoint : d # c => channels'[d] = channels[d]
  BY DEF Closes, FinalizeClose, TypeOK
<1>4. QED
  BY <1>1, <1>2, <1>3 DEF ChannelRecord

\* A transaction that spends a channel's outpoint names an opened channel.
LEMMA SpentIsOpen ==
    ASSUME CustodyInv, NEW c \in Outpoint, WhenOpen(c), TxSpendsChannel(c)
    PROVE  IsOpen(c)
BY DEF CustodyInv, UnknownChannelUntouched, ZeroChannel, WhenOpen, TxSpendsChannel, IsOpen

\* The summands of totalSatsLocked are natural numbers.
LEMMA OpenSatsType ==
    ASSUME TypeOK
    PROVE  OpenSats \in [Outpoint -> Nat]
BY FieldTypes DEF OpenSats

\* So are those of the next state.
LEMMA OpenSatsTypeNext ==
    ASSUME TypeOK'
    PROVE  OpenSats' \in [Outpoint -> Nat]
BY ConstantsAssumption DEF OpenSats, TypeOK, ChannelRecord

\* The five kinds of steps that touch custody or ladders, and the rest.
CustodyStep ==
    \/ \E lp \in LP, c \in Outpoint, sats \in Sats, keys \in Key,
          rungs \in Ladders, hi \in Checkpoint, deposited \in BOOLEAN :
          OpenChannel(lp, c, sats, keys, rungs, hi, deposited)
    \/ \E c \in Outpoint : RegisterChannelClaim(c)
    \/ \E c \in Outpoint, o \in Outpoint, sats \in 0..MaxSats, keys \in Key,
          rungs \in Ladders, hi \in Checkpoint : Moves(c, o, sats, keys, rungs, hi)
    \/ \E c \in Outpoint, keys \in Key, d \in Deadline, hi \in Checkpoint :
          EmitDeadManExit(c, keys, d, hi)
    \/ \E c \in Outpoint : Closes(c)
    \/ UNCHANGED <<custody, ladders, pendingClaimSats>>

\* Every external call is one of those steps.
LEMMA StepKinds ==
    ASSUME TypeOK, [Next]_vars
    PROVE  CustodyStep
<1> SatsLeft \subseteq 0..MaxSats
  BY DEF SatsLeft
<1>1. ASSUME NEW c \in Outpoint, NEW o \in Outpoint, NEW sats \in SatsLeft, NEW keys \in Key,
             NEW rungs \in Ladders, NEW hi \in Checkpoint,
             SpliceGrow(c, o, sats, keys, rungs, hi) \/ SpliceShrink(c, o, sats, keys, rungs, hi)
      PROVE  CustodyStep
  BY <1>1, GrowMoves, ShrinkMoves DEF CustodyStep
<1>2. ASSUME NEW c \in Outpoint, NEW o \in Outpoint, NEW keys \in Key,
             NEW rungs \in Ladders, NEW hi \in Checkpoint,
             SpliceRekey(c, o, keys, rungs, hi)
      PROVE  CustodyStep
  BY <1>2, RekeyMoves, FieldTypes DEF CustodyStep
<1>3. ASSUME NEW s \in Swap, NEW c \in Outpoint, NEW o \in Outpoint, NEW sats \in SatsLeft,
             NEW keys \in Key, NEW rungs \in Ladders, NEW hi \in Checkpoint,
             DeliverSwapOutOnchain(s, c, o, sats, keys, rungs, hi)
      PROVE  CustodyStep
  BY <1>3, DeliverMoves DEF CustodyStep
<1>4. ASSUME NEW c \in Outpoint, NEW keys \in Key, NEW coop \in BOOLEAN,
             NEW paid \in 0..MaxSats, NEW byLp \in BOOLEAN,
             RecordClose(c, keys, coop, paid, byLp)
      PROVE  CustodyStep
  BY <1>4 DEF RecordClose, Closes, CustodyStep
<1>5. ASSUME NEW c \in Outpoint, NEW keys \in Key, NEW d \in Deadline,
             RecordDeadManExit(c, keys, d)
      PROVE  CustodyStep
  BY <1>5 DEF RecordDeadManExit, Closes, CustodyStep
<1>6. ASSUME NEW c \in Outpoint, RecordForceClosePermissionless(c)
      PROVE  CustodyStep
  BY <1>6 DEF RecordForceClosePermissionless, Closes, CustodyStep
<1>7. ASSUME NEW d \in Deposit, NEW floorUsd \in 0..MaxUsd, SettleSwapInProven(d, floorUsd)
      PROVE  UNCHANGED <<custody, ladders, pendingClaimSats>>
  BY <1>7 DEF SettleSwapInProven
<1>8. ASSUME NEW s \in Swap, NEW sats \in Sats, NEW usd \in 1..MaxUsd,
             RequestSwapOutOnchain(s, sats, usd)
      PROVE  UNCHANGED <<custody, ladders, pendingClaimSats>>
  BY <1>8 DEF RequestSwapOutOnchain
<1>9. ASSUME NEW s \in Swap, NEW minUsd \in 0..MaxUsd,
             BlocksPass(s) \/ ReverseSwapOut(s) \/ RefundExpiredSwapOut(s, minUsd)
      PROVE  UNCHANGED <<custody, ladders, pendingClaimSats>>
  BY <1>9 DEF BlocksPass, ReverseSwapOut, RefundExpiredSwapOut, ReturnDollars
<1>10. ASSUME NEW from \in LP, NEW to \in LP, NEW amount \in 1..MaxTransfer,
              TransferShares(from, to, amount)
       PROVE  UNCHANGED <<custody, ladders, pendingClaimSats>>
  BY <1>10 DEF TransferShares
<1>11. ASSUME NEW usd \in 0..MaxPoolUsd, PoolMoves(usd)
       PROVE  UNCHANGED <<custody, ladders, pendingClaimSats>>
  BY <1>11 DEF PoolMoves
<1>12. CASE UNCHANGED vars
  BY <1>12 DEF vars, CustodyStep
<1>13. 0 \in 0..MaxUsd
  BY ConstantsAssumption
<1>14. QED
  BY <1>1, <1>2, <1>3, <1>4, <1>5, <1>6, <1>7, <1>8, <1>9, <1>10, <1>11, <1>12, <1>13
     DEF Next, CustodyStep

-----------------------------------------------------------------------------
(* Each kind of step preserves the invariant. *)

\* Initially no channel is open and nothing is locked.
LEMMA CustodyInit == Init => CustodyInv
<1> SUFFICES ASSUME Init PROVE CustodyInv
  OBVIOUS
<1>1. TypeOK
  BY TypeInit
<1>2. \A c \in Outpoint : channels[c] = ZeroChannel /\ ~Known(c) /\ ~IsOpen(c)
  BY DEF Init, ZeroChannel, IsOpen
<1>3. LockedIsSumOfOpen
  <2>1. \A c \in Outpoint : OpenSats[c] = 0
    BY <1>2 DEF OpenSats
  <2>2. Total(OpenSats, Outpoint) = 0
    BY <1>1, <2>1, OpenSatsType, TotalZero
  <2>3. QED
    BY <2>2 DEF Init, LockedIsSumOfOpen
<1>4. QED
  BY <1>1, <1>2, <1>3
     DEF Init, CustodyInv, KnownChannelRecord, OneOpenChannelPerLp, OutpointBacksOneChannel,
         UnknownChannelUntouched, DeferredClaimFits, OpenChannelHasLadder

\* openChannel
LEMMA CustodyOpen ==
    ASSUME CustodyInv, TypeOK',
           NEW lp \in LP, NEW c \in Outpoint, NEW sats \in Sats, NEW keys \in Key,
           NEW rungs \in Ladders, NEW hi \in Checkpoint, NEW deposited \in BOOLEAN,
           OpenChannel(lp, c, sats, keys, rungs, hi, deposited)
    PROVE  CustodyInv'
<1>1. TypeOK
  BY DEF CustodyInv
<1>2. sats \in Nat /\ sats # 0
  BY ConstantsAssumption DEF Sats
<1>3. ~Known(c) /\ ~IsOpen(c) /\ lp \notin hasOpenBtcChannel
      /\ c \notin fundingOutpointUsed
  BY DEF OpenChannel, UseOutpoint, IsOpen, CustodyInv, OutpointBacksOneChannel
<1>4. /\ channels'[c] = [amountSats |-> sats, outpoint |-> c, lpEth |-> lp,
                         status |-> STATUS_OPEN, keysHash |-> keys]
      /\ \A d \in Outpoint : d # c => channels'[d] = channels[d]
  BY <1>1 DEF OpenChannel, TypeOK
<1>5. IsOpen(c)' /\ \A d \in Outpoint : d # c => (IsOpen(d)' <=> IsOpen(d))
  BY <1>4, ConstantsAssumption DEF IsOpen
<1>6. KnownChannelRecord'
  BY <1>4 DEF CustodyInv, KnownChannelRecord
<1>7. LockedIsSumOfOpen'
  <2>1. OpenSats \in [Outpoint -> Nat] /\ OpenSats' \in [Outpoint -> Nat]
    BY <1>1, OpenSatsType, OpenSatsTypeNext
  <2>2. OpenSats[c] = 0 /\ OpenSats'[c] = sats
    BY <1>3, <1>4, <1>5 DEF OpenSats
  <2>3. \A d \in Outpoint \ {c} : OpenSats'[d] = OpenSats[d]
    BY <1>4, <1>5 DEF OpenSats
  <2>4. Total(OpenSats', Outpoint) + OpenSats[c] = Total(OpenSats, Outpoint) + OpenSats'[c]
        /\ Total(OpenSats', Outpoint) \in Nat
    BY <2>1, <2>3, TotalUpdate, ConstantsAssumption
  <2>5. totalSatsLocked' = totalSatsLocked + sats
    BY DEF OpenChannel
  <2>6. QED
    BY <1>1, <1>2, <2>2, <2>4, <2>5 DEF CustodyInv, LockedIsSumOfOpen, TypeOK
<1>8. OneOpenChannelPerLp'
  <2>1. hasOpenBtcChannel' = hasOpenBtcChannel \cup {lp}
    BY DEF OpenChannel
  <2>2. OneOpenChannelPerLp
    BY DEF CustodyInv
  <2>3. \A d \in Outpoint : IsOpen(d) => channels[d].lpEth # lp
    BY <1>3, <2>2 DEF OneOpenChannelPerLp
  <2>4. channels'[c].lpEth = lp
    BY <1>4
  <2>5. QED
    BY <1>3, <1>4, <1>5, <2>1, <2>2, <2>3, <2>4 DEF OneOpenChannelPerLp
<1>9. OutpointBacksOneChannel'
  <2>1. fundingOutpointUsed' = fundingOutpointUsed \cup {c}
    BY DEF OpenChannel, UseOutpoint
  <2>2. OutpointBacksOneChannel
    BY DEF CustodyInv
  <2>3. QED
    BY <1>3, <1>4, <2>1, <2>2 DEF OutpointBacksOneChannel
<1>10. UnknownChannelUntouched'
  <2>1. \A d \in Outpoint : d # c => pendingClaimSats'[d] = pendingClaimSats[d]
                                     /\ checkpointOf'[d] = checkpointOf[d]
    BY <1>1 DEF OpenChannel, ArmLadder, TypeOK
  <2>2. UnknownChannelUntouched
    BY DEF CustodyInv
  <2>3. channels'[c].lpEth # NoLp
    BY <1>2, <1>4, ConstantsAssumption
  <2>4. QED
    BY <1>4, <2>1, <2>2, <2>3 DEF UnknownChannelUntouched
<1>11. DeferredClaimFits'
  <2>1. \A d \in Outpoint : d # c => pendingClaimSats'[d] = pendingClaimSats[d]
    BY <1>1 DEF OpenChannel, TypeOK
  <2>2. pendingClaimSats[c] = 0
    BY <1>3 DEF CustodyInv, DeferredClaimFits, IsOpen
  <2>3. pendingClaimSats'[c] = 0 \/ pendingClaimSats'[c] = sats
    BY <1>1, <2>2 DEF OpenChannel, TypeOK
  <2>4. channels'[c].amountSats = sats
    BY <1>4
  <2>5. QED
    BY <1>2, <1>4, <1>5, <2>1, <2>3, <2>4 DEF CustodyInv, DeferredClaimFits
<1>12. OpenChannelHasLadder'
  <2>1. \A d \in Outpoint : exitArmedOnOutpoint[d] \subseteq exitArmedOnOutpoint'[d]
    BY <1>1 DEF OpenChannel, ArmLadder, TypeOK
  <2>2. rungs \subseteq exitArmedOnOutpoint'[c] /\ channels'[c].outpoint = c
    BY <1>1, <1>4 DEF OpenChannel, ArmLadder, TypeOK
  <2>3. PICK d, e \in rungs : d # e
    BY LadderHasTwoRungs
  <2>4. \A k \in Outpoint : IsOpen(k) => channels[k].outpoint \in Outpoint
    BY DEF CustodyInv, KnownChannelRecord, IsOpen
  <2>5. QED
    BY <1>4, <1>5, <2>1, <2>2, <2>3, <2>4 DEF CustodyInv, OpenChannelHasLadder
<1>13. QED
  BY <1>6, <1>7, <1>8, <1>9, <1>10, <1>11, <1>12 DEF CustodyInv

\* splice and deliverSwapOutOnchain
LEMMA CustodyMoves ==
    ASSUME CustodyInv, TypeOK',
           NEW c \in Outpoint, NEW o \in Outpoint, NEW sats \in 0..MaxSats, NEW keys \in Key,
           NEW rungs \in Ladders, NEW hi \in Checkpoint,
           Moves(c, o, sats, keys, rungs, hi)
    PROVE  CustodyInv'
<1>1. TypeOK
  BY DEF CustodyInv
<1>2. IsOpen(c) /\ Known(c) /\ channels[c].amountSats \in Nat
  BY <1>1, SpentIsOpen, FieldTypes DEF Moves, IsOpen
<1>3. sats \in Nat
  BY ConstantsAssumption
<1>4. /\ channels'[c].amountSats = sats
      /\ channels'[c].outpoint = o
      /\ channels'[c].keysHash = keys
      /\ channels'[c].lpEth = channels[c].lpEth
      /\ channels'[c].status = STATUS_OPEN
      /\ \A d \in Outpoint : d # c => channels'[d] = channels[d]
  BY <1>1, MovedFields
<1>5. \A d \in Outpoint : IsOpen(d)' <=> IsOpen(d)
  BY <1>2, <1>4 DEF IsOpen, Moves, WhenOpen
<1>6. KnownChannelRecord'
  BY <1>2, <1>4 DEF CustodyInv, KnownChannelRecord
<1>7. LockedIsSumOfOpen'
  <2>1. OpenSats \in [Outpoint -> Nat] /\ OpenSats' \in [Outpoint -> Nat]
    BY <1>1, OpenSatsType, OpenSatsTypeNext
  <2>2. OpenSats[c] = channels[c].amountSats /\ OpenSats'[c] = sats
    BY <1>2, <1>4, <1>5 DEF OpenSats
  <2>3. \A d \in Outpoint \ {c} : OpenSats'[d] = OpenSats[d]
    BY <1>4, <1>5 DEF OpenSats
  <2>4. Total(OpenSats', Outpoint) + OpenSats[c] = Total(OpenSats, Outpoint) + OpenSats'[c]
        /\ Total(OpenSats', Outpoint) \in Nat
    BY <2>1, <2>3, TotalUpdate, ConstantsAssumption
  <2>5. totalSatsLocked' \in Nat
        /\ totalSatsLocked' + channels[c].amountSats = totalSatsLocked + sats
    BY DEF Moves
  <2>6. QED
    BY <1>1, <1>2, <1>3, <2>2, <2>4, <2>5 DEF CustodyInv, LockedIsSumOfOpen, TypeOK
<1>8. OneOpenChannelPerLp'
  <2>1. hasOpenBtcChannel' = hasOpenBtcChannel
    BY DEF Moves
  <2>2. \A d \in Outpoint : channels'[d].lpEth = channels[d].lpEth
    BY <1>4
  <2>3. QED
    BY <1>5, <2>1, <2>2 DEF CustodyInv, OneOpenChannelPerLp
<1>9. OutpointBacksOneChannel'
  <2>1. fundingOutpointUsed' = fundingOutpointUsed \cup {o} /\ o \notin fundingOutpointUsed
    BY DEF Moves, MoveChannel, UseOutpoint
  <2>2. OutpointBacksOneChannel
    BY DEF CustodyInv
  <2>3. QED
    BY <1>2, <1>4, <2>1, <2>2 DEF OutpointBacksOneChannel
<1>10. UnknownChannelUntouched'
  <2>1. \A d \in Outpoint : d # c => pendingClaimSats'[d] = pendingClaimSats[d]
                                     /\ checkpointOf'[d] = checkpointOf[d]
    BY <1>1 DEF Moves, ArmLadder, TypeOK
  <2>2. QED
    BY <1>2, <1>4, <2>1 DEF CustodyInv, UnknownChannelUntouched
<1>11. DeferredClaimFits'
  <2>1. pendingClaimSats' = pendingClaimSats /\ pendingClaimSats[c] \in Nat
        /\ (sats >= channels[c].amountSats \/ pendingClaimSats[c] = 0)
    BY <1>1, ConstantsAssumption DEF Moves, TypeOK
  <2>2. DeferredClaimFits
    BY DEF CustodyInv
  <2>3. pendingClaimSats[c] # 0 => pendingClaimSats[c] <= sats
    BY <1>2, <1>3, <2>1, <2>2 DEF DeferredClaimFits
  <2>4. QED
    BY <1>4, <1>5, <2>1, <2>2, <2>3 DEF DeferredClaimFits
<1>12. OpenChannelHasLadder'
  <2>1. \A d \in Outpoint : exitArmedOnOutpoint[d] \subseteq exitArmedOnOutpoint'[d]
    BY <1>1 DEF Moves, ArmLadder, TypeOK
  <2>2. rungs \subseteq exitArmedOnOutpoint'[o]
    BY <1>1 DEF Moves, ArmLadder, TypeOK
  <2>3. PICK d, e \in rungs : d # e
    BY LadderHasTwoRungs
  <2>4. \A k \in Outpoint : IsOpen(k) => channels[k].outpoint \in Outpoint
    BY DEF CustodyInv, KnownChannelRecord, IsOpen
  <2>5. QED
    BY <1>4, <1>5, <2>1, <2>2, <2>3, <2>4 DEF CustodyInv, OpenChannelHasLadder
<1>13. QED
  BY <1>6, <1>7, <1>8, <1>9, <1>10, <1>11, <1>12 DEF CustodyInv

\* recordClose, recordDeadManExit and recordForceClosePermissionless
LEMMA CustodyCloses ==
    ASSUME CustodyInv, TypeOK', NEW c \in Outpoint, Closes(c)
    PROVE  CustodyInv'
<1>1. TypeOK
  BY DEF CustodyInv
<1>2. IsOpen(c) /\ Known(c) /\ channels[c].amountSats \in Nat
  BY <1>1, SpentIsOpen, FieldTypes DEF Closes, IsOpen
<1>3. /\ channels'[c].amountSats = channels[c].amountSats
      /\ channels'[c].outpoint = channels[c].outpoint
      /\ channels'[c].keysHash = channels[c].keysHash
      /\ channels'[c].lpEth = channels[c].lpEth
      /\ channels'[c].status = STATUS_CLOSED
      /\ \A d \in Outpoint : d # c => channels'[d] = channels[d]
  BY <1>1, ClosedFields
<1>4. ~IsOpen(c)' /\ \A d \in Outpoint : d # c => (IsOpen(d)' <=> IsOpen(d))
  BY <1>3 DEF IsOpen, STATUS_OPEN, STATUS_CLOSED
<1>5. KnownChannelRecord'
  BY <1>3 DEF CustodyInv, KnownChannelRecord
<1>6. LockedIsSumOfOpen'
  <2>1. OpenSats \in [Outpoint -> Nat] /\ OpenSats' \in [Outpoint -> Nat]
    BY <1>1, OpenSatsType, OpenSatsTypeNext
  <2>2. OpenSats[c] = channels[c].amountSats /\ OpenSats'[c] = 0
    BY <1>2, <1>4 DEF OpenSats
  <2>3. \A d \in Outpoint \ {c} : OpenSats'[d] = OpenSats[d]
    BY <1>3, <1>4 DEF OpenSats
  <2>4. Total(OpenSats', Outpoint) + OpenSats[c] = Total(OpenSats, Outpoint) + OpenSats'[c]
        /\ Total(OpenSats', Outpoint) \in Nat
    BY <2>1, <2>3, TotalUpdate, ConstantsAssumption
  <2>5. totalSatsLocked' = totalSatsLocked - channels[c].amountSats
    BY DEF Closes, FinalizeClose
  <2>6. QED
    BY <1>1, <1>2, <2>2, <2>4, <2>5 DEF CustodyInv, LockedIsSumOfOpen, TypeOK
<1>7. OneOpenChannelPerLp'
  <2>1. hasOpenBtcChannel' = hasOpenBtcChannel \ {channels[c].lpEth}
    BY DEF Closes, FinalizeClose, FreeLp
  <2>2. \A d \in Outpoint : channels'[d].lpEth = channels[d].lpEth
    BY <1>3
  <2>3. \A d \in Outpoint : IsOpen(d) /\ channels[d].lpEth = channels[c].lpEth => d = c
    BY <1>2 DEF CustodyInv, OneOpenChannelPerLp
  <2>4. QED
    BY <1>2, <1>4, <2>1, <2>2, <2>3 DEF CustodyInv, OneOpenChannelPerLp
<1>8. OutpointBacksOneChannel'
  <2>1. fundingOutpointUsed' = fundingOutpointUsed
    BY DEF Closes, FinalizeClose
  <2>2. \A d \in Outpoint : channels'[d].lpEth = channels[d].lpEth
                            /\ channels'[d].outpoint = channels[d].outpoint
    BY <1>3
  <2>3. QED
    BY <2>1, <2>2 DEF CustodyInv, OutpointBacksOneChannel
<1>9. UnknownChannelUntouched'
  <2>1. checkpointOf' = checkpointOf
        /\ \A d \in Outpoint : d # c => pendingClaimSats'[d] = pendingClaimSats[d]
    BY <1>1 DEF Closes, FinalizeClose, ladders, TypeOK
  <2>2. QED
    BY <1>2, <1>3, <2>1 DEF CustodyInv, UnknownChannelUntouched
<1>10. DeferredClaimFits'
  <2>1. pendingClaimSats'[c] = 0
        /\ \A d \in Outpoint : d # c => pendingClaimSats'[d] = pendingClaimSats[d]
    BY <1>1 DEF Closes, FinalizeClose, TypeOK
  <2>2. QED
    BY <1>3, <1>4, <2>1 DEF CustodyInv, DeferredClaimFits
<1>11. OpenChannelHasLadder'
  <2>1. exitArmedOnOutpoint' = exitArmedOnOutpoint
    BY DEF Closes, FinalizeClose, ladders
  <2>2. QED
    BY <1>3, <1>4, <2>1 DEF CustodyInv, OpenChannelHasLadder
<1>12. QED
  BY <1>5, <1>6, <1>7, <1>8, <1>9, <1>10, <1>11 DEF CustodyInv

\* registerChannelClaim
LEMMA CustodyRegister ==
    ASSUME CustodyInv, TypeOK', NEW c \in Outpoint, RegisterChannelClaim(c)
    PROVE  CustodyInv'
<1>1. TypeOK
  BY DEF CustodyInv
<1>2. channels' = channels /\ fundingOutpointUsed' = fundingOutpointUsed
      /\ totalSatsLocked' = totalSatsLocked /\ hasOpenBtcChannel' = hasOpenBtcChannel
      /\ exitArmedOnOutpoint' = exitArmedOnOutpoint /\ checkpointOf' = checkpointOf
  BY DEF RegisterChannelClaim, custody, ladders
<1>3. pendingClaimSats'[c] = 0
      /\ \A d \in Outpoint : d # c => pendingClaimSats'[d] = pendingClaimSats[d]
  BY <1>1 DEF RegisterChannelClaim, TypeOK
<1>4. LockedIsSumOfOpen'
  <2>1. OpenSats' = OpenSats
    BY <1>2 DEF OpenSats, IsOpen
  <2>2. QED
    BY <1>2, <2>1 DEF CustodyInv, LockedIsSumOfOpen
<1>5. UnknownChannelUntouched' /\ DeferredClaimFits'
  BY <1>2, <1>3 DEF CustodyInv, UnknownChannelUntouched, DeferredClaimFits, IsOpen
<1>6. QED
  BY <1>2, <1>4, <1>5 DEF CustodyInv, KnownChannelRecord, OneOpenChannelPerLp,
     OutpointBacksOneChannel, OpenChannelHasLadder, IsOpen

\* emitDeadManExit
LEMMA CustodyEmit ==
    ASSUME CustodyInv, TypeOK', NEW c \in Outpoint, NEW keys \in Key, NEW d \in Deadline,
           NEW hi \in Checkpoint, EmitDeadManExit(c, keys, d, hi)
    PROVE  CustodyInv'
<1>1. TypeOK
  BY DEF CustodyInv
<1>2. channels' = channels /\ fundingOutpointUsed' = fundingOutpointUsed
      /\ totalSatsLocked' = totalSatsLocked /\ hasOpenBtcChannel' = hasOpenBtcChannel
      /\ pendingClaimSats' = pendingClaimSats
  BY DEF EmitDeadManExit, custody
<1>3. Known(c)
  BY ConstantsAssumption DEF EmitDeadManExit, RequireChannelKeys, CustodyInv,
     UnknownChannelUntouched, ZeroChannel
<1>4. LockedIsSumOfOpen'
  <2>1. OpenSats' = OpenSats
    BY <1>2 DEF OpenSats, IsOpen
  <2>2. QED
    BY <1>2, <2>1 DEF CustodyInv, LockedIsSumOfOpen
<1>5. UnknownChannelUntouched'
  <2>1. \A k \in Outpoint : k # c => checkpointOf'[k] = checkpointOf[k]
    BY <1>1 DEF EmitDeadManExit, ArmLadder, TypeOK
  <2>2. QED
    BY <1>2, <1>3, <2>1 DEF CustodyInv, UnknownChannelUntouched
<1>6. OpenChannelHasLadder'
  <2>1. \A k \in Outpoint : exitArmedOnOutpoint[k] \subseteq exitArmedOnOutpoint'[k]
    BY <1>1 DEF EmitDeadManExit, ArmLadder, TypeOK
  <2>2. \A k \in Outpoint : IsOpen(k) => channels[k].outpoint \in Outpoint
    BY DEF CustodyInv, KnownChannelRecord, IsOpen
  <2>3. QED
    BY <1>2, <2>1, <2>2 DEF CustodyInv, OpenChannelHasLadder, IsOpen
<1>7. QED
  BY <1>2, <1>4, <1>5, <1>6 DEF CustodyInv, KnownChannelRecord, OneOpenChannelPerLp,
     OutpointBacksOneChannel, DeferredClaimFits, IsOpen

\* Calls that touch neither custody nor ladders
LEMMA CustodyOther ==
    ASSUME CustodyInv, TypeOK', UNCHANGED <<custody, ladders, pendingClaimSats>>
    PROVE  CustodyInv'
<1>1. channels' = channels /\ fundingOutpointUsed' = fundingOutpointUsed
      /\ totalSatsLocked' = totalSatsLocked /\ hasOpenBtcChannel' = hasOpenBtcChannel
      /\ exitArmedOnOutpoint' = exitArmedOnOutpoint /\ checkpointOf' = checkpointOf
      /\ pendingClaimSats' = pendingClaimSats
  BY DEF custody, ladders
<1>2. LockedIsSumOfOpen'
  <2>1. OpenSats' = OpenSats
    BY <1>1 DEF OpenSats, IsOpen
  <2>2. QED
    BY <1>1, <2>1 DEF CustodyInv, LockedIsSumOfOpen
<1>3. QED
  BY <1>1, <1>2 DEF CustodyInv, KnownChannelRecord, OneOpenChannelPerLp, OutpointBacksOneChannel,
     UnknownChannelUntouched, DeferredClaimFits, OpenChannelHasLadder, IsOpen

\* Every call preserves the custody invariant.
LEMMA CustodyStepInv == CustodyInv /\ [Next]_vars => CustodyInv'
<1> SUFFICES ASSUME CustodyInv, [Next]_vars PROVE CustodyInv'
  OBVIOUS
<1>1. TypeOK /\ TypeOK'
  BY TypeStep DEF CustodyInv
<1>2. CustodyStep
  BY <1>1, StepKinds
<1>3. QED
  BY <1>1, <1>2, CustodyOpen, CustodyMoves, CustodyCloses, CustodyRegister, CustodyEmit,
     CustodyOther DEF CustodyStep

-----------------------------------------------------------------------------
(* The theorems. *)

\* The custody invariant holds in every reachable state.
THEOREM CustodyCorrect == Spec => []CustodyInv
BY CustodyInit, CustodyStepInv, PTL DEF Spec

\* totalSatsLocked is the sum of what the open channels hold, whatever mix of
\* openings, splices, deliveries and closes led there.
THEOREM LockedIsSumOfOpenHolds == Spec => []LockedIsSumOfOpen
<1>1. CustodyInv => LockedIsSumOfOpen
  BY DEF CustodyInv
<1>2. QED
  BY <1>1, CustodyCorrect, PTL

\* An LP has at most one open channel, and hasOpenBtcChannel says exactly which
\* LPs have one.
THEOREM OneOpenChannelPerLpHolds == Spec => []OneOpenChannelPerLp
<1>1. CustodyInv => OneOpenChannelPerLp
  BY DEF CustodyInv
<1>2. QED
  BY <1>1, CustodyCorrect, PTL

\* No Bitcoin output ever backs two channels.
THEOREM OutpointBacksOneChannelHolds == Spec => []OutpointBacksOneChannel
<1>1. CustodyInv => OutpointBacksOneChannel
  BY DEF CustodyInv
<1>2. QED
  BY <1>1, CustodyCorrect, PTL

\* An open channel has two exits armed on the outpoint it has now.
THEOREM OpenChannelHasLadderHolds == Spec => []OpenChannelHasLadder
<1>1. CustodyInv => OpenChannelHasLadder
  BY DEF CustodyInv
<1>2. QED
  BY <1>1, CustodyCorrect, PTL

\* A deferred claim belongs to an open channel and fits in it.
THEOREM DeferredClaimFitsHolds == Spec => []DeferredClaimFits
<1>1. CustodyInv => DeferredClaimFits
  BY DEF CustodyInv
<1>2. QED
  BY <1>1, CustodyCorrect, PTL

\* Ids nobody opened pass _whenOpen, yet no call ever writes to them.
THEOREM UnknownChannelUntouchedHolds == Spec => []UnknownChannelUntouched
<1>1. CustodyInv => UnknownChannelUntouched
  BY DEF CustodyInv
<1>2. QED
  BY <1>1, CustodyCorrect, PTL

\* What one call may do to a closed channel: nothing.
LEMMA ClosedStep ==
    ASSUME CustodyInv, [Next]_vars, NEW c \in Outpoint, channels[c].status = STATUS_CLOSED
    PROVE  /\ channels'[c] = channels[c]
           /\ pendingClaimSats'[c] = pendingClaimSats[c]
           /\ checkpointOf'[c] = checkpointOf[c]
<1> DEFINE Same == /\ channels'[c] = channels[c]
                   /\ pendingClaimSats'[c] = pendingClaimSats[c]
                   /\ checkpointOf'[c] = checkpointOf[c]
<1>1. TypeOK
  BY DEF CustodyInv
<1>2. c \in fundingOutpointUsed /\ ~WhenOpen(c) /\ ~IsOpen(c)
  BY DEF CustodyInv, UnknownChannelUntouched, OutpointBacksOneChannel, ZeroChannel, WhenOpen,
     IsOpen, STATUS_OPEN, STATUS_CLOSED
<1>3. ASSUME NEW lp \in LP, NEW d \in Outpoint, NEW sats \in Sats, NEW keys \in Key,
             NEW rungs \in Ladders, NEW hi \in Checkpoint, NEW deposited \in BOOLEAN,
             OpenChannel(lp, d, sats, keys, rungs, hi, deposited)
      PROVE  Same
  <2>1. d # c
    BY <1>2, <1>3 DEF OpenChannel, UseOutpoint
  <2>2. QED
    BY <1>1, <1>3, <2>1 DEF OpenChannel, ArmLadder, TypeOK
<1>4. ASSUME NEW d \in Outpoint, RegisterChannelClaim(d)
      PROVE  Same
  <2>1. pendingClaimSats[d] # 0
    BY <1>1, <1>4, FieldTypes, ConstantsAssumption DEF RegisterChannelClaim, Least, TypeOK
  <2>2. d # c
    BY <1>2, <2>1 DEF CustodyInv, DeferredClaimFits
  <2>3. QED
    BY <1>1, <1>4, <2>2 DEF RegisterChannelClaim, TypeOK, custody, ladders
<1>5. ASSUME NEW d \in Outpoint, NEW o \in Outpoint, NEW sats \in 0..MaxSats, NEW keys \in Key,
             NEW rungs \in Ladders, NEW hi \in Checkpoint,
             Moves(d, o, sats, keys, rungs, hi)
      PROVE  Same
  <2>1. d # c
    BY <1>2, <1>5 DEF Moves
  <2>2. QED
    BY <1>1, <1>5, <2>1 DEF Moves, MoveChannel, ArmLadder, TypeOK
<1>6. ASSUME NEW d \in Outpoint, NEW keys \in Key, NEW e \in Deadline, NEW hi \in Checkpoint,
             EmitDeadManExit(d, keys, e, hi)
      PROVE  Same
  <2>1. d # c
    BY <1>2, <1>6 DEF EmitDeadManExit
  <2>2. QED
    BY <1>1, <1>6, <2>1 DEF EmitDeadManExit, ArmLadder, TypeOK, custody
<1>7. ASSUME NEW d \in Outpoint, Closes(d)
      PROVE  Same
  <2>1. d # c
    BY <1>2, <1>7 DEF Closes
  <2>2. QED
    BY <1>1, <1>7, <2>1 DEF Closes, FinalizeClose, TypeOK, ladders
<1>8. CASE UNCHANGED <<custody, ladders, pendingClaimSats>>
  BY <1>8 DEF custody, ladders
<1>9. QED
  BY <1>1, <1>3, <1>4, <1>5, <1>6, <1>7, <1>8, StepKinds DEF CustodyStep

\* What one call may do to the attested balance of a channel that stays where
\* it is: raise it.
LEMMA CheckpointStep ==
    ASSUME CustodyInv, [Next]_vars, NEW c \in Outpoint,
           channels[c].outpoint # NoOutpoint, channels'[c].outpoint = channels[c].outpoint
    PROVE  checkpointOf'[c] >= checkpointOf[c]
<1>1. TypeOK /\ checkpointOf[c] \in Nat
  BY DEF CustodyInv, TypeOK
<1>2. {c, channels[c].outpoint} \subseteq fundingOutpointUsed
  BY DEF CustodyInv, UnknownChannelUntouched, ZeroChannel, OutpointBacksOneChannel
<1>3. ASSUME NEW lp \in LP, NEW d \in Outpoint, NEW sats \in Sats, NEW keys \in Key,
             NEW rungs \in Ladders, NEW hi \in Checkpoint, NEW deposited \in BOOLEAN,
             OpenChannel(lp, d, sats, keys, rungs, hi, deposited)
      PROVE  checkpointOf'[c] = checkpointOf[c]
  <2>1. d # c
    BY <1>2, <1>3 DEF OpenChannel, UseOutpoint
  <2>2. QED
    BY <1>1, <1>3, <2>1 DEF OpenChannel, ArmLadder, TypeOK
<1>4. ASSUME NEW d \in Outpoint, RegisterChannelClaim(d)
      PROVE  checkpointOf'[c] = checkpointOf[c]
  BY <1>4 DEF RegisterChannelClaim, ladders
<1>5. ASSUME NEW d \in Outpoint, NEW o \in Outpoint, NEW sats \in 0..MaxSats, NEW keys \in Key,
             NEW rungs \in Ladders, NEW hi \in Checkpoint,
             Moves(d, o, sats, keys, rungs, hi)
      PROVE  checkpointOf'[c] = checkpointOf[c]
  <2>1. o \notin fundingOutpointUsed
    BY <1>5 DEF Moves, MoveChannel, UseOutpoint
  <2>2. channels'[d].outpoint = o
    BY <1>1, <1>5, MovedFields
  <2>3. d # c
    BY <1>2, <2>1, <2>2
  <2>4. QED
    BY <1>1, <1>5, <2>3 DEF Moves, ArmLadder, TypeOK
<1>6. ASSUME NEW d \in Outpoint, NEW keys \in Key, NEW e \in Deadline, NEW hi \in Checkpoint,
             EmitDeadManExit(d, keys, e, hi)
      PROVE  checkpointOf'[c] >= checkpointOf[c]
  BY <1>1, <1>6, ConstantsAssumption DEF EmitDeadManExit, ArmLadder, TypeOK
<1>7. ASSUME NEW d \in Outpoint, Closes(d)
      PROVE  checkpointOf'[c] = checkpointOf[c]
  BY <1>7 DEF Closes, FinalizeClose, ladders
<1>8. CASE UNCHANGED <<custody, ladders, pendingClaimSats>>
  BY <1>1, <1>8 DEF ladders
<1>9. QED
  BY <1>1, <1>3, <1>4, <1>5, <1>6, <1>7, <1>8, StepKinds DEF CustodyStep

\* A closed channel is never reopened, moved, credited or re-armed.
THEOREM ClosedIsFinalHolds == Spec => ClosedIsFinal
<1>1. CustodyInv /\ [Next]_vars =>
        [\A c \in Outpoint : channels[c].status = STATUS_CLOSED =>
            /\ channels'[c] = channels[c]
            /\ pendingClaimSats'[c] = pendingClaimSats[c]
            /\ checkpointOf'[c] = checkpointOf[c]]_vars
  BY ClosedStep
<1>2. QED
  BY <1>1, CustodyCorrect, PTL DEF Spec, ClosedIsFinal

\* The attested balance falls only when the channel moves to a new outpoint.
THEOREM CheckpointRisesHolds == Spec => CheckpointRisesOnOutpoint
<1>1. CustodyInv /\ [Next]_vars =>
        [\A c \in Outpoint :
            channels[c].outpoint # NoOutpoint /\ channels'[c].outpoint = channels[c].outpoint
            => checkpointOf'[c] >= checkpointOf[c]]_vars
  BY CheckpointStep
<1>2. QED
  BY <1>1, CustodyCorrect, PTL DEF Spec, CheckpointRisesOnOutpoint

-----------------------------------------------------------------------------
(* The share ledger and the swap-outs. *)

\* n shares are minted to lp, n are burned from lp.
Mints(lp, n) == pooled' = [pooled EXCEPT ![lp] = @ + n] /\ lpShares' = lpShares + n

Burns(lp, n) ==
    /\ n <= pooled[lp] /\ n <= lpShares
    /\ pooled' = [pooled EXCEPT ![lp] = @ - n] /\ lpShares' = lpShares - n

\* Every way the share ledger moves.
ShareStep ==
    \/ \E lp \in LP, n \in Nat : Mints(lp, n) \/ Burns(lp, n)
    \/ \E from \in LP, to \in LP, amount \in 1..MaxTransfer :
          TransferShares(from, to, amount)
    \/ UNCHANGED shares

\* The share invariant needs custody: a call that names a channel moves the
\* shares of a real LP, never those of address(0).
ShareInv == CustodyInv /\ SupplyIsSumOfBalances

-----------------------------------------------------------------------------
\* Vault.resize burns at most what the LP holds, or does nothing.
LEMMA ResizeBurns ==
    ASSUME TypeOK, NEW lp \in LP, NEW n \in Nat, NEW usd \in Nat, Resize(lp, n, usd)
    PROVE  ShareStep
<1>1. CASE pooled[lp] = 0
  BY <1>1 DEF Resize, ShareStep
<1>2. CASE pooled[lp] # 0
  <2> DEFINE removed == Least(n, pooled[lp])
  <2>1. removed \in Nat /\ removed <= pooled[lp]
    BY DEF Least, TypeOK, Account
  <2>2. lpShares >= removed /\ lpShares \in Nat
    BY <1>2 DEF Resize, TypeOK
  <2>3. Burns(lp, removed)
    BY <1>2, <2>1, <2>2 DEF Resize, Burns
  <2>4. QED
    BY <2>1, <2>3 DEF ShareStep
<1>3. QED
  BY <1>1, <1>2

\* Closing burns the LP's whole position, or nothing.
LEMMA CloseBurns ==
    ASSUME CustodyInv, NEW c \in Outpoint, Closes(c)
    PROVE  ShareStep
<1>1. IsOpen(c)
  BY SpentIsOpen DEF Closes
<1>2. channels[c].lpEth \in LP
  BY <1>1 DEF CustodyInv, KnownChannelRecord, IsOpen
<1>3. CASE pendingClaimSats[c] = 0
  <2> DEFINE lp == channels[c].lpEth
             n == pooled[lp]
  <2>1. n \in Nat /\ lpShares \in Nat
    BY <1>2 DEF CustodyInv, TypeOK, Account
  <2>2. RequestRedeem(lp)
    BY <1>3 DEF Closes, FinalizeClose
  <2>3. [pooled EXCEPT ![lp] = 0] = [pooled EXCEPT ![lp] = @ - n]
    <3>1. pooled[lp] - n = 0
      BY <2>1
    <3>2. QED
      BY <3>1
  <2>4. Burns(lp, n)
    BY <2>1, <2>2, <2>3 DEF RequestRedeem, Burns
  <2>5. QED
    BY <1>2, <2>1, <2>4 DEF ShareStep
<1>4. CASE pendingClaimSats[c] # 0
  BY <1>4 DEF Closes, FinalizeClose, ShareStep
<1>5. QED
  BY <1>3, <1>4

\* Every external call moves shares in one of those ways.
LEMMA ShareKinds ==
    ASSUME CustodyInv, [Next]_vars
    PROVE  ShareStep
<1> Sats \subseteq Nat /\ SatsLeft \subseteq Nat
  BY ConstantsAssumption DEF Sats, SatsLeft
<1> TypeOK
  BY DEF CustodyInv
<1>1. ASSUME NEW lp \in LP, NEW c \in Outpoint, NEW sats \in Sats, NEW keys \in Key,
             NEW rungs \in Ladders, NEW hi \in Checkpoint, NEW deposited \in BOOLEAN,
             OpenChannel(lp, c, sats, keys, rungs, hi, deposited)
      PROVE  ShareStep
  BY <1>1 DEF OpenChannel, RequestDeposit, ShareStep, Mints
<1>2. ASSUME NEW c \in Outpoint, RegisterChannelClaim(c)
      PROVE  ShareStep
  <2> DEFINE sats == Least(pendingClaimSats[c], channels[c].amountSats)
  <2>1. sats \in Nat /\ (sats # 0 => pendingClaimSats[c] # 0)
    BY FieldTypes, ConstantsAssumption DEF TypeOK, Least
  <2>2. channels[c].lpEth \in LP
    BY <1>2, <2>1 DEF RegisterChannelClaim, CustodyInv, DeferredClaimFits, IsOpen,
       KnownChannelRecord
  <2>3. QED
    BY <1>2, <2>1, <2>2 DEF RegisterChannelClaim, RequestDeposit, ShareStep, Mints
<1>3. ASSUME NEW c \in Outpoint, NEW o \in Outpoint, NEW sats \in SatsLeft, NEW keys \in Key,
             NEW rungs \in Ladders, NEW hi \in Checkpoint,
             SpliceGrow(c, o, sats, keys, rungs, hi)
      PROVE  ShareStep
  <2>1. channels[c].lpEth \in LP
    BY <1>3, SpentIsOpen DEF SpliceGrow, CustodyInv, KnownChannelRecord, IsOpen
  <2>2. sats > channels[c].amountSats /\ channels[c].amountSats \in Nat
    BY <1>3, FieldTypes DEF SpliceGrow
  <2>3. sats - channels[c].amountSats \in Nat
    <3>1. sats \in Nat
      OBVIOUS
    <3>2. QED
      BY <2>2, <3>1
  <2>4. QED
    BY <1>3, <2>1, <2>3 DEF SpliceGrow, RequestDeposit, ShareStep, Mints
<1>4. ASSUME NEW c \in Outpoint, NEW o \in Outpoint, NEW sats \in SatsLeft, NEW keys \in Key,
             NEW rungs \in Ladders, NEW hi \in Checkpoint,
             SpliceShrink(c, o, sats, keys, rungs, hi)
      PROVE  ShareStep
  <2>1. channels[c].lpEth \in LP
    BY <1>4, SpentIsOpen DEF SpliceShrink, CustodyInv, KnownChannelRecord, IsOpen
  <2>2. sats < channels[c].amountSats /\ channels[c].amountSats \in Nat
    BY <1>4, FieldTypes DEF SpliceShrink
  <2>3. channels[c].amountSats - sats \in Nat
    <3>1. sats \in Nat
      OBVIOUS
    <3>2. QED
      BY <2>2, <3>1
  <2>4. QED
    BY <1>4, <2>1, <2>3, ResizeBurns DEF SpliceShrink
<1>5. ASSUME NEW s \in Swap, NEW c \in Outpoint, NEW o \in Outpoint, NEW sats \in SatsLeft,
             NEW keys \in Key, NEW rungs \in Ladders, NEW hi \in Checkpoint,
             DeliverSwapOutOnchain(s, c, o, sats, keys, rungs, hi)
      PROVE  ShareStep
  <2>1. channels[c].lpEth \in LP
    BY <1>5, SpentIsOpen DEF DeliverSwapOutOnchain, CustodyInv, KnownChannelRecord, IsOpen
  <2>2. sats < channels[c].amountSats
    BY <1>5 DEF DeliverSwapOutOnchain
  <2>3. channels[c].amountSats - sats \in Nat
    <3>1. channels[c].amountSats \in Nat
      BY FieldTypes
    <3>2. sats \in Nat
      OBVIOUS
    <3>3. QED
      BY <2>2, <3>1, <3>2
  <2>4. pendingOnchainSwapOut[s].usd \in Nat
    BY ConstantsAssumption DEF TypeOK, SwapOutRecord
  <2>5. QED
    BY <1>5, <2>1, <2>3, <2>4, ResizeBurns DEF DeliverSwapOutOnchain
<1>6. ASSUME NEW c \in Outpoint, NEW keys \in Key, NEW coop \in BOOLEAN,
             NEW paid \in 0..MaxSats, NEW byLp \in BOOLEAN,
             RecordClose(c, keys, coop, paid, byLp)
      PROVE  ShareStep
  BY <1>6, CloseBurns DEF RecordClose, Closes
<1>7. ASSUME NEW c \in Outpoint, NEW keys \in Key, NEW d \in Deadline,
             RecordDeadManExit(c, keys, d)
      PROVE  ShareStep
  BY <1>7, CloseBurns DEF RecordDeadManExit, Closes
<1>8. ASSUME NEW c \in Outpoint, RecordForceClosePermissionless(c)
      PROVE  ShareStep
  BY <1>8, CloseBurns DEF RecordForceClosePermissionless, Closes
<1>9. ASSUME NEW c \in Outpoint, NEW o \in Outpoint, NEW keys \in Key,
             NEW rungs \in Ladders, NEW hi \in Checkpoint, SpliceRekey(c, o, keys, rungs, hi)
      PROVE  ShareStep
  BY <1>9 DEF SpliceRekey, ShareStep
<1>10. ASSUME NEW c \in Outpoint, NEW keys \in Key, NEW d \in Deadline, NEW hi \in Checkpoint,
              EmitDeadManExit(c, keys, d, hi)
       PROVE  ShareStep
  BY <1>10 DEF EmitDeadManExit, ShareStep
<1>11. ASSUME NEW d \in Deposit, NEW floorUsd \in 0..MaxUsd, SettleSwapInProven(d, floorUsd)
       PROVE  ShareStep
  BY <1>11 DEF SettleSwapInProven, ShareStep
<1>12. ASSUME NEW s \in Swap, NEW sats \in Sats, NEW usd \in 1..MaxUsd,
              RequestSwapOutOnchain(s, sats, usd)
       PROVE  ShareStep
  BY <1>12 DEF RequestSwapOutOnchain, ShareStep
<1>13. ASSUME NEW s \in Swap, NEW minUsd,
              BlocksPass(s) \/ ReverseSwapOut(s) \/ RefundExpiredSwapOut(s, minUsd)
       PROVE  ShareStep
  BY <1>13 DEF BlocksPass, ReverseSwapOut, RefundExpiredSwapOut, ReturnDollars, ShareStep
<1>14. ASSUME NEW from \in LP, NEW to \in LP, NEW amount \in 1..MaxTransfer,
              TransferShares(from, to, amount)
       PROVE  ShareStep
  BY <1>14 DEF ShareStep
<1>15. CASE UNCHANGED vars
  BY <1>15 DEF vars, ShareStep
<1>16. ASSUME NEW usd, PoolMoves(usd)
       PROVE  ShareStep
  BY <1>16 DEF PoolMoves, ShareStep
<1>17. QED
  BY <1>1, <1>2, <1>3, <1>4, <1>5, <1>6, <1>7, <1>8, <1>9, <1>10, <1>11, <1>12, <1>13,
     <1>14, <1>15, <1>16 DEF Next

\* The LPs and address(0) are finitely many accounts.
LEMMA AccountFinite == IsFiniteSet(Account)
BY ConstantsAssumption, FS_AddElement DEF Account

\* Minting, burning and transferring keep supply and balances in step.
LEMMA SupplyStep ==
    ASSUME ShareInv, [Next]_vars, TypeOK'
    PROVE  SupplyIsSumOfBalances'
<1> lpShares \in Nat /\ pooled \in [Account -> Nat] /\ pooled' \in [Account -> Nat]
    /\ IsFiniteSet(Account) /\ LP \subseteq Account /\ NoLp \in Account /\ NoLp \notin LP
  BY AccountFinite, ConstantsAssumption DEF ShareInv, CustodyInv, TypeOK, Account
<1> lpShares = Total(pooled, Account) /\ pooled[NoLp] = 0
  BY DEF ShareInv, SupplyIsSumOfBalances
<1>1. ASSUME NEW lp \in LP, NEW n \in Nat, Mints(lp, n)
      PROVE  SupplyIsSumOfBalances'
  <2>1. pooled'[lp] = pooled[lp] + n /\ \A a \in Account \ {lp} : pooled'[a] = pooled[a]
    BY <1>1 DEF Mints
  <2>2. Total(pooled', Account) + pooled[lp] = Total(pooled, Account) + pooled'[lp]
        /\ Total(pooled', Account) \in Nat
    BY <2>1, TotalUpdate
  <2>3. lpShares' = lpShares + n /\ pooled[lp] \in Nat
    BY <1>1 DEF Mints
  <2>4. QED
    BY <2>1, <2>2, <2>3 DEF SupplyIsSumOfBalances
<1>2. ASSUME NEW lp \in LP, NEW n \in Nat, Burns(lp, n)
      PROVE  SupplyIsSumOfBalances'
  <2>1. pooled'[lp] = pooled[lp] - n /\ \A a \in Account \ {lp} : pooled'[a] = pooled[a]
    BY <1>2 DEF Burns
  <2>2. Total(pooled', Account) + pooled[lp] = Total(pooled, Account) + pooled'[lp]
        /\ Total(pooled', Account) \in Nat
    BY <2>1, TotalUpdate
  <2>3. lpShares' = lpShares - n /\ pooled[lp] \in Nat /\ n <= pooled[lp]
    BY <1>2 DEF Burns
  <2>4. QED
    BY <2>1, <2>2, <2>3 DEF SupplyIsSumOfBalances
<1>3. ASSUME NEW from \in LP, NEW to \in LP, NEW amount \in 1..MaxTransfer,
             TransferShares(from, to, amount)
      PROVE  SupplyIsSumOfBalances'
  <2> DEFINE half == [pooled EXCEPT ![from] = @ - amount]
  <2>1. from # to /\ pooled[from] >= amount /\ lpShares' = lpShares
        /\ pooled' = [half EXCEPT ![to] = @ + amount]
    BY <1>3 DEF TransferShares
  <2>2. half \in [Account -> Nat] /\ half[from] = pooled[from] - amount
        /\ \A a \in Account \ {from} : half[a] = pooled[a]
    BY <2>1
  <2>3. pooled'[to] = pooled[to] + amount /\ half[to] = pooled[to]
        /\ \A a \in Account \ {to} : pooled'[a] = half[a]
    BY <2>1, <2>2
  <2> HIDE DEF half
  <2>4. Total(half, Account) + pooled[from] = Total(pooled, Account) + half[from]
        /\ Total(half, Account) \in Nat
    BY <2>2, TotalUpdate
  <2>5. Total(pooled', Account) + half[to] = Total(half, Account) + pooled'[to]
        /\ Total(pooled', Account) \in Nat
    BY <2>2, <2>3, TotalUpdate
  <2>6. pooled[from] \in Nat /\ pooled[to] \in Nat /\ pooled'[NoLp] = 0
    BY <2>2, <2>3
  <2>7. QED
    BY <2>1, <2>2, <2>3, <2>4, <2>5, <2>6 DEF SupplyIsSumOfBalances
<1>4. CASE UNCHANGED shares
  BY <1>4 DEF shares, SupplyIsSumOfBalances
<1>5. QED
  BY <1>1, <1>2, <1>3, <1>4, ShareKinds DEF ShareInv, ShareStep

\* vBTC's totalSupply is the sum of its balances, through deposits, deferred
\* claims, clamped burns, full redemptions and transfers.
THEOREM SupplyIsSumOfBalancesHolds == Spec => []SupplyIsSumOfBalances
<1>1. Init => ShareInv
  <2> SUFFICES ASSUME Init PROVE ShareInv
    OBVIOUS
  <2>1. CustodyInv /\ pooled \in [Account -> Nat]
    BY CustodyInit DEF CustodyInv, TypeOK
  <2>2. (\A a \in Account : pooled[a] = 0) /\ lpShares = 0 /\ NoLp \in Account
    BY DEF Init, Account
  <2>3. QED
    BY <2>1, <2>2, TotalZero DEF ShareInv, SupplyIsSumOfBalances
<1>2. ShareInv /\ [Next]_vars => ShareInv'
  BY CustodyStepInv, SupplyStep DEF ShareInv, CustodyInv
<1>3. ShareInv => SupplyIsSumOfBalances
  BY DEF ShareInv
<1>4. QED
  BY <1>1, <1>2, <1>3, PTL DEF Spec

\* None of the unsigned subtractions of a close underflows: what _finalizeClose
\* takes off totalSatsLocked and lpShares is there.
CloseNeverUnderflows ==
    \A c \in Outpoint : IsOpen(c) =>
        /\ totalSatsLocked >= channels[c].amountSats
        /\ lpShares >= pooled[channels[c].lpEth]

\* No counter ever blocks the close of an open channel; with OpenChannelHasLadder
\* this is why a dead-man exit can always be recorded.
THEOREM CloseNeverUnderflowsHolds == Spec => []CloseNeverUnderflows
<1>1. CustodyInv /\ SupplyIsSumOfBalances => CloseNeverUnderflows
  <2> SUFFICES ASSUME CustodyInv, SupplyIsSumOfBalances, NEW c \in Outpoint, IsOpen(c)
               PROVE  /\ totalSatsLocked >= channels[c].amountSats
                      /\ lpShares >= pooled[channels[c].lpEth]
    BY DEF CloseNeverUnderflows
  <2>1. TypeOK
    BY DEF CustodyInv
  <2>2. OpenSats[c] <= Total(OpenSats, Outpoint) /\ Total(OpenSats, Outpoint) \in Nat
    BY <2>1, OpenSatsType, TotalType, ConstantsAssumption
  <2>3. OpenSats[c] = channels[c].amountSats /\ channels[c].amountSats \in Nat
    BY <2>1, FieldTypes DEF OpenSats
  <2>4. pooled[channels[c].lpEth] <= Total(pooled, Account) /\ Total(pooled, Account) \in Nat
        /\ pooled[channels[c].lpEth] \in Nat
    <3>1. channels[c].lpEth \in Account /\ pooled \in [Account -> Nat]
      BY <2>1, FieldTypes DEF TypeOK
    <3>2. QED
      BY <3>1, TotalType, AccountFinite
  <2>5. QED
    BY <2>2, <2>3, <2>4 DEF CustodyInv, LockedIsSumOfOpen, SupplyIsSumOfBalances
<1>2. QED
  BY <1>1, CustodyCorrect, SupplyIsSumOfBalancesHolds, PTL

-----------------------------------------------------------------------------
(* Swap-outs and deposits. *)

\* What ties the two used-id mappings to the records and the histories: only a
\* requested swap-out has a record, a discharged one has none left, both a
\* discharge and a credit burned the id, and no id had both.
SwapIds ==
    /\ \A s \in Swap : s \notin swapOutUsed => pendingOnchainSwapOut[s] = NoSwapOut
    /\ \A s \in Swap : discharged[s] # 0 =>
          /\ discharged[s] = 1
          /\ s \in swapOutUsed /\ s \in swapInUsed
          /\ pendingOnchainSwapOut[s] = NoSwapOut
    /\ \A s \in delivered : s \in swapOutUsed /\ pendingOnchainSwapOut[s] = NoSwapOut
    /\ \A d \in Deposit : credited[d] # 0 => credited[d] = 1 /\ d \in swapInUsed
    /\ \A x \in Swap \cap Deposit : discharged[x] = 0 \/ credited[x] = 0

SwapInv == TypeOK /\ SwapIds /\ ObligationsCovered

\* A fresh outpoint is used up.
UsesFresh(o) ==
    /\ o \notin fundingOutpointUsed
    /\ fundingOutpointUsed' = fundingOutpointUsed \cup {o}

\* A record is discharged, by a delivery that uses up a fresh outpoint or by
\* giving the dollars back, and the pending counter gives up its dollars or,
\* when Vault.resize returned early, nothing.
Discharges(s) ==
    /\ IsPending(s) /\ s \notin swapInUsed
    /\ Discharge(s)
    /\ \/ UNCHANGED <<delivered, fundingOutpointUsed>>
       \/ delivered' = delivered \cup {s} /\ \E o \in Outpoint : UsesFresh(o)
    /\ \/ SubPendingSwapOut(pendingOnchainSwapOut[s].usd)
       \/ UNCHANGED pendingSwapOutUsd

\* Every way the swap variables move.
SwapStep ==
    \/ \E d \in Deposit, floorUsd \in 0..MaxUsd : SettleSwapInProven(d, floorUsd)
    \/ \E s \in Swap, sats \in Sats, usd \in 1..MaxUsd : RequestSwapOutOnchain(s, sats, usd)
    \/ \E s \in Swap : BlocksPass(s)
    \/ \E s \in Swap : Discharges(s)
    \/ UNCHANGED <<swaps, pendingSwapOutUsd>>

\* Vault.resize takes the delivered dollars off the counter, or nothing.
LEMMA ResizePending ==
    ASSUME NEW lp, NEW n, NEW usd, Resize(lp, n, usd)
    PROVE  SubPendingSwapOut(usd) \/ UNCHANGED pendingSwapOutUsd
BY DEF Resize, dollars

\* Every external call moves the swap variables in one of those ways.
LEMMA SwapKinds ==
    ASSUME TypeOK, [Next]_vars
    PROVE  SwapStep
<1>1. ASSUME NEW lp \in LP, NEW c \in Outpoint, NEW sats \in Sats, NEW keys \in Key,
             NEW rungs \in Ladders, NEW hi \in Checkpoint, NEW deposited \in BOOLEAN,
             OpenChannel(lp, c, sats, keys, rungs, hi, deposited)
      PROVE  SwapStep
  BY <1>1 DEF OpenChannel, SwapStep
<1>2. ASSUME NEW c \in Outpoint, RegisterChannelClaim(c)
      PROVE  SwapStep
  BY <1>2 DEF RegisterChannelClaim, SwapStep
<1>3. ASSUME NEW c \in Outpoint, NEW o \in Outpoint, NEW sats \in SatsLeft, NEW keys \in Key,
             NEW rungs \in Ladders, NEW hi \in Checkpoint,
             SpliceGrow(c, o, sats, keys, rungs, hi)
      PROVE  SwapStep
  BY <1>3 DEF SpliceGrow, SwapStep
<1>4. ASSUME NEW c \in Outpoint, NEW o \in Outpoint, NEW sats \in SatsLeft, NEW keys \in Key,
             NEW rungs \in Ladders, NEW hi \in Checkpoint,
             SpliceShrink(c, o, sats, keys, rungs, hi)
      PROVE  SwapStep
  <2>1. UNCHANGED swaps
    BY <1>4 DEF SpliceShrink
  <2>2. SubPendingSwapOut(0) \/ UNCHANGED pendingSwapOutUsd
    BY <1>4, ResizePending DEF SpliceShrink
  <2>3. pendingSwapOutUsd' = pendingSwapOutUsd
    BY <2>2 DEF SubPendingSwapOut, TypeOK
  <2>4. QED
    BY <2>1, <2>3 DEF SwapStep
<1>5. ASSUME NEW s \in Swap, NEW c \in Outpoint, NEW o \in Outpoint, NEW sats \in SatsLeft,
             NEW keys \in Key, NEW rungs \in Ladders, NEW hi \in Checkpoint,
             DeliverSwapOutOnchain(s, c, o, sats, keys, rungs, hi)
      PROVE  SwapStep
  <2>1. IsPending(s) /\ s \notin swapInUsed /\ Discharge(s)
    BY <1>5 DEF DeliverSwapOutOnchain
  <2>2. SubPendingSwapOut(pendingOnchainSwapOut[s].usd) \/ UNCHANGED pendingSwapOutUsd
    BY <1>5, ResizePending DEF DeliverSwapOutOnchain
  <2>3. delivered' = delivered \cup {s} /\ UsesFresh(o)
    BY <1>5 DEF DeliverSwapOutOnchain, MoveChannel, UseOutpoint, UsesFresh
  <2>4. QED
    BY <2>1, <2>2, <2>3 DEF SwapStep, Discharges
<1>6. ASSUME NEW c \in Outpoint, NEW keys \in Key, NEW coop \in BOOLEAN,
             NEW paid \in 0..MaxSats, NEW byLp \in BOOLEAN,
             RecordClose(c, keys, coop, paid, byLp)
      PROVE  SwapStep
  BY <1>6 DEF RecordClose, FinalizeClose, SwapStep
<1>7. ASSUME NEW c \in Outpoint, NEW keys \in Key, NEW d \in Deadline,
             RecordDeadManExit(c, keys, d)
      PROVE  SwapStep
  BY <1>7 DEF RecordDeadManExit, FinalizeClose, SwapStep
<1>8. ASSUME NEW c \in Outpoint, RecordForceClosePermissionless(c)
      PROVE  SwapStep
  BY <1>8 DEF RecordForceClosePermissionless, FinalizeClose, SwapStep
<1>9. ASSUME NEW c \in Outpoint, NEW o \in Outpoint, NEW keys \in Key,
             NEW rungs \in Ladders, NEW hi \in Checkpoint, SpliceRekey(c, o, keys, rungs, hi)
      PROVE  SwapStep
  BY <1>9 DEF SpliceRekey, SwapStep, dollars
<1>10. ASSUME NEW c \in Outpoint, NEW keys \in Key, NEW d \in Deadline, NEW hi \in Checkpoint,
              EmitDeadManExit(c, keys, d, hi)
       PROVE  SwapStep
  BY <1>10 DEF EmitDeadManExit, SwapStep, dollars
<1>11. ASSUME NEW s \in Swap, NEW minUsd, ReturnDollars(s, minUsd)
       PROVE  SwapStep
  BY <1>11 DEF ReturnDollars, Discharges, SwapStep, custody
<1>12. ASSUME NEW from \in LP, NEW to \in LP, NEW amount \in 1..MaxTransfer,
              TransferShares(from, to, amount)
       PROVE  SwapStep
  BY <1>12 DEF TransferShares, SwapStep, dollars
<1>13. CASE UNCHANGED vars
  BY <1>13 DEF vars, SwapStep, dollars
<1>14. ASSUME NEW d \in Deposit, NEW floorUsd \in 0..MaxUsd, SettleSwapInProven(d, floorUsd)
       PROVE  SwapStep
  BY <1>14 DEF SwapStep
<1>15. ASSUME NEW s \in Swap, NEW sats \in Sats, NEW usd \in 1..MaxUsd,
              RequestSwapOutOnchain(s, sats, usd)
       PROVE  SwapStep
  BY <1>15 DEF SwapStep
<1>16. ASSUME NEW s \in Swap, BlocksPass(s)
       PROVE  SwapStep
  BY <1>16 DEF SwapStep
<1>17. ASSUME NEW usd, PoolMoves(usd)
       PROVE  SwapStep
  BY <1>17 DEF PoolMoves, SwapStep
<1>18. QED
  BY <1>1, <1>2, <1>3, <1>4, <1>5, <1>6, <1>7, <1>8, <1>9, <1>10, <1>11, <1>12, <1>13,
     <1>14, <1>15, <1>16, <1>17 DEF Next, ReverseSwapOut, RefundExpiredSwapOut

\* The dollars owed are natural numbers, before and after a call.
LEMMA OwedType ==
    /\ TypeOK => OwedUsd \in [Swap -> Nat]
    /\ TypeOK' => OwedUsd' \in [Swap -> Nat]
BY ConstantsAssumption DEF TypeOK, OwedUsd, SwapOutRecord

\* When one record changes, the sum owed changes by its dollars.
LEMMA OwedUpdate ==
    ASSUME TypeOK, TypeOK', NEW s \in Swap,
           \A t \in Swap \ {s} : pendingOnchainSwapOut'[t].usd = pendingOnchainSwapOut[t].usd
    PROVE  /\ Total(OwedUsd, Swap) \in Nat /\ Total(OwedUsd', Swap) \in Nat
           /\ pendingOnchainSwapOut[s].usd \in Nat /\ pendingOnchainSwapOut'[s].usd \in Nat
           /\ Total(OwedUsd', Swap) + pendingOnchainSwapOut[s].usd
                = Total(OwedUsd, Swap) + pendingOnchainSwapOut'[s].usd
<1>1. OwedUsd \in [Swap -> Nat] /\ OwedUsd' \in [Swap -> Nat]
  BY OwedType
<1>2. \A t \in Swap : OwedUsd[t] = pendingOnchainSwapOut[t].usd
                      /\ OwedUsd'[t] = pendingOnchainSwapOut'[t].usd
  BY DEF OwedUsd
<1>3. \A t \in Swap \ {s} : OwedUsd'[t] = OwedUsd[t]
  BY <1>2
<1>4. /\ Total(OwedUsd, Swap) \in Nat /\ Total(OwedUsd', Swap) \in Nat
      /\ Total(OwedUsd', Swap) + OwedUsd[s] = Total(OwedUsd, Swap) + OwedUsd'[s]
  BY <1>1, <1>3, TotalUpdate, ConstantsAssumption
<1>5. OwedUsd[s] \in Nat /\ OwedUsd'[s] \in Nat
  BY <1>1
<1>6. QED
  BY <1>2, <1>4, <1>5

\* Every call preserves the swap invariant.
LEMMA SwapStepInv ==
    ASSUME SwapInv, [Next]_vars
    PROVE  SwapInv'
<1> TypeOK /\ TypeOK' /\ SwapIds /\ ObligationsCovered /\ pendingSwapOutUsd \in Nat
  BY TypeStep DEF SwapInv, TypeOK
<1>1. ASSUME NEW d \in Deposit, NEW floorUsd \in 0..MaxUsd, SettleSwapInProven(d, floorUsd)
      PROVE  SwapIds' /\ ObligationsCovered'
  <2>1. d \notin swapInUsed /\ swapInUsed' = swapInUsed \cup {d}
        /\ credited'[d] = credited[d] + 1 /\ credited[d] \in Nat
        /\ \A e \in Deposit : e # d => credited'[e] = credited[e]
    BY <1>1 DEF SettleSwapInProven, TypeOK
  <2>2. swapOutUsed' = swapOutUsed /\ discharged' = discharged /\ delivered' = delivered
        /\ pendingOnchainSwapOut' = pendingOnchainSwapOut
        /\ pendingSwapOutUsd' = pendingSwapOutUsd
    BY <1>1 DEF SettleSwapInProven
  <2>3. credited[d] = 0 /\ (d \in Swap => discharged[d] = 0)
    BY <2>1 DEF SwapIds
  <2>4. QED
    BY <2>1, <2>2, <2>3 DEF SwapIds, ObligationsCovered, OwedUsd
<1>2. ASSUME NEW s \in Swap, NEW sats \in Sats, NEW usd \in 1..MaxUsd,
             RequestSwapOutOnchain(s, sats, usd)
      PROVE  SwapIds' /\ ObligationsCovered'
  <2>1. s \notin swapOutUsed /\ swapOutUsed' = swapOutUsed \cup {s} /\ swapInUsed' = swapInUsed
        /\ discharged' = discharged /\ credited' = credited /\ delivered' = delivered
        /\ pendingOnchainSwapOut' = [pendingOnchainSwapOut EXCEPT ![s] =
                                        [sats |-> sats, usd |-> usd, expired |-> FALSE]]
        /\ pendingSwapOutUsd' = pendingSwapOutUsd + usd
    BY <1>2 DEF RequestSwapOutOnchain, AddPendingSwapOut
  <2>2. pendingOnchainSwapOut[s] = NoSwapOut /\ discharged[s] = 0
    BY <2>1 DEF SwapIds
  <2>3. pendingOnchainSwapOut[s].usd = 0 /\ pendingOnchainSwapOut'[s].usd = usd
        /\ \A t \in Swap \ {s} : pendingOnchainSwapOut'[t] = pendingOnchainSwapOut[t]
    BY <2>1, <2>2 DEF NoSwapOut, TypeOK
  <2>4. SwapIds'
    BY <2>1, <2>2, <2>3 DEF SwapIds, TypeOK
  <2>5. Total(OwedUsd', Swap) = Total(OwedUsd, Swap) + usd
        /\ Total(OwedUsd, Swap) \in Nat
    BY <2>3, OwedUpdate
  <2>6. QED
    BY <2>1, <2>4, <2>5, ConstantsAssumption DEF ObligationsCovered
<1>3. ASSUME NEW s \in Swap, BlocksPass(s)
      PROVE  SwapIds' /\ ObligationsCovered'
  <2>1. swapOutUsed' = swapOutUsed /\ swapInUsed' = swapInUsed
        /\ discharged' = discharged /\ credited' = credited /\ delivered' = delivered
        /\ pendingSwapOutUsd' = pendingSwapOutUsd
        /\ pendingOnchainSwapOut' = [pendingOnchainSwapOut EXCEPT ![s].expired = TRUE]
    BY <1>3 DEF BlocksPass, dollars
  <2>2. pendingOnchainSwapOut[s] # NoSwapOut
    BY <1>3 DEF BlocksPass, IsPending, NoSwapOut
  <2>3. \A t \in Swap \ {s} : pendingOnchainSwapOut'[t] = pendingOnchainSwapOut[t]
    BY <2>1 DEF TypeOK
  <2>4. pendingOnchainSwapOut'[s].usd = pendingOnchainSwapOut[s].usd
    BY <2>1 DEF TypeOK, SwapOutRecord
  <2>5. SwapIds'
    BY <2>1, <2>2, <2>3 DEF SwapIds, TypeOK
  <2>6. OwedUsd' = OwedUsd
    BY <2>3, <2>4 DEF OwedUsd
  <2>7. QED
    BY <2>1, <2>5, <2>6 DEF ObligationsCovered
<1>4. ASSUME NEW s \in Swap, Discharges(s)
      PROVE  SwapIds' /\ ObligationsCovered'
  <2>1. swapOutUsed' = swapOutUsed /\ swapInUsed' = swapInUsed \cup {s} /\ credited' = credited
        /\ pendingOnchainSwapOut' = [pendingOnchainSwapOut EXCEPT ![s] = NoSwapOut]
        /\ discharged' = [discharged EXCEPT ![s] = @ + 1]
        /\ delivered' \in {delivered, delivered \cup {s}}
    BY <1>4 DEF Discharges, Discharge
  <2>2. pendingOnchainSwapOut[s] # NoSwapOut
    BY <1>4 DEF Discharges, IsPending, NoSwapOut
  <2>3. discharged[s] = 0 /\ s \in swapOutUsed /\ (s \in Deposit => credited[s] = 0)
    BY <1>4, <2>2 DEF SwapIds, Discharges
  <2>4. pendingOnchainSwapOut'[s] = NoSwapOut /\ discharged'[s] = 1
        /\ \A t \in Swap \ {s} : /\ pendingOnchainSwapOut'[t] = pendingOnchainSwapOut[t]
                                  /\ discharged'[t] = discharged[t]
    BY <2>1, <2>3 DEF TypeOK
  <2>5. SwapIds'
    BY <2>1, <2>3, <2>4 DEF SwapIds, TypeOK
  <2>6. pendingOnchainSwapOut'[s].usd = 0
    BY <2>4 DEF NoSwapOut
  <2>7. Total(OwedUsd', Swap) + pendingOnchainSwapOut[s].usd = Total(OwedUsd, Swap)
        /\ Total(OwedUsd, Swap) \in Nat /\ Total(OwedUsd', Swap) \in Nat
        /\ pendingOnchainSwapOut[s].usd \in Nat
    BY <2>4, <2>6, OwedUpdate
  <2>8. \/ pendingSwapOutUsd' = pendingSwapOutUsd - pendingOnchainSwapOut[s].usd
        \/ pendingSwapOutUsd' = pendingSwapOutUsd
    BY <1>4 DEF Discharges, SubPendingSwapOut
  <2>9. QED
    BY <2>5, <2>7, <2>8 DEF ObligationsCovered
<1>5. CASE UNCHANGED <<swaps, pendingSwapOutUsd>>
  BY <1>5 DEF SwapInv, swaps, SwapIds, ObligationsCovered, OwedUsd
<1>6. QED
  BY <1>1, <1>2, <1>3, <1>4, <1>5, SwapKinds DEF SwapInv, SwapStep

\* The swap invariant holds in every reachable state.
THEOREM SwapsCorrect == Spec => []SwapInv
<1>1. Init => SwapInv
  <2> SUFFICES ASSUME Init PROVE SwapInv
    OBVIOUS
  <2>1. TypeOK /\ OwedUsd \in [Swap -> Nat]
    BY TypeInit, OwedType
  <2>2. \A s \in Swap : OwedUsd[s] = 0
    BY DEF Init, OwedUsd, NoSwapOut
  <2>3. Total(OwedUsd, Swap) = 0
    BY <2>1, <2>2, TotalZero
  <2>4. QED
    BY <2>1, <2>3 DEF Init, SwapInv, SwapIds, ObligationsCovered
<1>2. SwapInv /\ [Next]_vars => SwapInv'
  BY SwapStepInv
<1>3. QED
  BY <1>1, <1>2, PTL DEF Spec

\* Delivery, reversal and refund of a swap-out exclude each other, no deposit is
\* credited twice, and an id that names both pays for one of them, whatever ids
\* swappers choose.
THEOREM SettledOnceHolds == Spec => []SettledOnce
<1>1. SwapInv => SettledOnce
  <2> SUFFICES ASSUME SwapInv PROVE SettledOnce
    OBVIOUS
  <2>1. \A s \in Swap : discharged[s] = 0 \/ (discharged[s] = 1 /\ ~IsPending(s))
    BY DEF SwapInv, SwapIds, IsPending, NoSwapOut
  <2>2. \A d \in Deposit : credited[d] = 0 \/ credited[d] = 1
    BY DEF SwapInv, SwapIds
  <2>3. \A x \in Swap \cap Deposit : discharged[x] = 0 \/ credited[x] = 0
    BY DEF SwapInv, SwapIds
  <2>4. QED
    BY <2>1, <2>2, <2>3 DEF SettledOnce
<1>2. QED
  BY <1>1, SwapsCorrect, PTL

\* The dollars Core keeps pending cover what undelivered swappers are owed.
THEOREM ObligationsCoveredHolds == Spec => []ObligationsCovered
<1>1. SwapInv => ObligationsCovered
  BY DEF SwapInv
<1>2. QED
  BY <1>1, SwapsCorrect, PTL

-----------------------------------------------------------------------------
(* Sats and shares. *)

\* No LP whose channel is open gives shares away by a vBTC transfer; it may
\* receive them, and an LP without a channel may transfer as it likes.
KeepsShares ==
    ~ \E from \in hasOpenBtcChannel, to \in LP, amount \in 1..MaxTransfer :
          TransferShares(from, to, amount)

ClaimInv == CustodyInv /\ LockedSatsAreClaimed

\* The LP of an open channel has no other, so what a call does to that LP's
\* shares concerns one channel.
LEMMA OthersKeepClaim ==
    ASSUME ClaimInv, CustodyInv', NEW c \in Outpoint,
           \A d \in Outpoint : d # c => channels'[d] = channels[d]
                                        /\ pendingClaimSats'[d] = pendingClaimSats[d],
           NEW lp \in Account,
           \A d \in Outpoint : d # c /\ IsOpen(d) => channels[d].lpEth # lp,
           \A a \in Account : a # lp => pooled'[a] = pooled[a],
           IsOpen(c)' =>
               pooled'[channels'[c].lpEth] + pendingClaimSats'[c] >= channels'[c].amountSats
    PROVE  LockedSatsAreClaimed'
<1> SUFFICES ASSUME NEW d \in Outpoint, IsOpen(d)'
             PROVE  pooled'[channels'[d].lpEth] + pendingClaimSats'[d] >= channels'[d].amountSats
  BY DEF LockedSatsAreClaimed
<1>1. CASE d = c
  BY <1>1
<1>2. CASE d # c
  <2>1. channels'[d] = channels[d] /\ pendingClaimSats'[d] = pendingClaimSats[d] /\ IsOpen(d)
    BY <1>2 DEF IsOpen
  <2>2. channels[d].lpEth # lp /\ channels[d].lpEth \in Account
    BY <1>2, <2>1, FieldTypes DEF ClaimInv, CustodyInv
  <2>3. pooled[channels[d].lpEth] + pendingClaimSats[d] >= channels[d].amountSats
    BY <2>1 DEF ClaimInv, LockedSatsAreClaimed
  <2>4. QED
    BY <2>1, <2>2, <2>3
<1>3. QED
  BY <1>1, <1>2

\* What a resize leaves of the shares of an LP that covered its channel covers
\* the smaller channel.
LEMMA ResizeCovers ==
    ASSUME TypeOK, NEW lp \in Account, NEW old \in Nat, NEW new \in Nat, new < old,
           NEW usd \in Nat, pooled[lp] >= old, Resize(lp, old - new, usd)
    PROVE  /\ pooled'[lp] >= new
           /\ \A a \in Account : a # lp => pooled'[a] = pooled[a]
<1> pooled \in [Account -> Nat] /\ pooled[lp] \in Nat /\ pooled[lp] # 0
  BY DEF TypeOK
<1> DEFINE removed == Least(old - new, pooled[lp])
<1>1. removed \in Nat /\ removed <= old - new
  BY DEF Least
<1>2. pooled' = [pooled EXCEPT ![lp] = @ - removed]
  BY DEF Resize
<1> HIDE DEF removed
<1>3. pooled'[lp] = pooled[lp] - removed
  BY <1>2
<1>4. QED
  BY <1>1, <1>2, <1>3

\* Calls that move no shares, no record and no claim keep the claims.
LEMMA ClaimsStay ==
    ASSUME LockedSatsAreClaimed, channels' = channels, pendingClaimSats' = pendingClaimSats,
           pooled' = pooled
    PROVE  LockedSatsAreClaimed'
BY DEF LockedSatsAreClaimed, IsOpen

\* openChannel, with the deposit done or deferred
LEMMA ClaimsOpen ==
    ASSUME ClaimInv, CustodyInv',
           NEW lp \in LP, NEW c \in Outpoint, NEW sats \in Sats, NEW keys \in Key,
           NEW rungs \in Ladders, NEW hi \in Checkpoint, NEW deposited \in BOOLEAN,
           OpenChannel(lp, c, sats, keys, rungs, hi, deposited)
    PROVE  LockedSatsAreClaimed'
<1> TypeOK /\ TypeOK' /\ sats \in Nat /\ lp \in Account
  BY DEF ClaimInv, CustodyInv, Sats, Account
<1>1. channels'[c].lpEth = lp /\ channels'[c].amountSats = sats
      /\ \A d \in Outpoint : d # c => channels'[d] = channels[d]
  BY DEF OpenChannel, TypeOK
<1>2. \A d \in Outpoint : IsOpen(d) => channels[d].lpEth # lp
  BY DEF OpenChannel, ClaimInv, CustodyInv, OneOpenChannelPerLp
<1>3. pooled[lp] \in Nat /\ pendingClaimSats[c] \in Nat
  BY ConstantsAssumption DEF TypeOK
<1>4. \A a \in Account : a # lp => pooled'[a] = pooled[a]
  BY DEF OpenChannel, RequestDeposit, shares, TypeOK
<1>5. \A d \in Outpoint : d # c => pendingClaimSats'[d] = pendingClaimSats[d]
  BY DEF OpenChannel, TypeOK
<1>6. pooled'[lp] + pendingClaimSats'[c] >= sats
  <2>1. CASE RequestDeposit(lp, sats) /\ UNCHANGED pendingClaimSats
    <3>1. pooled'[lp] = pooled[lp] + sats
      BY <2>1 DEF RequestDeposit, TypeOK
    <3>2. QED
      BY <2>1, <3>1, <1>3
  <2>2. CASE pendingClaimSats' = [pendingClaimSats EXCEPT ![c] = sats] /\ UNCHANGED shares
    <3>1. pendingClaimSats'[c] = sats /\ pooled'[lp] = pooled[lp]
      BY <2>2 DEF shares, TypeOK
    <3>2. QED
      BY <3>1, <1>3
  <2>3. QED
    BY <2>1, <2>2 DEF OpenChannel
<1>7. QED
  BY <1>1, <1>2, <1>4, <1>5, <1>6, OthersKeepClaim

\* registerChannelClaim
LEMMA ClaimsRegister ==
    ASSUME ClaimInv, CustodyInv', NEW c \in Outpoint, RegisterChannelClaim(c)
    PROVE  LockedSatsAreClaimed'
<1> DEFINE lp == channels[c].lpEth
           sats == Least(pendingClaimSats[c], channels[c].amountSats)
<1> TypeOK /\ lp \in Account
  BY FieldTypes DEF ClaimInv, CustodyInv
<1>1. pendingClaimSats[c] \in Nat /\ channels[c].amountSats \in Nat /\ pooled[lp] \in Nat
  BY FieldTypes, ConstantsAssumption DEF TypeOK
<1>2. sats # 0 /\ channels' = channels /\ pendingClaimSats'[c] = 0
      /\ \A d \in Outpoint : d # c => pendingClaimSats'[d] = pendingClaimSats[d]
  BY DEF RegisterChannelClaim, custody, TypeOK
<1>3. pooled'[lp] = pooled[lp] + sats /\ \A a \in Account : a # lp => pooled'[a] = pooled[a]
  BY DEF RegisterChannelClaim, RequestDeposit, TypeOK
<1>4. pendingClaimSats[c] # 0
  BY <1>1, <1>2 DEF Least
<1>5. IsOpen(c) /\ pendingClaimSats[c] <= channels[c].amountSats
  BY <1>4 DEF ClaimInv, CustodyInv, DeferredClaimFits
<1>6. sats = pendingClaimSats[c]
  BY <1>1, <1>5 DEF Least
<1>7. pooled[lp] + pendingClaimSats[c] >= channels[c].amountSats
  BY <1>5 DEF ClaimInv, LockedSatsAreClaimed
<1>8. \A d \in Outpoint : d # c /\ IsOpen(d) => channels[d].lpEth # lp
  BY <1>5 DEF ClaimInv, CustodyInv, OneOpenChannelPerLp
<1>9. pooled'[channels'[c].lpEth] + pendingClaimSats'[c] >= channels'[c].amountSats
  BY <1>1, <1>2, <1>3, <1>6, <1>7
<1> HIDE DEF lp, sats
<1>10. QED
  BY <1>2, <1>3, <1>8, <1>9, OthersKeepClaim

\* splice and deliverSwapOutOnchain: shares are minted for the growth or burned
\* for the withdrawal of the same LP.
LEMMA ClaimsMoves ==
    ASSUME ClaimInv, CustodyInv',
           NEW c \in Outpoint, NEW o \in Outpoint, NEW sats \in 0..MaxSats, NEW keys \in Key,
           NEW rungs \in Ladders, NEW hi \in Checkpoint, NEW usd \in Nat,
           Moves(c, o, sats, keys, rungs, hi),
           \/ sats > channels[c].amountSats
              /\ RequestDeposit(channels[c].lpEth, sats - channels[c].amountSats)
           \/ sats < channels[c].amountSats
              /\ Resize(channels[c].lpEth, channels[c].amountSats - sats, usd)
           \/ sats = channels[c].amountSats /\ UNCHANGED shares
    PROVE  LockedSatsAreClaimed'
<1> DEFINE lp == channels[c].lpEth
           old == channels[c].amountSats
<1> TypeOK /\ TypeOK' /\ lp \in Account /\ old \in Nat /\ sats \in Nat
  BY FieldTypes, ConstantsAssumption DEF ClaimInv, CustodyInv
<1>1. IsOpen(c)
  BY SpentIsOpen DEF ClaimInv, Moves
<1>2. pooled[lp] + pendingClaimSats[c] >= old /\ pooled[lp] \in Nat /\ pendingClaimSats[c] \in Nat
  BY <1>1, ConstantsAssumption DEF ClaimInv, LockedSatsAreClaimed, TypeOK
<1>3. \A d \in Outpoint : d # c /\ IsOpen(d) => channels[d].lpEth # lp
  BY <1>1 DEF ClaimInv, CustodyInv, OneOpenChannelPerLp
<1>4. channels'[c].amountSats = sats /\ channels'[c].lpEth = lp
      /\ \A d \in Outpoint : d # c => channels'[d] = channels[d]
  BY MovedFields
<1>5. pendingClaimSats' = pendingClaimSats /\ (sats >= old \/ pendingClaimSats[c] = 0)
  BY DEF Moves
<1>6. pooled'[lp] + pendingClaimSats[c] >= sats
      /\ \A a \in Account : a # lp => pooled'[a] = pooled[a]
  <2>1. CASE sats > old /\ RequestDeposit(lp, sats - old)
    <3>1. pooled'[lp] = pooled[lp] + (sats - old)
          /\ \A a \in Account : a # lp => pooled'[a] = pooled[a]
      BY <2>1 DEF RequestDeposit, TypeOK
    <3>2. QED
      BY <1>2, <3>1
  <2>2. CASE sats < old /\ Resize(lp, old - sats, usd)
    <3>1. pendingClaimSats[c] = 0 /\ pooled[lp] >= old
      BY <1>2, <1>5, <2>2
    <3>2. pooled'[lp] >= sats /\ \A a \in Account : a # lp => pooled'[a] = pooled[a]
      BY <2>2, <3>1, ResizeCovers
    <3>3. pooled'[lp] \in Nat
      BY DEF TypeOK
    <3>4. QED
      BY <3>1, <3>2, <3>3
  <2>3. CASE sats = old /\ UNCHANGED shares
    BY <1>2, <2>3 DEF shares
  <2>4. QED
    BY <2>1, <2>2, <2>3
<1> HIDE DEF lp, old
<1>7. QED
  BY <1>3, <1>4, <1>5, <1>6, OthersKeepClaim

\* The three ways of recording a close
LEMMA ClaimsCloses ==
    ASSUME ClaimInv, CustodyInv', NEW c \in Outpoint, Closes(c)
    PROVE  LockedSatsAreClaimed'
<1> DEFINE lp == channels[c].lpEth
<1> TypeOK /\ lp \in Account
  BY FieldTypes DEF ClaimInv, CustodyInv
<1>1. IsOpen(c)
  BY SpentIsOpen DEF ClaimInv, Closes
<1>2. ~IsOpen(c)' /\ \A d \in Outpoint : d # c => channels'[d] = channels[d]
  BY ClosedFields DEF IsOpen, STATUS_OPEN, STATUS_CLOSED
<1>3. \A d \in Outpoint : d # c => pendingClaimSats'[d] = pendingClaimSats[d]
  BY DEF Closes, FinalizeClose, TypeOK
<1>4. \A a \in Account : a # lp => pooled'[a] = pooled[a]
  BY DEF Closes, FinalizeClose, RequestRedeem, shares, TypeOK
<1>5. \A d \in Outpoint : d # c /\ IsOpen(d) => channels[d].lpEth # lp
  BY <1>1 DEF ClaimInv, CustodyInv, OneOpenChannelPerLp
<1> HIDE DEF lp
<1>6. QED
  BY <1>2, <1>3, <1>4, <1>5, OthersKeepClaim

\* A transfer from an LP without an open channel
LEMMA ClaimsTransfer ==
    ASSUME ClaimInv, KeepsShares,
           NEW from \in LP, NEW to \in LP, NEW amount \in 1..MaxTransfer,
           TransferShares(from, to, amount)
    PROVE  LockedSatsAreClaimed'
<1> TypeOK /\ from \in Account /\ to \in Account /\ amount \in Nat
  BY DEF ClaimInv, CustodyInv, Account
<1>1. from \notin hasOpenBtcChannel
  BY DEF KeepsShares
<1>2. channels' = channels /\ pendingClaimSats' = pendingClaimSats
  BY DEF TransferShares, custody
<1>3. pooled' = [pooled EXCEPT ![from] = @ - amount, ![to] = @ + amount] /\ from # to
  BY DEF TransferShares
<1>4. \A a \in Account : a # from => pooled[a] \in Nat /\ pooled'[a] >= pooled[a] /\ pooled'[a] \in Nat
  BY <1>3 DEF TypeOK
<1> SUFFICES ASSUME NEW d \in Outpoint, IsOpen(d)
             PROVE  pooled'[channels[d].lpEth] + pendingClaimSats[d] >= channels[d].amountSats
  BY <1>2 DEF LockedSatsAreClaimed, IsOpen
<1>5. channels[d].lpEth \in LP
  BY DEF IsOpen, ClaimInv, CustodyInv, KnownChannelRecord
<1>6. channels[d].lpEth # from /\ channels[d].lpEth \in Account
  BY <1>1, <1>5 DEF ClaimInv, CustodyInv, OneOpenChannelPerLp, Account
<1>7. pooled[channels[d].lpEth] + pendingClaimSats[d] >= channels[d].amountSats
  BY DEF ClaimInv, LockedSatsAreClaimed
<1>8. pendingClaimSats[d] \in Nat /\ channels[d].amountSats \in Nat
  BY FieldTypes, ConstantsAssumption DEF TypeOK
<1>9. QED
  BY <1>4, <1>6, <1>7, <1>8

\* Every call keeps every locked sat claimed.
LEMMA ClaimStep ==
    ASSUME ClaimInv, CustodyInv', KeepsShares, [Next]_vars
    PROVE  LockedSatsAreClaimed'
<1> TypeOK /\ Sats \subseteq 0..MaxSats /\ SatsLeft = 0..MaxSats
  BY ConstantsAssumption DEF ClaimInv, CustodyInv, Sats, SatsLeft
<1> LockedSatsAreClaimed
  BY DEF ClaimInv
<1>1. ASSUME NEW c \in Outpoint, NEW o \in Outpoint, NEW sats \in SatsLeft, NEW keys \in Key,
             NEW rungs \in Ladders, NEW hi \in Checkpoint,
             SpliceGrow(c, o, sats, keys, rungs, hi) \/ SpliceShrink(c, o, sats, keys, rungs, hi)
      PROVE  LockedSatsAreClaimed'
  <2>1. Moves(c, o, sats, keys, rungs, hi)
    BY <1>1, GrowMoves, ShrinkMoves
  <2>2. \/ sats > channels[c].amountSats
           /\ RequestDeposit(channels[c].lpEth, sats - channels[c].amountSats)
        \/ sats < channels[c].amountSats
           /\ Resize(channels[c].lpEth, channels[c].amountSats - sats, 0)
    BY <1>1 DEF SpliceGrow, SpliceShrink
  <2>3. 0 \in Nat /\ sats \in 0..MaxSats
    OBVIOUS
  <2>4. QED
    BY <2>1, <2>2, <2>3, ClaimsMoves
<1>2. ASSUME NEW c \in Outpoint, NEW o \in Outpoint, NEW keys \in Key,
             NEW rungs \in Ladders, NEW hi \in Checkpoint, SpliceRekey(c, o, keys, rungs, hi)
      PROVE  LockedSatsAreClaimed'
  <2>1. Moves(c, o, channels[c].amountSats, keys, rungs, hi) /\ UNCHANGED shares
    BY <1>2, RekeyMoves DEF SpliceRekey
  <2>2. 0 \in Nat /\ channels[c].amountSats \in 0..MaxSats
    BY FieldTypes
  <2>3. QED
    BY <2>1, <2>2, ClaimsMoves
<1>3. ASSUME NEW s \in Swap, NEW c \in Outpoint, NEW o \in Outpoint, NEW sats \in SatsLeft,
             NEW keys \in Key, NEW rungs \in Ladders, NEW hi \in Checkpoint,
             DeliverSwapOutOnchain(s, c, o, sats, keys, rungs, hi)
      PROVE  LockedSatsAreClaimed'
  <2>1. Moves(c, o, sats, keys, rungs, hi)
    BY <1>3, DeliverMoves
  <2>2. sats < channels[c].amountSats
        /\ Resize(channels[c].lpEth, channels[c].amountSats - sats, pendingOnchainSwapOut[s].usd)
    BY <1>3 DEF DeliverSwapOutOnchain
  <2>3. pendingOnchainSwapOut[s].usd \in Nat /\ sats \in 0..MaxSats
    BY ConstantsAssumption DEF TypeOK, SwapOutRecord
  <2>4. QED
    BY <2>1, <2>2, <2>3, ClaimsMoves
<1>4. ASSUME NEW c \in Outpoint, Closes(c)
      PROVE  LockedSatsAreClaimed'
  BY <1>4, ClaimsCloses
<1>5. ASSUME NEW c \in Outpoint, NEW keys \in Key, NEW coop \in BOOLEAN,
             NEW paid \in 0..MaxSats, NEW byLp \in BOOLEAN,
             RecordClose(c, keys, coop, paid, byLp)
      PROVE  LockedSatsAreClaimed'
  BY <1>4, <1>5 DEF RecordClose, Closes
<1>6. ASSUME NEW c \in Outpoint, NEW keys \in Key, NEW d \in Deadline,
             RecordDeadManExit(c, keys, d)
      PROVE  LockedSatsAreClaimed'
  BY <1>4, <1>6 DEF RecordDeadManExit, Closes
<1>7. ASSUME NEW c \in Outpoint, RecordForceClosePermissionless(c)
      PROVE  LockedSatsAreClaimed'
  BY <1>4, <1>7 DEF RecordForceClosePermissionless, Closes
<1>8. ASSUME NEW c \in Outpoint, NEW keys \in Key, NEW d \in Deadline, NEW hi \in Checkpoint,
             EmitDeadManExit(c, keys, d, hi)
      PROVE  LockedSatsAreClaimed'
  BY <1>8, ClaimsStay DEF EmitDeadManExit, custody, shares
<1>9. ASSUME NEW d \in Deposit, NEW floorUsd \in 0..MaxUsd, SettleSwapInProven(d, floorUsd)
      PROVE  LockedSatsAreClaimed'
  BY <1>9, ClaimsStay DEF SettleSwapInProven, custody, shares
<1>10. ASSUME NEW s \in Swap, NEW sats \in Sats, NEW usd \in 1..MaxUsd,
              RequestSwapOutOnchain(s, sats, usd)
       PROVE  LockedSatsAreClaimed'
  BY <1>10, ClaimsStay DEF RequestSwapOutOnchain, custody, shares
<1>11. ASSUME NEW s \in Swap, NEW minUsd,
              BlocksPass(s) \/ ReverseSwapOut(s) \/ RefundExpiredSwapOut(s, minUsd)
       PROVE  LockedSatsAreClaimed'
  BY <1>11, ClaimsStay DEF BlocksPass, ReverseSwapOut, RefundExpiredSwapOut, ReturnDollars,
     custody, shares
<1>12. CASE UNCHANGED vars
  BY <1>12, ClaimsStay DEF vars, custody, shares
<1>13. ASSUME NEW lp \in LP, NEW c \in Outpoint, NEW sats \in Sats, NEW keys \in Key,
              NEW rungs \in Ladders, NEW hi \in Checkpoint, NEW deposited \in BOOLEAN,
              OpenChannel(lp, c, sats, keys, rungs, hi, deposited)
       PROVE  LockedSatsAreClaimed'
  BY <1>13, ClaimsOpen
<1>14. ASSUME NEW c \in Outpoint, RegisterChannelClaim(c)
       PROVE  LockedSatsAreClaimed'
  BY <1>14, ClaimsRegister
<1>15. ASSUME NEW from \in LP, NEW to \in LP, NEW amount \in 1..MaxTransfer,
              TransferShares(from, to, amount)
       PROVE  LockedSatsAreClaimed'
  BY <1>15, ClaimsTransfer
<1>16. ASSUME NEW usd, PoolMoves(usd)
       PROVE  LockedSatsAreClaimed'
  BY <1>16, ClaimsStay DEF PoolMoves, custody, shares
<1>17. QED
  BY <1>1, <1>2, <1>3, <1>5, <1>6, <1>7, <1>8, <1>9, <1>10, <1>11, <1>12, <1>13, <1>14, <1>15,
     <1>16 DEF Next

\* As long as no LP gives shares away while its channel is open, every sat in an
\* open channel is a share of that channel's LP or a deferred claim: splices,
\* clamped burns, deferred deposits and the closes of other channels never take
\* the shares that stand for it.
THEOREM LockedSatsAreClaimedHolds ==
    Spec /\ [][KeepsShares]_vars => []LockedSatsAreClaimed
<1>1. Init => ClaimInv
  BY CustodyInit DEF Init, ClaimInv, LockedSatsAreClaimed, IsOpen, ZeroChannel
<1>2. ClaimInv /\ [Next]_vars /\ [KeepsShares]_vars => ClaimInv'
  <2> SUFFICES ASSUME ClaimInv, [Next]_vars, [KeepsShares]_vars PROVE ClaimInv'
    OBVIOUS
  <2>1. CustodyInv'
    BY CustodyStepInv DEF ClaimInv
  <2>2. CASE KeepsShares
    BY <2>1, <2>2, ClaimStep DEF ClaimInv
  <2>3. CASE UNCHANGED vars
    BY <2>1, <2>3, ClaimsStay DEF ClaimInv, vars, custody, shares
  <2>4. QED
    BY <2>2, <2>3
<1>3. ClaimInv => LockedSatsAreClaimed
  BY DEF ClaimInv
<1>4. QED
  BY <1>1, <1>2, <1>3, PTL DEF Spec

\* Where no transfers are made at all (MaxTransfer = 0), no further condition
\* is needed.
THEOREM ClaimedWithoutTransfers ==
    ASSUME MaxTransfer = 0
    PROVE  Spec => []LockedSatsAreClaimed
<1>1. [Next]_vars => [KeepsShares]_vars
  <2>1. 1..MaxTransfer = {}
    OBVIOUS
  <2>2. QED
    BY <2>1 DEF KeepsShares
<1>2. QED
  BY <1>1, LockedSatsAreClaimedHolds, PTL DEF Spec

-----------------------------------------------------------------------------
(* Ways out that nothing blocks. *)

\* Every condition recordDeadManExit and _finalizeClose put on the state, the
\* unsigned subtractions included, for an open channel.
ExitNeverBlocked ==
    \A c \in Outpoint : IsOpen(c) =>
        /\ WhenOpen(c) /\ TxSpendsChannel(c)
        /\ \E keys \in Key : RequireChannelKeys(c, keys)
        /\ \E d \in Deadline : d \in exitArmedOnOutpoint[channels[c].outpoint]
        /\ totalSatsLocked >= channels[c].amountSats
        /\ lpShares >= pooled[channels[c].lpEth]

\* An armed exit of an open channel passes every check of recordDeadManExit,
\* after any number of splices, key rotations and deferred claims.
THEOREM ExitNeverBlockedHolds == Spec => []ExitNeverBlocked
<1>1. CustodyInv /\ CloseNeverUnderflows => ExitNeverBlocked
  <2> SUFFICES ASSUME CustodyInv, CloseNeverUnderflows, NEW c \in Outpoint, IsOpen(c)
               PROVE  /\ WhenOpen(c) /\ TxSpendsChannel(c)
                      /\ \E keys \in Key : RequireChannelKeys(c, keys)
                      /\ \E d \in Deadline : d \in exitArmedOnOutpoint[channels[c].outpoint]
                      /\ totalSatsLocked >= channels[c].amountSats
                      /\ lpShares >= pooled[channels[c].lpEth]
    BY DEF ExitNeverBlocked
  <2>1. channels[c].outpoint \in Outpoint /\ channels[c].keysHash \in Key
    BY DEF CustodyInv, KnownChannelRecord, IsOpen
  <2>2. WhenOpen(c) /\ TxSpendsChannel(c) /\ \E keys \in Key : RequireChannelKeys(c, keys)
    BY <2>1, ConstantsAssumption DEF WhenOpen, IsOpen, TxSpendsChannel, RequireChannelKeys
  <2>3. \E d \in Deadline : d \in exitArmedOnOutpoint[channels[c].outpoint]
    BY <2>1 DEF CustodyInv, OpenChannelHasLadder, TypeOK
  <2>4. QED
    BY <2>2, <2>3 DEF CloseNeverUnderflows
<1>2. QED
  BY <1>1, CustodyCorrect, CloseNeverUnderflowsHolds, PTL

\* A record is expired only while it is pending, and its id was burned by
\* nothing but its own discharge, or by the credit of a deposit whose txid it is.
RefundIds ==
    \A s \in Swap :
        /\ IsPending(s) \/ pendingOnchainSwapOut[s] = NoSwapOut
        /\ s \in swapInUsed => discharged[s] # 0 \/ (s \in Deposit /\ credited[s] # 0)

\* The pool can fill a refund of usd in full and keep what the counter reserves
\* for the others: the checks creditSwapIn ends with.
FillsAndKeepsReserve(usd) ==
    \E held \in pooledUsd..MaxPoolUsd : \E filled \in 0..held : \E sent \in 0..filled :
        /\ filled >= usd
        /\ filled # 0 => sent # 0
        /\ held - sent >= pendingSwapOutUsd - usd

\* Every condition refundExpiredSwapOut and creditSwapIn put on the state, for a
\* swap-out that is still owed, while the pool holds what the counter reserves.
\* The id is a swapper's choice: one who names the txid of a deposit shares its
\* used-id slot.
RefundNeverBlocked ==
    \A s \in Swap :
        /\ pendingOnchainSwapOut[s] # NoSwapOut
        /\ pooledUsd >= pendingSwapOutUsd
        /\ s \in Deposit => credited[s] = 0
        => /\ IsPending(s)
           /\ s \notin swapInUsed
           /\ pendingSwapOutUsd >= pendingOnchainSwapOut[s].usd
           /\ FillsAndKeepsReserve(pendingOnchainSwapOut[s].usd)

\* Every call keeps the ids of pending swap-outs free.
LEMMA RefundStep ==
    ASSUME SwapInv, RefundIds, [Next]_vars
    PROVE  RefundIds'
<1> TypeOK
  BY DEF SwapInv
<1>1. ASSUME NEW d \in Deposit, NEW floorUsd \in 0..MaxUsd, SettleSwapInProven(d, floorUsd)
      PROVE  RefundIds'
  <2>1. swapInUsed' = swapInUsed \cup {d} /\ discharged' = discharged
        /\ pendingOnchainSwapOut' = pendingOnchainSwapOut
        /\ credited' = [credited EXCEPT ![d] = @ + 1]
    BY <1>1 DEF SettleSwapInProven
  <2>2. \A e \in Deposit : (e = d \/ credited[e] # 0) => credited'[e] # 0
    BY <2>1 DEF TypeOK
  <2>3. QED
    BY <2>1, <2>2 DEF RefundIds, IsPending
<1>2. ASSUME NEW s \in Swap, NEW sats \in Sats, NEW usd \in 1..MaxUsd,
             RequestSwapOutOnchain(s, sats, usd)
      PROVE  RefundIds'
  <2>1. swapInUsed' = swapInUsed /\ discharged' = discharged /\ credited' = credited
    BY <1>2 DEF RequestSwapOutOnchain
  <2>2. pendingOnchainSwapOut'[s].sats = sats /\ sats # 0
        /\ \A t \in Swap : t # s => pendingOnchainSwapOut'[t] = pendingOnchainSwapOut[t]
    BY <1>2, ConstantsAssumption DEF RequestSwapOutOnchain, TypeOK, Sats
  <2>3. QED
    BY <2>1, <2>2 DEF RefundIds, IsPending
<1>3. ASSUME NEW s \in Swap, BlocksPass(s)
      PROVE  RefundIds'
  <2>1. swapInUsed' = swapInUsed /\ discharged' = discharged /\ credited' = credited
        /\ pendingOnchainSwapOut' = [pendingOnchainSwapOut EXCEPT ![s].expired = TRUE]
        /\ IsPending(s)
    BY <1>3 DEF BlocksPass
  <2>2. pendingOnchainSwapOut'[s].sats = pendingOnchainSwapOut[s].sats
        /\ \A t \in Swap : t # s => pendingOnchainSwapOut'[t] = pendingOnchainSwapOut[t]
    BY <2>1 DEF TypeOK, SwapOutRecord
  <2>3. QED
    BY <2>1, <2>2 DEF RefundIds, IsPending
<1>4. ASSUME NEW s \in Swap, Discharges(s)
      PROVE  RefundIds'
  <2>1. swapInUsed' = swapInUsed \cup {s} /\ credited' = credited
        /\ pendingOnchainSwapOut' = [pendingOnchainSwapOut EXCEPT ![s] = NoSwapOut]
        /\ discharged' = [discharged EXCEPT ![s] = @ + 1]
    BY <1>4 DEF Discharges, Discharge
  <2>2. pendingOnchainSwapOut'[s] = NoSwapOut /\ discharged'[s] # 0
        /\ \A t \in Swap : t # s => pendingOnchainSwapOut'[t] = pendingOnchainSwapOut[t]
                                    /\ discharged'[t] = discharged[t]
    BY <2>1 DEF TypeOK
  <2>3. QED
    BY <2>1, <2>2 DEF RefundIds, IsPending
<1>5. CASE UNCHANGED <<swaps, pendingSwapOutUsd>>
  BY <1>5 DEF swaps, RefundIds, IsPending
<1>6. QED
  BY <1>1, <1>2, <1>3, <1>4, <1>5, SwapKinds DEF SwapStep

\* A swap-out that is still owed can be refunded in full as long as the pool
\* holds what the counter reserves: the counter holds its dollars, no delivery,
\* reversal or other swap burned its id, and the reserve check is met.
THEOREM RefundNeverBlockedHolds == Spec => []RefundNeverBlocked
<1>1. Init => RefundIds
  BY DEF Init, RefundIds
<1>2. SwapInv /\ RefundIds /\ [Next]_vars => RefundIds'
  BY RefundStep
<1>3. SwapInv /\ RefundIds => RefundNeverBlocked
  <2> SUFFICES ASSUME SwapInv, RefundIds, NEW s \in Swap, pendingOnchainSwapOut[s] # NoSwapOut,
                      pooledUsd >= pendingSwapOutUsd, s \in Deposit => credited[s] = 0
               PROVE  /\ IsPending(s)
                      /\ s \notin swapInUsed
                      /\ pendingSwapOutUsd >= pendingOnchainSwapOut[s].usd
                      /\ FillsAndKeepsReserve(pendingOnchainSwapOut[s].usd)
    BY DEF RefundNeverBlocked
  <2>1. IsPending(s) /\ discharged[s] = 0
    BY DEF RefundIds, SwapInv, SwapIds
  <2>2. OwedUsd \in [Swap -> Nat] /\ OwedUsd[s] = pendingOnchainSwapOut[s].usd
    BY OwedType DEF SwapInv, OwedUsd
  <2>3. OwedUsd[s] <= Total(OwedUsd, Swap) /\ Total(OwedUsd, Swap) \in Nat /\ OwedUsd[s] \in Nat
    BY <2>2, TotalType, ConstantsAssumption
  <2>4. pendingSwapOutUsd >= pendingOnchainSwapOut[s].usd
    BY <2>2, <2>3 DEF SwapInv, TypeOK, ObligationsCovered
  <2>5. s \notin swapInUsed
    BY <2>1 DEF RefundIds
  <2>6. PICK usd \in Nat : usd = pendingOnchainSwapOut[s].usd
    BY <2>2, <2>3
  <2>7. /\ pooledUsd \in Nat /\ pooledUsd <= MaxPoolUsd /\ MaxPoolUsd \in Nat
        /\ pendingSwapOutUsd \in Nat
    BY ConstantsAssumption DEF SwapInv, TypeOK
  <2>8. /\ pooledUsd \in pooledUsd..MaxPoolUsd /\ usd \in 0..pooledUsd /\ usd \in 0..usd
        /\ usd >= usd /\ pooledUsd - usd >= pendingSwapOutUsd - usd
    BY <2>4, <2>6, <2>7
  <2>9. FillsAndKeepsReserve(usd)
    BY <2>8 DEF FillsAndKeepsReserve
  <2>10. QED
    BY <2>1, <2>4, <2>5, <2>6, <2>9
<1>4. QED
  BY <1>1, <1>2, <1>3, SwapsCorrect, PTL DEF Spec

-----------------------------------------------------------------------------
(* The two ledgers the bridge relies on. *)

\* A call that uses an outpoint uses one that was not used before.
LEMMA UsedStep ==
    ASSUME TypeOK, [Next]_vars
    PROVE  \/ fundingOutpointUsed' = fundingOutpointUsed
           \/ \E o \in Outpoint : /\ o \notin fundingOutpointUsed
                                  /\ fundingOutpointUsed' = fundingOutpointUsed \cup {o}
<1>1. CustodyStep
  BY StepKinds
<1>2. ASSUME NEW lp, NEW c \in Outpoint, NEW sats, NEW keys, NEW rungs, NEW hi, NEW deposited,
             OpenChannel(lp, c, sats, keys, rungs, hi, deposited)
      PROVE  c \notin fundingOutpointUsed /\ fundingOutpointUsed' = fundingOutpointUsed \cup {c}
  BY <1>2 DEF OpenChannel, UseOutpoint
<1>3. ASSUME NEW c, NEW o \in Outpoint, NEW sats, NEW keys, NEW rungs, NEW hi,
             Moves(c, o, sats, keys, rungs, hi)
      PROVE  o \notin fundingOutpointUsed /\ fundingOutpointUsed' = fundingOutpointUsed \cup {o}
  BY <1>3 DEF Moves, MoveChannel, UseOutpoint
<1>4. ASSUME \/ \E c \in Outpoint : RegisterChannelClaim(c) \/ Closes(c)
             \/ \E c \in Outpoint, keys \in Key, d \in Deadline, hi \in Checkpoint :
                  EmitDeadManExit(c, keys, d, hi)
             \/ UNCHANGED <<custody, ladders, pendingClaimSats>>
      PROVE  fundingOutpointUsed' = fundingOutpointUsed
  BY <1>4 DEF RegisterChannelClaim, EmitDeadManExit, Closes, FinalizeClose, custody
<1>5. QED
  BY <1>1, <1>2, <1>3, <1>4 DEF CustodyStep

\* How the status of a channel is read off its record.
LEMMA StatusCases ==
    ASSUME CustodyInv, NEW c \in Outpoint
    PROVE  /\ ChannelStatus[c] = "none" <=> ~Known(c)
           /\ ChannelStatus[c] = "open" <=> IsOpen(c)
           /\ ChannelStatus[c] = "closed" <=> channels[c].status = STATUS_CLOSED
<1>1. channels[c].status \in {STATUS_OPEN, STATUS_CLOSED} /\ STATUS_OPEN # STATUS_CLOSED
  BY FieldTypes DEF CustodyInv, STATUS_OPEN, STATUS_CLOSED
<1>2. ~Known(c) => channels[c].status = STATUS_OPEN
  BY DEF CustodyInv, UnknownChannelUntouched, ZeroChannel
<1>3. QED
  BY <1>1, <1>2 DEF ChannelStatus, IsOpen

\* A call that leaves status and outpoint of all channels but c alone.
OnlyChannel(c) ==
    \A d \in Outpoint \ {c} : channels'[d] = channels[d]

\* Read as functions of the channel, status and outpoint change at c only.
LEMMA LedgerUpdate ==
    ASSUME NEW c \in Outpoint, OnlyChannel(c)
    PROVE  /\ ChannelStatus' = [ChannelStatus EXCEPT ![c] = ChannelStatus'[c]]
           /\ [d \in Outpoint |-> channels[d].outpoint]' =
                [[d \in Outpoint |-> channels[d].outpoint] EXCEPT ![c] = channels'[c].outpoint]
<1>1. \A d \in Outpoint : ChannelStatus'[d] = [ChannelStatus EXCEPT ![c] = ChannelStatus'[c]][d]
  BY DEF OnlyChannel, ChannelStatus
<1>2. ChannelStatus' = [d \in Outpoint |-> ChannelStatus'[d]]
      /\ ChannelStatus = [d \in Outpoint |-> ChannelStatus[d]]
  BY DEF ChannelStatus
<1>3. ChannelStatus' = [ChannelStatus EXCEPT ![c] = ChannelStatus'[c]]
  BY <1>1, <1>2
<1>4. QED
  BY <1>3 DEF OnlyChannel

\* Every call is a step of the ledger of channels, or none.
LEMMA ChannelLedgerStep ==
    ASSUME CustodyInv, CustodyInv', [Next]_vars
    PROVE  Custody!Next \/ UNCHANGED Custody!vars
<1>1. TypeOK /\ TypeOK' /\ CustodyStep
  BY StepKinds DEF CustodyInv
<1>2. ASSUME NEW lp \in LP, NEW c \in Outpoint, NEW sats \in Sats, NEW keys \in Key,
             NEW rungs \in Ladders, NEW hi \in Checkpoint, NEW deposited \in BOOLEAN,
             OpenChannel(lp, c, sats, keys, rungs, hi, deposited)
      PROVE  Custody!Open(c, c)
  <2>1. /\ c \notin fundingOutpointUsed
        /\ fundingOutpointUsed' = fundingOutpointUsed \cup {c}
        /\ channels'[c] = [amountSats |-> sats, outpoint |-> c, lpEth |-> lp,
                           status |-> STATUS_OPEN, keysHash |-> keys]
        /\ OnlyChannel(c)
    BY <1>1, <1>2 DEF OpenChannel, UseOutpoint, OnlyChannel, TypeOK
  <2>2. lp # NoLp /\ ~Known(c)
    BY <2>1, ConstantsAssumption DEF CustodyInv, OutpointBacksOneChannel
  <2>3. ChannelStatus[c] = "none"
    BY <2>2, StatusCases
  <2>4. ChannelStatus'[c] = "open" /\ channels'[c].outpoint = c
    BY <2>1, <2>2 DEF ChannelStatus, STATUS_OPEN, STATUS_CLOSED
  <2>5. QED
    BY <2>1, <2>3, <2>4, LedgerUpdate DEF Custody!Open, Custody!Place
<1>3. ASSUME NEW c \in Outpoint, NEW o \in Outpoint, NEW sats \in 0..MaxSats, NEW keys \in Key,
             NEW rungs \in Ladders, NEW hi \in Checkpoint,
             Moves(c, o, sats, keys, rungs, hi)
      PROVE  Custody!Move(c, o)
  <2>1. /\ channels'[c].lpEth = channels[c].lpEth /\ channels'[c].outpoint = o
        /\ channels'[c].status = STATUS_OPEN /\ OnlyChannel(c)
    BY <1>1, <1>3, MovedFields DEF OnlyChannel
  <2>2. o \notin fundingOutpointUsed /\ fundingOutpointUsed' = fundingOutpointUsed \cup {o}
    BY <1>3 DEF Moves, MoveChannel, UseOutpoint
  <2>3. IsOpen(c)
    BY <1>3, SpentIsOpen DEF Moves
  <2>4. ChannelStatus[c] = "open"
    BY <2>3, StatusCases
  <2>5. ChannelStatus'[c] = "open"
    BY <1>3, <2>1, <2>3 DEF ChannelStatus, IsOpen, STATUS_OPEN, STATUS_CLOSED
  <2>6. ChannelStatus' = ChannelStatus
    BY <2>1, <2>4, <2>5 DEF ChannelStatus, OnlyChannel
  <2>7. QED
    BY <2>1, <2>2, <2>4, <2>6, LedgerUpdate DEF Custody!Move, Custody!Place
<1>4. ASSUME NEW c \in Outpoint, Closes(c)
      PROVE  Custody!Close(c)
  <2>1. /\ channels'[c].outpoint = channels[c].outpoint
        /\ channels'[c].status = STATUS_CLOSED /\ OnlyChannel(c)
    BY <1>1, <1>4, ClosedFields DEF OnlyChannel
  <2>2. fundingOutpointUsed' = fundingOutpointUsed
    BY <1>4 DEF Closes, FinalizeClose
  <2>3. IsOpen(c)
    BY <1>4, SpentIsOpen DEF Closes
  <2>4. ChannelStatus[c] = "open" /\ ChannelStatus'[c] = "closed"
    BY <2>1, <2>3, StatusCases DEF ChannelStatus
  <2>5. [d \in Outpoint |-> channels[d].outpoint]' = [d \in Outpoint |-> channels[d].outpoint]
    BY <2>1 DEF OnlyChannel
  <2>6. QED
    BY <2>1, <2>2, <2>4, <2>5, LedgerUpdate DEF Custody!Close
<1>5. CASE UNCHANGED <<channels, fundingOutpointUsed>>
  BY <1>5 DEF Custody!vars, ChannelStatus
<1>6. ASSUME \/ \E c \in Outpoint : RegisterChannelClaim(c)
             \/ \E c \in Outpoint, keys \in Key, d \in Deadline, hi \in Checkpoint :
                  EmitDeadManExit(c, keys, d, hi)
             \/ UNCHANGED <<custody, ladders, pendingClaimSats>>
      PROVE  UNCHANGED <<channels, fundingOutpointUsed>>
  BY <1>6 DEF RegisterChannelClaim, EmitDeadManExit, custody
<1>7. QED
  BY <1>1, <1>2, <1>3, <1>4, <1>5, <1>6 DEF CustodyStep, Custody!Next

\* BTCChannels implements ChannelLedger: whatever the calls and their order, a
\* channel id is opened once, moves only while open and onto outpoints that
\* never backed a channel, and a close is for good.
THEOREM KeepsChannelsHolds == Spec => KeepsChannels
<1>1. Init => Custody!Init
  BY DEF Init, Custody!Init, ChannelStatus, ZeroChannel, STATUS_OPEN, STATUS_CLOSED
<1>2. CustodyInv /\ CustodyInv' /\ [Next]_vars => [Custody!Next]_(Custody!vars)
  BY ChannelLedgerStep
<1>3. QED
  BY <1>1, <1>2, CustodyCorrect, PTL DEF Spec, KeepsChannels, Custody!Spec

\* Read as a function of the swap, the status of a swap-out changes at s only.
LEMMA SwapOutUpdate ==
    ASSUME NEW s \in Swap, \A t \in Swap \ {s} : SwapOutStatus'[t] = SwapOutStatus[t]
    PROVE  SwapOutStatus' = [SwapOutStatus EXCEPT ![s] = SwapOutStatus'[s]]
<1>1. SwapOutStatus' = [t \in Swap |-> SwapOutStatus'[t]]
      /\ SwapOutStatus = [t \in Swap |-> SwapOutStatus[t]]
  BY DEF SwapOutStatus
<1>2. QED
  BY <1>1

\* Every call is a step of the ledger of swap-outs, or none.
LEMMA SwapLedgerStep ==
    ASSUME SwapInv, SwapInv', [Next]_vars
    PROVE  SwapOuts!Next \/ UNCHANGED SwapOuts!vars
<1>1. TypeOK /\ TypeOK' /\ SwapIds /\ SwapStep
  BY SwapKinds DEF SwapInv
<1>2. ASSUME NEW d \in Deposit, NEW floorUsd \in 0..MaxUsd, SettleSwapInProven(d, floorUsd)
      PROVE  UNCHANGED SwapOuts!vars
  BY <1>2 DEF SettleSwapInProven, custody, SwapOuts!vars, SwapOutStatus, IsPending
<1>3. ASSUME NEW s \in Swap, NEW sats \in Sats, NEW usd \in 1..MaxUsd,
             RequestSwapOutOnchain(s, sats, usd)
      PROVE  SwapOuts!Request(s)
  <2>1. /\ s \notin swapOutUsed /\ swapOutUsed' = swapOutUsed \cup {s}
        /\ fundingOutpointUsed' = fundingOutpointUsed /\ delivered' = delivered
        /\ pendingOnchainSwapOut' = [pendingOnchainSwapOut EXCEPT ![s] =
                                        [sats |-> sats, usd |-> usd, expired |-> FALSE]]
    BY <1>3 DEF RequestSwapOutOnchain, custody
  <2>2. pendingOnchainSwapOut'[s].sats = sats /\ sats # 0
        /\ \A t \in Swap \ {s} : pendingOnchainSwapOut'[t] = pendingOnchainSwapOut[t]
    BY <1>1, <2>1, ConstantsAssumption DEF TypeOK, Sats
  <2>3. pendingOnchainSwapOut[s] = NoSwapOut /\ s \notin delivered
    BY <1>1, <2>1 DEF SwapIds
  <2>4. SwapOutStatus[s] = "none"
    BY <2>1, <2>3 DEF SwapOutStatus, IsPending, NoSwapOut
  <2>5. SwapOutStatus'[s] = "pending"
    BY <2>2 DEF SwapOutStatus, IsPending
  <2>6. \A t \in Swap \ {s} : SwapOutStatus'[t] = SwapOutStatus[t]
    BY <2>1, <2>2 DEF SwapOutStatus, IsPending
  <2>7. QED
    BY <2>1, <2>4, <2>5, <2>6, SwapOutUpdate DEF SwapOuts!Request, SwapOuts!Becomes
<1>4. ASSUME NEW s \in Swap, BlocksPass(s)
      PROVE  UNCHANGED SwapOuts!vars
  <2>1. /\ swapOutUsed' = swapOutUsed /\ fundingOutpointUsed' = fundingOutpointUsed
        /\ delivered' = delivered
        /\ pendingOnchainSwapOut' = [pendingOnchainSwapOut EXCEPT ![s].expired = TRUE]
    BY <1>4 DEF BlocksPass, custody
  <2>2. \A t \in Swap : pendingOnchainSwapOut'[t].sats = pendingOnchainSwapOut[t].sats
    BY <1>1, <2>1 DEF TypeOK, SwapOutRecord
  <2>3. SwapOutStatus' = SwapOutStatus
    BY <2>1, <2>2 DEF SwapOutStatus, IsPending
  <2>4. QED
    BY <2>1, <2>3 DEF SwapOuts!vars
<1>5. ASSUME NEW s \in Swap, Discharges(s)
      PROVE  \/ SwapOuts!Return(s)
             \/ \E o \in Outpoint : SwapOuts!Deliver(s, o)
  <2>1. /\ IsPending(s) /\ swapOutUsed' = swapOutUsed
        /\ pendingOnchainSwapOut' = [pendingOnchainSwapOut EXCEPT ![s] = NoSwapOut]
    BY <1>5 DEF Discharges, Discharge
  <2>2. pendingOnchainSwapOut'[s] = NoSwapOut
        /\ \A t \in Swap \ {s} : pendingOnchainSwapOut'[t] = pendingOnchainSwapOut[t]
    BY <1>1, <2>1 DEF TypeOK
  <2>3. s \in swapOutUsed /\ s \notin delivered /\ SwapOutStatus[s] = "pending"
    BY <1>1, <2>1 DEF SwapIds, IsPending, NoSwapOut, SwapOutStatus
  <2>4. ~IsPending(s)'
    BY <2>2 DEF IsPending, NoSwapOut
  <2>5. ASSUME delivered' \in {delivered, delivered \cup {s}}
        PROVE  \A t \in Swap \ {s} : SwapOutStatus'[t] = SwapOutStatus[t]
    BY <2>1, <2>2, <2>5 DEF SwapOutStatus, IsPending
  <2>6. CASE UNCHANGED <<delivered, fundingOutpointUsed>>
    <3>1. SwapOutStatus'[s] = "returned"
      BY <2>1, <2>3, <2>4, <2>6 DEF SwapOutStatus
    <3>2. QED
      BY <2>3, <2>5, <2>6, <3>1, SwapOutUpdate DEF SwapOuts!Return, SwapOuts!Becomes
  <2>7. CASE delivered' = delivered \cup {s} /\ \E o \in Outpoint : UsesFresh(o)
    <3>1. SwapOutStatus'[s] = "delivered"
      BY <2>4, <2>7 DEF SwapOutStatus
    <3>2. SwapOuts!Becomes(s, "pending", "delivered")
      BY <2>3, <2>5, <2>7, <3>1, SwapOutUpdate DEF SwapOuts!Becomes
    <3>3. QED
      BY <2>7, <3>2 DEF SwapOuts!Deliver, SwapOuts!Use, UsesFresh
  <2>8. QED
    BY <1>5, <2>6, <2>7 DEF Discharges
<1>6. CASE UNCHANGED <<swaps, pendingSwapOutUsd>>
  <2>1. SwapOutStatus' = SwapOutStatus
    BY <1>6 DEF swaps, SwapOutStatus, IsPending
  <2>2. UNCHANGED SwapOuts!vars \/ \E o \in Outpoint : SwapOuts!Fund(o)
    BY <1>1, <2>1, UsedStep DEF SwapOuts!vars, SwapOuts!Fund, SwapOuts!Use
  <2>3. QED
    BY <2>2 DEF SwapOuts!Next
<1>7. QED
  BY <1>1, <1>2, <1>3, <1>4, <1>5, <1>6 DEF SwapStep, SwapOuts!Next

\* BTCChannels implements SwapLedger: the mappings of a swap-out behave as one
\* status that goes from requested to delivered or to returned once, and no
\* outpoint proves two deliveries, or a delivery and an open or a splice.
THEOREM KeepsSwapOutsHolds == Spec => KeepsSwapOuts
<1>1. Init => SwapOuts!Init
  BY DEF Init, SwapOuts!Init, SwapOutStatus, IsPending, NoSwapOut
<1>2. SwapInv /\ SwapInv' /\ [Next]_vars => [SwapOuts!Next]_(SwapOuts!vars)
  BY SwapLedgerStep
<1>3. QED
  BY <1>1, <1>2, SwapsCorrect, PTL DEF Spec, KeepsSwapOuts, SwapOuts!Spec

==============================================================================
