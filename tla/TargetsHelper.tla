---------------------------- MODULE TargetsHelper ----------------------------
(***************************************************************************)
(* evm/src/spv/libs/TargetsHelper.sol: the proof-of-work target a Bitcoin  *)
(* epoch must have, the compact form a header carries it in, and the work  *)
(* it stands for.  A word has Width bytes of Byte values each, 32 of 256   *)
(* in the code; everything else follows the code's arithmetic.             *)
(***************************************************************************)
EXTENDS Naturals

CONSTANTS
    Byte,         \* values of a byte
    Width,        \* bytes of a word
    Interval,     \* DIFFICULTY_ADJUSTMENT_INTERVAL
    EpochTime,    \* EXPECTED_TARGET_BLOCKS_TIME
    FixedPoint,   \* TARGET_FIXED_POINT_FACTOR
    InitialTarget \* INITIAL_TARGET, the easiest target

ASSUME TargetsAssumption ==
    /\ Byte \in Nat \ {0, 1} /\ Byte % 2 = 0 /\ Width \in Nat /\ Width >= 3
    /\ Interval \in Nat \ {0} /\ EpochTime \in Nat \ {0}
    /\ FixedPoint \in Nat \ {0} /\ FixedPoint % 4 = 0
    /\ InitialTarget \in Nat \ {0}

\* What n bytes count to: Byte to the power n.  A function and not ^, which the
\* provers do not know.
Pow[n \in 0..Width] == IF n = 0 THEN 1 ELSE Byte * Pow[n - 1]

ASSUME InitialTargetAssumption == InitialTarget < Pow[Width]

Word == 0..(Pow[Width] - 1)

SignByte == Byte \div 2   \* 0x80

AtLeast(a, b) == IF a < b THEN b ELSE a
AtMost(a, b) == IF a > b THEN b ELSE a

IsTargetAdjustmentBlock(h) == h % Interval = 0 /\ h > 0

\* Mutant: the ratio is not clamped below.
UnclampedTarget(target, passed) ==
    LET ratio == AtMost((passed * FixedPoint) \div EpochTime, 4 * FixedPoint)
    IN  AtMost((target * ratio) \div FixedPoint, InitialTarget)

\* countNewTarget: scaled by the time the epoch took, as a fixed-point ratio
\* between a quarter and four, and no easier than INITIAL_TARGET.
CountNewTarget(target, passed) ==
    LET ratio == AtMost(AtLeast((passed * FixedPoint) \div EpochTime, FixedPoint \div 4),
                        4 * FixedPoint)
    IN  AtMost((target * ratio) \div FixedPoint, InitialTarget)

\* Bytes of t from its first that is not zero, and that byte.
Length(t) == CHOOSE n \in 0..Width : t < Pow[n] /\ (n > 0 => t >= Pow[n - 1])
TopByte(t) == IF t = 0 THEN 0 ELSE t \div Pow[Length(t) - 1]

\* Only the first n bytes of t; the shift that builds the mask underflows when
\* t has fewer, and the mask is then zero.
Masked(t, n) ==
    IF Length(t) < n THEN 0 ELSE t - (t % Pow[Length(t) - n])

\* roundTarget: three bytes, two if the first is above 0x80.
RoundTarget(target) == Masked(target, IF TopByte(target) > SignByte THEN 2 ELSE 3)

\* Mutant: the rounding forgotten.
NewTargetUnrounded(target, passed) == CountNewTarget(target, passed)

CountNewRoundedTarget(target, passed) == RoundTarget(CountNewTarget(target, passed))

\* bitsToTarget: a length byte and a three-byte coefficient.
BitsToTarget(length, coefficient) ==
    IF length >= 3 THEN coefficient * Pow[length - 3]
    ELSE coefficient \div Pow[3 - length]

\* countBlockWork, with the largest word divided.
CountBlockWork(target) == (Pow[Width] - 1) \div (target + 1)

-----------------------------------------------------------------------------
(* Bitcoin's own rule, for comparison (external: consensus). *)

\* The epoch's time is clamped, the target scaled exactly, the result capped.
ConsensusTarget(target, passed) ==
    LET span == AtMost(AtLeast(passed, EpochTime \div 4), 4 * EpochTime)
    IN  AtMost((target * span) \div EpochTime, InitialTarget)

\* The compact form is signed: a first byte of 0x80 or above takes a zero byte
\* in front, and two bytes are left.
Compact(t) ==
    LET n == IF TopByte(t) >= SignByte THEN 2 ELSE 3
    IN  IF Length(t) <= n THEN t ELSE Masked(t, n)

ConsensusRetarget(target, passed) == Compact(ConsensusTarget(target, passed))
=============================================================================
