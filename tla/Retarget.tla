------------------------------- MODULE Retarget -------------------------------
(***************************************************************************)
(* The target TargetsHelper requires of the first header of an epoch,      *)
(* against the one Bitcoin's consensus sets, for every target the epoch    *)
(* before may have had and every time it may have taken.  Headers carry    *)
(* the consensus target; the gateway refuses every header of the epoch     *)
(* when the two differ.  What is required depends on the two numbers and   *)
(* on nothing the gateway stored, so it is asked of a gateway that has its *)
(* checkpoint and nothing else.                                            *)
(***************************************************************************)
EXTENDS SPVGateway

CONSTANT
    MaxPassed   \* bound: the longest an epoch takes

\* 256 values, 1209600 seconds and a target of 28 bytes in the code.
ASSUME RetargetAssumption ==
    /\ Byte >= 4 /\ EpochTime % 4 = 0 /\ InitialTarget >= Pow[3]
    /\ MaxPassed \in Nat

\* The targets a header's bits can express.
Expressible == {BitsToTarget(length, coefficient) :
                    length \in 0..Width, coefficient \in 1..(Pow[3] - 1)}

\* The targets of an epoch.  Those shorter than four bytes are left out: no chain
\* reaches them.
EpochTarget == {t \in Expressible : t >= Pow[3] /\ t <= InitialTarget}

AtCheckpoint == GetMainchainHeight(spv) = InitHeight

-----------------------------------------------------------------------------
\* Whatever an epoch took, the target required after it is one a header's bits
\* can express, and not zero: otherwise no header could ever follow.
RequiredIsExpressible == AtCheckpoint =>
    \A target \in EpochTarget, passed \in 0..MaxPassed :
        /\ CountNewRoundedTarget(target, passed) > 0
        /\ CountNewRoundedTarget(target, passed) \in Expressible

\* The required target is Bitcoin's except in the two cases where the code
\* computes something else: a first byte of exactly 0x80, which the code keeps
\* with three bytes, and a ratio the fixed point cannot express.
RequiredIsConsensusElsewhere == AtCheckpoint =>
    \A target \in EpochTarget, passed \in 0..MaxPassed :
        \/ TopByte(CountNewTarget(target, passed)) = SignByte
        \/ (passed * FixedPoint) % EpochTime # 0
        \/ CountNewRoundedTarget(target, passed) = ConsensusRetarget(target, passed)
=============================================================================
