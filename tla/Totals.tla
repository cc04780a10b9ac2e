------------------------------- MODULE Totals -------------------------------
(***************************************************************************)
(* Sums of natural-valued functions, written as the cardinality of a set   *)
(* of units so that what an update does to a sum follows from the theorems *)
(* on finite sets (Totals_proofs) instead of from an induction over data.  *)
(* The contracts keep several running counters (totalSatsLocked, lpShares, *)
(* pendingSwapOutUsd) beside the mappings they summarise; Total is what    *)
(* each counter is meant to equal.                                         *)
(***************************************************************************)
EXTENDS Naturals, FiniteSets

\* One element for every unit that f holds at a member of S.
Units(f, S) == UNION {{x} \X (1..f[x]) : x \in S}

\* The sum of f over S.
Total(f, S) == Cardinality(Units(f, S))

\* The smaller of two numbers (Solidity: a > b ? b : a).
Least(a, b) == IF a > b THEN b ELSE a
=============================================================================
