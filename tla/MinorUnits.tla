----------------------------- MODULE MinorUnits -----------------------------
(***************************************************************************)
(* Sums of ledger amounts.  An amount is a natural number of minor units   *)
(* (the code's BigInt after scaling by 10^18).  The sum of the amounts of  *)
(* a set of rows is the number of units in their disjoint union, so that   *)
(* facts about sums are facts about cardinalities of finite sets.          *)
(***************************************************************************)
EXTENDS Integers, FiniteSets

UnitsOf(amt, k) == {k} \X (1..amt[k])

AllUnits(amt, S) == UNION {UnitsOf(amt, k) : k \in S}

Total(amt, S) == Cardinality(AllUnits(amt, S))
=============================================================================
