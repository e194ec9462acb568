--------------------------- MODULE MCRentalOrders ---------------------------
(* Constants for model checking RentalOrders: one product with two units,  *)
(* ids that are numbers so that lock keys have an order.                   *)
EXTENDS AvailabilityPages, TLC

\* Orders too: no request ever has the keys of two orders, so it does not matter
\* which of two orders has the lesser key.
RequestSymmetry == Permutations(Request)
OrderSymmetry == Permutations(Request) \cup Permutations(Order)

\* Units as well where one request runs: it never waits, so nobody sees in which
\* order it takes its keys.
UnitSymmetry == Permutations(Order) \cup Permutations(Asset)

\* No handler reads the history or what clients show: where no property of a
\* run does either, states that differ in these alone are one.
Schedule == <<orders, pc, local, orphaned, lockv>>

MCProductOf == [a \in Asset |-> "camera"]

RankIn(S) == CHOOSE rank \in [S -> 1 .. Cardinality(S)] : IsInjective(rank)
OrderRank == RankIn(Order)
AssetRank == RankIn(Asset)

MCKeyRank ==
  [k \in LockKey |-> CASE k[1] = "rental-asset"   -> AssetRank[k[2]]
                       [] k[1] = "rental-order"   -> 10 + OrderRank[k[2]]
                       [] k[1] = "rental-product" -> 20]

L(i, a) == [id |-> i, product |-> "camera", asset |-> a]

\* One line with a serial, or one without.
OneLineCarts == {{L(1, 1)}, {L(1, None)}}

\* One line or two, which assign may give the same unit.
SomeCarts == {{L(1, None)}, {L(1, None), L(2, None)}}

\* A bound: three lines in all, on one order, two or three, with those of a create.
AtMostThreeLines ==
  \A r \in Request :
    Cardinality(UNION {{o} \X orders[o].items : o \in Order})
      + (IF pc[r] = "create.insert" THEN Cardinality(row[r].items) ELSE 0) <= 3

MCTurnarounds == {0, 1}
OneTurnaround == {1}
=============================================================================
