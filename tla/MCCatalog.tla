----------------------------- MODULE MCCatalog -----------------------------
(* Constants for the runs of Catalog. *)
EXTENDS Catalog, TLC

T(min, max, price) == [minDays |-> min, maxDays |-> max, daily |-> price]

\* With and without a price per hour, one of them too high to be coherent.
MCTerms == {[halfDay |-> 30, daily |-> 50, hourly |-> None],
            [halfDay |-> 30, daily |-> 50, hourly |-> 1],
            [halfDay |-> 30, daily |-> 50, hourly |-> 9]}

\* No tiers, two that touch, an open one, and two that overlap on day 3.
MCLists == {{}, {T(1, 2, 50), T(3, 4, 45)}, {T(2, None, 48)},
            {T(1, 3, 50), T(3, None, 40)}}

Requests == Permutations(Request)
============================================================================
