---- MODULE MCBackOffice ----
(* Constants of the run of BackOffice. *)
EXTENDS BackOffice, TLC

H(d, open, close, isOpen) ==
  [dayOfWeek |-> d, openTime |-> open, closeTime |-> close, isOpen |-> isOpen]

\* A week in order, one backwards with a closed day, one that names a day twice,
\* and one that opens when it closes.
MCWeekLists ==
  {<<H(0, 0, 1, TRUE), H(1, 0, 1, TRUE), H(2, 1, 2, TRUE)>>,
   <<H(2, 0, 2, FALSE), H(1, 2, 0, FALSE), H(0, 0, 2, TRUE)>>,
   <<H(0, 0, 2, TRUE), H(1, 0, 2, TRUE), H(1, 0, 2, FALSE)>>,
   <<H(1, 0, 2, TRUE), H(0, 2, 2, TRUE), H(2, 0, 2, TRUE)>>}

MCCost == {[lineTotal |-> 1, depositAmount |-> 1, bookingHoldAmount |-> 2],
           [lineTotal |-> 3, depositAmount |-> 1, bookingHoldAmount |-> 2]}

\* Calls that come to the same time are interchangeable.
Requests == Permutations(Request)
====
