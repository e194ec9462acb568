---------------------------- MODULE OrderTotals ----------------------------
(***************************************************************************)
(* The money of one draft order: its lines, each with the prices it was     *)
(* given, and the totals kept on the order.  updateRentalOrder reads the    *)
(* order, prices the items with what products and policy cost now, and in   *)
(* one transaction either replaces the lines or rewrites them one by one,   *)
(* then writes the totals.                                                  *)
(*                                                                         *)
(* A step is one statement.  A statement sees what was committed when it    *)
(* began, waits for the transactions that locked its rows, and skips the    *)
(* rows that are gone by then.                                              *)
(***************************************************************************)
EXTENDS Integers, FiniteSets, FiniteSetsExt

CONSTANTS
  Request,  \* HTTP calls that may run at the same time
  None,     \* no transaction
  Line,     \* ids of lines, in the order of their creation
  Cost,    \* what an item may cost: lineTotal, depositAmount, bookingHoldAmount
  Fee,      \* delivery fees
  Discount  \* discounts

VARIABLES
  lines,      \* the committed lines: their prices
  order,      \* the committed totals
  pc,         \* where each request stands
  call,       \* what each request remembers
  overlapped  \* whether items were replaced while another call was on its way

vars == <<lines, order, pc, call, overlapped>>

AtLeast0(n) == IF n < 0 THEN 0 ELSE n

\* calculateTotals
Totals(priced, fee, discount) ==
  LET Sum(f(_)) == MapThenSumSet(f, DOMAIN priced)
      subtotal == Sum(LAMBDA i : priced[i].lineTotal)
      deposit  == Sum(LAMBDA i : priced[i].depositAmount)
      hold     == Sum(LAMBDA i : priced[i].bookingHoldAmount)
      upfront  == AtLeast0(subtotal + deposit + fee - discount)
  IN [subtotal |-> subtotal, depositTotal |-> deposit, bookingHoldTotal |-> hold,
      deliveryFeeTotal |-> fee, discountTotal |-> discount, upfrontTotal |-> upfront,
      handoverDueTotal |-> AtLeast0(upfront - hold)]

Empty == [i \in {} |-> None]

\* priced: the lines as the request will write them.  seen: the lines a delete
\* found.  late: items were replaced since the request read them.
NoCall == [priced |-> Empty, totals |-> None, seen |-> {}, late |-> FALSE]

TypeOK ==
  /\ DOMAIN lines \subseteq Line /\ \A i \in DOMAIN lines : lines[i] \in Cost
  /\ overlapped \in BOOLEAN
  /\ \A r \in Request : DOMAIN call[r].priced \cup call[r].seen \subseteq Line

Init ==
  /\ lines = Empty /\ order = None
  /\ pc = [r \in Request |-> "idle"]
  /\ call = [r \in Request |-> NoCall]
  /\ overlapped = FALSE

Goto(r, from, to) == pc[r] = from /\ pc' = [pc EXCEPT ![r] = to]
Forget(r) == call' = [call EXCEPT ![r] = NoCall]

\* Ids for n new lines.
Unused == Line \ (DOMAIN lines \cup
            UNION {DOMAIN call[q].priced \cup call[q].seen : q \in Request})
NewLines(n) == {i \in Unused : Cardinality({j \in Unused : j < i}) < n}

Prepare(r, priced, totals) ==
  call' = [call EXCEPT ![r] =
    [priced |-> priced, totals |-> totals, seen |-> {}, late |-> FALSE]]

-----------------------------------------------------------------------------
\* createRentalOrder: the lines and the totals are inserted together.
Create(r) ==
  /\ order = None /\ pc[r] = "idle"
  /\ \E n \in 1 .. 2 :
       \E priced \in [NewLines(n) -> Cost], fee \in Fee, discount \in Discount :
         /\ lines' = priced
         /\ order' = Totals(priced, fee, discount)
  /\ UNCHANGED <<pc, call, overlapped>>

\* updateRentalOrder up to its transaction, with items and without.  A fee that is
\* not given is the one that was read.
PriceNewItems(r) ==
  /\ order # None /\ Goto(r, "idle", "delete")
  /\ Unused # {}
  /\ \E n \in 1 .. 2 :
       \E priced \in [NewLines(n) -> Cost], fee \in Fee, discount \in Discount :
         Prepare(r, priced, Totals(priced, fee, discount))
  /\ UNCHANGED <<lines, order, overlapped>>

PriceOldItems(r) ==
  /\ order # None /\ Goto(r, "idle", "lines")
  /\ \E priced \in [DOMAIN lines -> Cost], fee \in Fee, discount \in Discount :
       Prepare(r, priced, Totals(priced, fee, discount))
  /\ UNCHANGED <<lines, order, overlapped>>

\* Who has written rows of the order and not yet committed.
Writing == {q \in Request : pc[q] \in {"commit.replace", "commit.keep"}}

\* deleteMany begins: the rows it sees are those it will wait for.
DeleteBegin(r) ==
  /\ Goto(r, "delete", "deleting")
  /\ call' = [call EXCEPT ![r].seen = DOMAIN lines]
  /\ UNCHANGED <<lines, order, overlapped>>

\* The rows are locked, the new lines and the totals written.
Replace(r) ==
  /\ Goto(r, "deleting", "commit.replace")
  /\ Writing = {}
  /\ UNCHANGED <<lines, order, call, overlapped>>

\* A line that is gone by now fails the whole transaction.
UpdateLines(r) ==
  /\ pc[r] = "lines"
  /\ Writing = {}
  /\ IF DOMAIN call[r].priced \subseteq DOMAIN lines
     THEN pc' = [pc EXCEPT ![r] = "commit.keep"] /\ UNCHANGED call
     ELSE pc' = [pc EXCEPT ![r] = "idle"] /\ Forget(r)
  /\ UNCHANGED <<lines, order, overlapped>>

Joined(r, S) == [i \in S \cup DOMAIN call[r].priced |->
                   IF i \in DOMAIN call[r].priced THEN call[r].priced[i] ELSE lines[i]]

CommitReplace(r) ==
  /\ Goto(r, "commit.replace", "idle")
  /\ lines' = Joined(r, DOMAIN lines \ call[r].seen)
  /\ order' = call[r].totals
  /\ overlapped' = call[r].late
  /\ call' = [q \in Request |->
       IF q = r THEN NoCall
       ELSE IF pc[q] \in {"deleting", "lines"} THEN [call[q] EXCEPT !.late = TRUE]
       ELSE call[q]]

\* Mutant: only the order is written.
CommitTotalsOnly(r) ==
  /\ Goto(r, "commit.keep", "idle")
  /\ order' = call[r].totals
  /\ overlapped' = call[r].late
  /\ Forget(r)
  /\ UNCHANGED lines

CommitKeep(r) ==
  /\ Goto(r, "commit.keep", "idle")
  /\ lines' = Joined(r, DOMAIN lines)
  /\ order' = call[r].totals
  /\ overlapped' = call[r].late
  /\ Forget(r)

\* A deadlock is broken, a transaction times out, the process dies.
Abort(r) ==
  /\ pc[r] # "idle"
  /\ pc' = [pc EXCEPT ![r] = "idle"] /\ Forget(r)
  /\ UNCHANGED <<lines, order, overlapped>>

Next == \E r \in Request :
          \/ Create(r) \/ PriceNewItems(r) \/ PriceOldItems(r)
          \/ DeleteBegin(r) \/ Replace(r) \/ UpdateLines(r)
          \/ CommitReplace(r) \/ CommitKeep(r) \/ Abort(r)

Spec == Init /\ [][Next]_vars

-----------------------------------------------------------------------------
\* What a customer is asked to pay is what the lines say, by the formulas of the
\* glossary: prices may change, items be replaced or kept by two calls at once,
\* and calls fail halfway.  Not promised after calls that replaced the items in
\* overlapping transactions: both lists stay, with the totals of one.
TotalsMatchLines ==
  order # None /\ ~overlapped =>
    LET Sum(f(_)) == MapThenSumSet(f, DOMAIN lines)
        due == Sum(LAMBDA i : lines[i].lineTotal + lines[i].depositAmount)
                 + order.deliveryFeeTotal - order.discountTotal
        hold == Sum(LAMBDA i : lines[i].bookingHoldAmount)
    IN /\ order.subtotal = Sum(LAMBDA i : lines[i].lineTotal)
       /\ order.depositTotal = Sum(LAMBDA i : lines[i].depositAmount)
       /\ order.bookingHoldTotal = hold
       /\ due >= 0 => order.upfrontTotal = due
       /\ due >= hold => order.handoverDueTotal = due - hold
       /\ order.upfrontTotal >= order.handoverDueTotal /\ order.handoverDueTotal >= 0
=============================================================================
