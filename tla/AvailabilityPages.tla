------------------------- MODULE AvailabilityPages -------------------------
(***************************************************************************)
(* The read-only pages of RentalOrderAvailabilityService over the orders of *)
(* RentalOrders: products with their counts, units with their states, and  *)
(* the timeline of a unit.  They count and filter with queries of their    *)
(* own, so that they agree with the checks of the handlers has to be shown.*)
(*                                                                         *)
(* The fleet is fixed and every unit is active and sound, so a unit is     *)
(* never UNASSIGNABLE.  Texts, prices, search and paging are left out.     *)
(***************************************************************************)
EXTENDS RentalOrders, FiniteSetsExt

\* An order can have a line.
ASSUME ItemAssumption == Item # {}

\* The windows a page may be asked for.
Windows == {w \in Time \X Time : w[1] < w[2]}

\* Mutant: genericBooked is taken for booked.
CountsWithoutSerial(p, start, blockedEnd, o) ==
  [assignable |-> Cardinality(AssignableAssets(p)),
   booked |-> Cardinality({b \in BookedLines(p, o, start, blockedEnd) :
                             b[2].asset = None})]

\* getAvailabilityCounts
Counts(p, start, blockedEnd, o) ==
  [assignable |-> Cardinality(AssignableAssets(p)),
   booked     |-> Cardinality(BookedLines(p, o, start, blockedEnd))]

\* inventory.available, availableQuantity and selectionLimit
AvailableQuantity(p, start, end, turnaround, o) ==
  LET c == Counts(p, start, end + turnaround, o)
  IN  Max({c.assignable - c.booked, 0})

\* Mutant: the turnaround is left out of the window.
BookedUntilByEnd(a, start, end, turnaround, o) ==
  {orders[q].blockedEnd : q \in
     {k \in BlockingOrders(o, start, end) : a \in AssetsOf(orders[k].items)}}

\* getAvailabilityAssets: when the bookings of unit a in the window end.
BookedUntil(a, start, end, turnaround, o) ==
  {orders[q].blockedEnd : q \in
     {k \in BlockingOrders(o, start, end + turnaround) :
        a \in AssetsOf(orders[k].items)}}

\* availability, and conflictBlockedEndDate
UnitState(a, start, end, turnaround, o) ==
  LET until == BookedUntil(a, start, end, turnaround, o)
  IN  IF until = {} THEN [state |-> "AVAILABLE", conflict |-> None]
                    ELSE [state |-> "BOOKED", conflict |-> Max(until)]

FreeUnits(p, start, end, turnaround, o) ==
  {a \in AssignableAssets(p) :
     UnitState(a, start, end, turnaround, o).state = "AVAILABLE"}

\* The lines that name unit a, in the orders of a set.
LinesNaming(a, S) ==
  UNION {{q} \X {l \in orders[q].items : l.asset = a} : q \in S}

\* A block for each item row: two lines of an order with one serial show twice.
BlocksOf(lines) ==
  {[order |-> b[1], item |-> b[2].id, start |-> orders[b[1]].start,
    until |-> orders[b[1]].blockedEnd] : b \in lines}

\* Mutant: drafts are shown like bookings.
TimelineBlocksOfDrafts(a, start, end) ==
  BlocksOf(LinesNaming(a, {q \in Order : /\ Visible(q)
                                         /\ orders[q].start < end
                                         /\ orders[q].blockedEnd > start}))

\* getAvailabilityTimeline: the blocks of a unit, without the turnaround of a
\* rental that is only being looked for.
TimelineBlocks(a, start, end) ==
  BlocksOf(LinesNaming(a, BlockingOrders(None, start, end)))

-----------------------------------------------------------------------------
(* Properties.                                                             *)

\* Whoever picks from the pages what they show is not refused: one line of a
\* product with stock left, without a serial or with any unit shown free,
\* passes the check of createRentalOrder for that window; and with no stock
\* left no line passes (getAvailabilityProducts and getAvailabilityAssets
\* against evaluateAvailability).
PagesAgreeWithCheck ==
  \A p \in Product, w \in Windows, turnaround \in Turnarounds :
    LET free == FreeUnits(p, w[1], w[2], turnaround, None)
        Passes(a) ==
          \E i \in Item :
            Available(None, Quoted(BlankRow, w[1], w[2], turnaround,
                                   {[id |-> i, product |-> p, asset |-> a]}))
    IN  IF AvailableQuantity(p, w[1], w[2], turnaround, None) > 0
        THEN \A a \in Asset \cup {None} : Passes(a) <=> a \in free \cup {None}
        ELSE \A a \in Asset \cup {None} : ~Passes(a)

\* The limit on how many units may be selected never exceeds the units that
\* are shown free: getAvailabilityAssets takes the limit from counts of lines
\* and the states from serials, and lines without a serial count only in one.
LimitIsSelectable ==
  \A p \in Product, w \in Windows, turnaround \in Turnarounds :
    AvailableQuantity(p, w[1], w[2], turnaround, None)
      <= Cardinality(FreeUnits(p, w[1], w[2], turnaround, None))

\* Whoever hands out units by the timeline never runs short: at every instant of
\* the page the blocks on the timelines of a product's units and the booked lines
\* that still wait for a serial are no more than its units, so that a unit with
\* no block then is left for each of these lines.  Blocks come from serials, row
\* by row, and one serial may be on two lines of an order; confirm counted lines.
TimelineLeavesRoom ==
  \A p \in Product, w \in Windows : \A t \in w[1] .. w[2] - 1 :
    LET blocks == UNION {TimelineBlocks(a, w[1], w[2]) : a \in AssignableAssets(p)}
        out    == {b \in blocks : b.start <= t /\ t < b.until}
        blank  == {b \in BookedLines(p, None, t, t + 1) : b[2].asset = None}
    IN  Cardinality(out) + Cardinality(blank) <= Cardinality(AssignableAssets(p))
=============================================================================
