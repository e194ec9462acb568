---------------------------- MODULE BookingLedger ----------------------------
(***************************************************************************)
(* What the availability rules promise, with no requests, locks, rows or   *)
(* reads in sight: a ledger of bookings that changes in single steps, each *)
(* of which looks at the whole ledger and keeps it free of conflicts.      *)
(* RentalOrders implements this module as long as no update runs.          *)
(***************************************************************************)
EXTENDS Integers, FiniteSets

CONSTANTS
  Order,     \* who may hold a booking
  Product,   \* what can be booked
  Asset,     \* the units
  ProductOf, \* the product of each unit
  Line,      \* the lines of a booking: [id, product, asset]
  None       \* no booking; no unit

VARIABLE ledger \* what each order has booked, None if nothing

Booking == [start : Nat, until : Nat, items : SUBSET Line]

LedgerTypeOK == ledger \in [Order -> Booking \cup {None}]

Holders == {o \in Order : ledger[o] # None}

Units(p) == {a \in Asset : ProductOf[a] = p}
UnitsOf(b) == {l.asset : l \in b.items} \ {None}
OfProduct(b, p) == {l \in b.items : l.product = p}

Clash(b, c) == b.start < c.until /\ c.start < b.until

\* The lines for product p that orders other than o have out at instant t.
OutAt(o, p, t) ==
  UNION {{q} \X OfProduct(ledger[q], p) :
           q \in {h \in Holders \ {o} : ledger[h].start <= t
                                          /\ t < ledger[h].until}}

\* No unit of b is promised to someone else while b lasts.
UnitsFree(o, b) ==
  \A q \in Holders \ {o} :
    Clash(b, ledger[q]) => UnitsOf(b) \cap UnitsOf(ledger[q]) = {}

\* At no instant of b are more lines of a product out than it has units.
StockLeft(o, b) ==
  \A p \in {l.product : l \in b.items}, t \in b.start .. b.until - 1 :
    Cardinality(OutAt(o, p, t)) + Cardinality(OfProduct(b, p))
      <= Cardinality(Units(p))

LedgerInit == ledger = [o \in Order |-> None]

Book(o, b) ==
  /\ ledger[o] = None
  /\ b \in Booking
  /\ UnitsFree(o, b) /\ StockLeft(o, b)
  /\ ledger' = [ledger EXCEPT ![o] = b]

\* Other units for the same lines in the same window.
Reassign(o, b) ==
  /\ ledger[o] # None
  /\ b \in Booking
  /\ b.start = ledger[o].start /\ b.until = ledger[o].until
  /\ {<<l.id, l.product>> : l \in b.items}
       = {<<l.id, l.product>> : l \in ledger[o].items}
  /\ UnitsFree(o, b)
  /\ ledger' = [ledger EXCEPT ![o] = b]

Release(S) ==
  ledger' = [o \in Order |-> IF o \in S THEN None ELSE ledger[o]]

\* The booking a step makes is the one the next state holds.
LedgerNext ==
  \/ \E o \in Order : Book(o, ledger'[o]) \/ Reassign(o, ledger'[o])
  \/ \E S \in SUBSET Holders : Release(S)

LedgerSpec == LedgerInit /\ [][LedgerNext]_ledger

\* No unit is promised twice for a common instant.
NoUnitPromisedTwice ==
  \A o, q \in Holders :
    o # q /\ Clash(ledger[o], ledger[q])
      => UnitsOf(ledger[o]) \cap UnitsOf(ledger[q]) = {}
=============================================================================
