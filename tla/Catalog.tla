------------------------------ MODULE Catalog ------------------------------
(***************************************************************************)
(* The terms a product is rented at: its prices, its list of price tiers,   *)
(* the handlers of products.service.ts that change them, and the price that *)
(* rental-order-pricing.service.ts makes of them.                           *)
(*                                                                          *)
(* updateProduct is one nested write of Prisma, which runs as a             *)
(* transaction: UPDATE of the product, UPDATE of its live tiers to deleted, *)
(* INSERT of the new ones.  Prices are small numbers here; names, texts and *)
(* the other columns of a product decide no price and are left out.         *)
(***************************************************************************)
EXTENDS Integers, FiniteSets

CONSTANTS
  Request,    \* HTTP calls that may be in progress at once
  None,       \* a column that is null, a lock that is free
  Terms,      \* prices an administrator may enter
  Lists,      \* lists of tiers an administrator may enter, valid or not
  MaxWrites,  \* bound: how many lists are ever written
  MaxDays     \* bound: the longest rental the price is looked at for

Price == Nat
Term == [halfDay : Price, daily : Price, hourly : Price \cup {None}]
Tier == [minDays : Nat \ {0}, maxDays : Nat \cup {None}, daily : Price]

ASSUME CatalogAssumption ==
  /\ None \notin Nat /\ None \notin Request
  /\ Terms \subseteq Term /\ Terms # {}
  /\ Lists \subseteq SUBSET Tier
  /\ MaxWrites \in Nat /\ MaxDays \in Nat

VARIABLES
  terms,    \* the committed prices of the product
  active,   \* isActive
  deleted,  \* deletedAt is set
  tiers,    \* committed live rows of its tiers, each with the list it is of
  writes,   \* how many lists have been written
  lock,     \* the transaction that updated the product's row
  pc,       \* where each request stands
  given,    \* the list of tiers a request was called with
  dropped,  \* the tiers a transaction has marked deleted
  shown,    \* what the clients last fetched
  notified, \* the clients have an event they have not answered
  lost      \* a request died between its commit and its event

product == <<terms, active, deleted, tiers>>
clients == <<shown, notified, lost>>
vars == <<product, writes, lock, pc, given, dropped, clients>>

Row == [list : Nat, tier : Tier]
Rows(list) == {[list |-> writes + 1, tier |-> t] : t \in list}

\* rentalPriceTiers of a call, None when it is not given.
Given == Lists \cup {None}

Now == [terms |-> terms, active |-> active, deleted |-> deleted, tiers |-> tiers]

-----------------------------------------------------------------------------
(* The price of a rental.                                                  *)

\* t ends before n begins.
Before(t, n) == t.maxDays # None /\ t.maxDays < n.minDays

\* validateRentalPriceTiers: in order of minDays, each ends before the next.
Valid(list) ==
  /\ \A t \in list : t.maxDays # None => t.maxDays >= t.minDays
  /\ \A t, n \in list : t # n /\ t.minDays <= n.minDays => Before(t, n)

Covers(t, days) == t.minDays <= days /\ (t.maxDays # None => days <= t.maxDays)

\* getTierDailyPrice: the first tier that fits; there is at most one.
DailyPrice(term, rows, days) ==
  LET fit == {x \in rows : Covers(x.tier, days)} IN
  IF fit = {} THEN term.daily ELSE (CHOOSE x \in fit : TRUE).tier.daily

\* Mutant: a started day is charged whole, and its hours once more.
UnitPriceTwice(term, rows, hours) ==
  LET extra    == hours % 24
      billable == IF extra = 0 THEN hours \div 24 ELSE hours \div 24 + 1 IN
  IF hours <= 6 THEN term.halfDay
  ELSE IF hours <= 24 THEN term.daily
  ELSE IF term.hourly # None /\ extra > 0
    THEN DailyPrice(term, rows, billable) * billable + term.hourly * extra
    ELSE DailyPrice(term, rows, billable) * billable

\* calculateRentalUnitPrice, of a rental of so many started hours.
UnitPrice(term, rows, hours) ==
  LET fullDays == hours \div 24
      extra    == hours % 24
      billable == IF extra = 0 THEN fullDays ELSE fullDays + 1 IN
  IF hours <= 6 THEN term.halfDay
  ELSE IF hours <= 24 THEN term.daily
  ELSE IF term.hourly # None /\ extra > 0
    THEN DailyPrice(term, rows, fullDays) * fullDays + term.hourly * extra
    ELSE DailyPrice(term, rows, billable) * billable

-----------------------------------------------------------------------------
(* The handlers.                                                           *)

Init ==
  /\ terms \in Terms /\ active = TRUE /\ deleted = FALSE
  /\ writes = 1
  /\ \E list \in Lists : Valid(list) /\ tiers = {[list |-> 1, tier |-> t] : t \in list}
  /\ lock = None
  /\ pc = [r \in Request |-> "idle"]
  /\ given = [r \in Request |-> None]
  /\ dropped = [r \in Request |-> {}]
  /\ shown = Now /\ notified = FALSE /\ lost = FALSE

Goto(r, from, to) == pc[r] = from /\ pc' = [pc EXCEPT ![r] = to]

\* updateProduct up to its write: the product exists, the tiers are valid.
UpdateCheck(r) ==
  /\ Goto(r, "idle", "update")
  /\ ~deleted
  /\ \E list \in Given : /\ list # None => Valid(list)
                         /\ given' = [given EXCEPT ![r] = list]
  /\ UNCHANGED <<product, writes, lock, dropped, clients>>

\* Mutant: the product's row is not written when only tiers are given.
UpdateRowUnlocked(r) ==
  /\ Goto(r, "update", IF given[r] = None THEN "commit" ELSE "retire")
  /\ UNCHANGED <<product, writes, lock, given, dropped, clients>>

\* UPDATE of the product's row, by id alone; waits for the row.
UpdateRow(r) ==
  /\ Goto(r, "update", IF given[r] = None THEN "commit" ELSE "retire")
  /\ lock = None /\ lock' = r
  /\ UNCHANGED <<product, writes, given, dropped, clients>>

\* UPDATE of the tiers that are live when the statement begins.
RetireTiers(r) ==
  /\ Goto(r, "retire", "commit")
  /\ dropped' = [dropped EXCEPT ![r] = tiers]
  /\ UNCHANGED <<product, writes, lock, given, clients>>

\* Any of the prices may be given; those that are not stay.
UpdateCommit(r) ==
  LET list == given[r] IN
  /\ Goto(r, "commit", "emit")
  /\ terms' \in Terms
  /\ IF list = None
       THEN UNCHANGED <<tiers, writes>>
       ELSE /\ writes < MaxWrites /\ writes' = writes + 1
            /\ tiers' = (tiers \ dropped[r]) \cup Rows(list)
  /\ lock' = IF lock = r THEN None ELSE lock
  /\ dropped' = [dropped EXCEPT ![r] = {}]
  /\ given' = [given EXCEPT ![r] = None]
  /\ UNCHANGED <<active, deleted, clients>>

\* updateProductStatus: the check that the product exists, then one UPDATE.
StatusCheck(r) ==
  /\ Goto(r, "idle", "status") /\ ~deleted
  /\ UNCHANGED <<product, writes, lock, given, dropped, clients>>

\* Mutant: a change of status is not announced.
StatusWriteSilently(r) ==
  /\ Goto(r, "status", "idle") /\ lock = None
  /\ active' \in BOOLEAN
  /\ UNCHANGED <<terms, deleted, tiers, writes, lock, given, dropped, clients>>

StatusWrite(r) ==
  /\ Goto(r, "status", "emit") /\ lock = None
  /\ active' \in BOOLEAN
  /\ UNCHANGED <<terms, deleted, tiers, writes, lock, given, dropped, clients>>

\* deleteProducts: one UPDATE; the tiers stay.
Delete(r) ==
  /\ Goto(r, "idle", "emit") /\ lock = None
  /\ deleted' = TRUE
  /\ UNCHANGED <<terms, active, tiers, writes, lock, given, dropped, clients>>

\* Every handler ends with availability:changed.
Emit(r) ==
  /\ Goto(r, "emit", "idle")
  /\ notified' = TRUE
  /\ UNCHANGED <<product, writes, lock, given, dropped, shown, lost>>

\* A transaction is rolled back; or the process dies, after the commit too.
Fail(r) ==
  /\ pc[r] # "idle"
  /\ pc' = [pc EXCEPT ![r] = "idle"]
  /\ lost' = (lost \/ pc[r] = "emit")
  /\ lock' = IF lock = r THEN None ELSE lock
  /\ dropped' = [dropped EXCEPT ![r] = {}]
  /\ given' = [given EXCEPT ![r] = None]
  /\ UNCHANGED <<product, writes, shown, notified>>

\* A client loads the page, because of the event or on its own.
Fetch ==
  /\ shown' = Now /\ notified' = FALSE /\ lost' = FALSE
  /\ UNCHANGED <<product, writes, lock, pc, given, dropped>>

Update(r) == UpdateCheck(r) \/ UpdateRow(r) \/ RetireTiers(r) \/ UpdateCommit(r)
Status(r) == StatusCheck(r) \/ StatusWrite(r)

Next == \/ \E r \in Request :
             Update(r) \/ Status(r) \/ Delete(r) \/ Emit(r) \/ Fail(r)
        \/ Fetch

Spec == Init /\ [][Next]_vars

-----------------------------------------------------------------------------
(* Properties.                                                             *)

\* Every variable has its type, and a transaction past its UPDATE holds the
\* product's row.
TypeOK ==
  /\ terms \in Terms /\ active \in BOOLEAN /\ deleted \in BOOLEAN
  /\ tiers \subseteq Row /\ writes \in Nat
  /\ lock \in Request \cup {None}
  /\ pc \in [Request -> {"idle", "update", "retire", "commit", "status", "emit"}]
  /\ given \in [Request -> Given]
  /\ dropped \in [Request -> SUBSET Row]
  /\ notified \in BOOLEAN /\ lost \in BOOLEAN

\* No length of rental falls under two tiers, so getTierDailyPrice finds the
\* same price in whatever order it is given them: two administrators who
\* replace the list at once never leave a mixture of both lists
\* (products.service.ts:160-193, 367-391).
TiersNeverOverlap ==
  \A x, y \in tiers : x # y => Before(x.tier, y.tier) \/ Before(y.tier, x.tier)

\* If the terms are coherent, that is if half a day costs no more than a day,
\* one day in the tiers no less than the daily price, and a further day no
\* less than 24 further hours, then a longer rental never costs less
\* (rental-order-pricing.service.ts:143-172).
DayTotal(d) == d * DailyPrice(terms, tiers, d)
Coherent ==
  LET hourly == IF terms.hourly = None THEN 0 ELSE terms.hourly IN
  /\ terms.halfDay <= terms.daily /\ terms.daily <= DayTotal(1)
  /\ \A d \in 1 .. MaxDays : DayTotal(d) + 24 * hourly <= DayTotal(d + 1)
LongerNeverCheaper ==
  Coherent => \A h \in 1 .. 24 * MaxDays - 1 :
    UnitPrice(terms, tiers, h) <= UnitPrice(terms, tiers, h + 1)

\* What a client shows of a product is what the product is, or an event is on
\* its way or was lost with its request (emitAvailabilityChanged after each
\* write of products.service.ts).
ClientsWillSee ==
  shown = Now \/ notified \/ lost \/ \E r \in Request : pc[r] = "emit"
=============================================================================
