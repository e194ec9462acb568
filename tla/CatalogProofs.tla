--------------------------- MODULE CatalogProofs ---------------------------
(* Proofs about Catalog, for any terms, lists and number of requests: tiers *)
(* stay disjoint, longer rentals cost no less, clients hear of new terms.   *)
EXTENDS Catalog, TLAPS

\* Whoever is past the UPDATE of the product's row holds it, alone; and what
\* it has marked deleted is all there is.
HoldsRow(r) == pc[r] = "retire" \/ (pc[r] = "commit" /\ given[r] # None)
Exclusive ==
  \A r \in Request :
    /\ HoldsRow(r) => lock = r
    /\ pc[r] = "commit" /\ given[r] # None => dropped[r] = tiers
    /\ pc[r] \in {"update", "retire", "commit"} /\ given[r] # None => Valid(given[r])
    /\ pc[r] = "retire" => given[r] # None

IInv == TypeOK /\ Exclusive /\ TiersNeverOverlap

\* A valid list is in order: of two of its tiers one ends before the other
\* begins.
LEMMA ValidListsAreDisjoint ==
  ASSUME NEW list \in Lists, Valid(list),
         NEW t \in list, NEW n \in list, t # n
  PROVE  Before(t, n) \/ Before(n, t)
<1>1. t.minDays \in Nat /\ n.minDays \in Nat
  BY CatalogAssumption DEF Tier
<1>2. t.minDays <= n.minDays \/ n.minDays <= t.minDays
  BY <1>1
<1> QED
  BY <1>2 DEF Valid

LEMMA InitInv == Init => IInv
<1> SUFFICES ASSUME Init PROVE IInv
  OBVIOUS
<1>1. PICK list \in Lists :
        Valid(list) /\ tiers = {[list |-> 1, tier |-> t] : t \in list}
  BY DEF Init
<1>2. list \subseteq Tier
  BY CatalogAssumption
<1>3. TypeOK
  <2>1. tiers \subseteq Row
    BY <1>1, <1>2 DEF Row
  <2>2. given \in [Request -> Given] /\ dropped \in [Request -> SUBSET Row]
    BY DEF Init, Given
  <2> QED
    BY <2>1, <2>2 DEF Init, TypeOK
<1>4. Exclusive
  BY DEF Init, Exclusive, HoldsRow
<1>5. TiersNeverOverlap
  <2> SUFFICES ASSUME NEW x \in tiers, NEW y \in tiers, x # y
               PROVE  Before(x.tier, y.tier) \/ Before(y.tier, x.tier)
    BY DEF TiersNeverOverlap
  <2>1. x.tier \in list /\ y.tier \in list /\ x.tier # y.tier
    BY <1>1
  <2> QED
    BY <1>1, <2>1, ValidListsAreDisjoint
<1> QED
  BY <1>3, <1>4, <1>5 DEF IInv

\* The new list replaces all there was.
LEMMA CommitInv ==
  ASSUME IInv, NEW r \in Request, UpdateCommit(r)
  PROVE  IInv'
<1> DEFINE list == given[r]
<1>0. TypeOK /\ Exclusive /\ TiersNeverOverlap
  BY DEF IInv
<1>1. pc[r] = "commit" /\ pc' = [pc EXCEPT ![r] = "emit"]
      /\ given' = [given EXCEPT ![r] = None]
      /\ dropped' = [dropped EXCEPT ![r] = {}]
  BY DEF UpdateCommit, Goto
<1>2. CASE list = None
  <2>1. tiers' = tiers /\ writes' = writes
    BY <1>2 DEF UpdateCommit
  <2>2. TypeOK'
    BY <1>0, <1>1, <1>2, <2>1 DEF TypeOK, UpdateCommit, Given, clients
  <2>3. Exclusive'
    <3> SUFFICES ASSUME NEW q \in Request, q # r PROVE
          /\ HoldsRow(q)' => lock' = q
          /\ (pc[q] = "commit" /\ given[q] # None)' => (dropped[q] = tiers)'
          /\ (pc[q] \in {"update", "retire", "commit"} /\ given[q] # None)' => Valid(given[q])'
          /\ (pc[q] = "retire")' => (given[q] # None)'
      BY <1>0, <1>1 DEF Exclusive, HoldsRow, TypeOK
    <3>1. pc'[q] = pc[q] /\ given'[q] = given[q] /\ dropped'[q] = dropped[q]
      BY <1>0, <1>1 DEF TypeOK
    <3>2. lock = q => lock' = q
      BY DEF UpdateCommit
    <3> QED
      BY <1>0, <3>1, <3>2, <2>1 DEF Exclusive, HoldsRow, Valid
  <2> QED
    BY <1>0, <2>1, <2>2, <2>3 DEF IInv, TiersNeverOverlap
<1>3. CASE list # None
  <2>1. list \in Lists /\ Valid(list) /\ lock = r /\ dropped[r] = tiers
    BY <1>0, <1>1, <1>3 DEF TypeOK, Exclusive, HoldsRow, Given
  <2>2. tiers' = Rows(list) /\ writes' = writes + 1
    BY <1>3, <2>1 DEF UpdateCommit
  <2>3. list \subseteq Tier /\ writes \in Nat
    BY <1>0, <2>1, CatalogAssumption DEF TypeOK
  <2>4. tiers' \subseteq Row
    BY <2>2, <2>3 DEF Rows, Row
  <2>5. TypeOK'
    BY <1>0, <1>1, <2>2, <2>3, <2>4 DEF TypeOK, UpdateCommit, Given, clients
  <2>6. Exclusive'
    <3> SUFFICES ASSUME NEW q \in Request, q # r PROVE
          /\ HoldsRow(q)' => lock' = q
          /\ (pc[q] = "commit" /\ given[q] # None)' => (dropped[q] = tiers)'
          /\ (pc[q] \in {"update", "retire", "commit"} /\ given[q] # None)' => Valid(given[q])'
          /\ (pc[q] = "retire")' => (given[q] # None)'
      BY <1>0, <1>1 DEF Exclusive, HoldsRow, TypeOK
    <3>1. pc'[q] = pc[q] /\ given'[q] = given[q]
      BY <1>0, <1>1 DEF TypeOK
    <3>2. ~HoldsRow(q)
      BY <1>0, <2>1 DEF Exclusive
    <3> QED
      BY <1>0, <3>1, <3>2 DEF Exclusive, HoldsRow, Valid
  <2>7. TiersNeverOverlap'
    <3> SUFFICES ASSUME NEW x \in tiers', NEW y \in tiers', x # y
                 PROVE  Before(x.tier, y.tier) \/ Before(y.tier, x.tier)
      BY DEF TiersNeverOverlap
    <3>1. x.tier \in list /\ y.tier \in list /\ x.tier # y.tier
      BY <2>2 DEF Rows
    <3> QED
      BY <2>1, <3>1, ValidListsAreDisjoint
  <2> QED
    BY <2>5, <2>6, <2>7 DEF IInv
<1> QED
  BY <1>2, <1>3

\* No other step touches the tiers, or lets a second transaction in.
LEMMA StepInv ==
  ASSUME IInv, [Next]_vars
  PROVE  IInv'
<1>0. TypeOK /\ Exclusive /\ TiersNeverOverlap
  BY DEF IInv
<1>1. ASSUME NEW r \in Request, UpdateCheck(r) PROVE IInv'
  <2>1. TypeOK'
    BY <1>0, <1>1 DEF TypeOK, UpdateCheck, Goto, product, clients
  <2>2. Exclusive'
    BY <1>0, <1>1 DEF TypeOK, Exclusive, HoldsRow, Valid, UpdateCheck, Goto, product
  <2> QED
    BY <1>0, <1>1, <2>1, <2>2 DEF IInv, TiersNeverOverlap, UpdateCheck, product
<1>2. ASSUME NEW r \in Request, UpdateRow(r) PROVE IInv'
  <2>1. TypeOK'
    BY <1>0, <1>2 DEF TypeOK, UpdateRow, Goto, product, clients
  <2>2. Exclusive'
    BY <1>0, <1>2, CatalogAssumption
    DEF TypeOK, Exclusive, HoldsRow, Valid, UpdateRow, Goto, product
  <2> QED
    BY <1>0, <1>2, <2>1, <2>2 DEF IInv, TiersNeverOverlap, UpdateRow, product
<1>3. ASSUME NEW r \in Request, RetireTiers(r) PROVE IInv'
  <2>1. TypeOK'
    BY <1>0, <1>3 DEF TypeOK, RetireTiers, Goto, product, clients
  <2>2. Exclusive'
    BY <1>0, <1>3 DEF TypeOK, Exclusive, HoldsRow, Valid, RetireTiers, Goto, product
  <2> QED
    BY <1>0, <1>3, <2>1, <2>2 DEF IInv, TiersNeverOverlap, RetireTiers, product
<1>4. ASSUME NEW r \in Request, Status(r) PROVE IInv'
  <2>1. TypeOK'
    BY <1>0, <1>4 DEF TypeOK, Status, StatusCheck, StatusWrite, Goto, product, clients
  <2>2. Exclusive'
    BY <1>0, <1>4 DEF TypeOK, Exclusive, HoldsRow, Valid, Status, StatusCheck,
                      StatusWrite, Goto, product
  <2> QED
    BY <1>0, <1>4, <2>1, <2>2
    DEF IInv, TiersNeverOverlap, Status, StatusCheck, StatusWrite, product
<1>5. ASSUME NEW r \in Request, Delete(r) \/ Emit(r) PROVE IInv'
  <2>1. TypeOK'
    BY <1>0, <1>5 DEF TypeOK, Delete, Emit, Goto, product, clients
  <2>2. Exclusive'
    BY <1>0, <1>5 DEF TypeOK, Exclusive, HoldsRow, Valid, Delete, Emit, Goto, product
  <2> QED
    BY <1>0, <1>5, <2>1, <2>2 DEF IInv, TiersNeverOverlap, Delete, Emit, product
<1>6. ASSUME NEW r \in Request, Fail(r) PROVE IInv'
  <2>1. TypeOK'
    BY <1>0, <1>6 DEF TypeOK, Fail, Given, product
  <2>2. Exclusive'
    BY <1>0, <1>6 DEF TypeOK, Exclusive, HoldsRow, Valid, Fail, product
  <2> QED
    BY <1>0, <1>6, <2>1, <2>2 DEF IInv, TiersNeverOverlap, Fail, product
<1>7. CASE Fetch
  BY <1>0, <1>7 DEF IInv, TypeOK, Exclusive, HoldsRow, Valid, TiersNeverOverlap,
                    Fetch, product
<1>8. CASE UNCHANGED vars
  BY <1>0, <1>8 DEF IInv, TypeOK, Exclusive, HoldsRow, Valid, TiersNeverOverlap,
                    vars, product, clients
<1> QED
  BY <1>1, <1>2, <1>3, <1>4, <1>5, <1>6, <1>7, <1>8, CommitInv DEF Next, Update

LEMMA Invariance == Spec => []IInv
<1>1. Init => IInv
  BY InitInv
<1>2. IInv /\ [Next]_vars => IInv'
  BY StepInv
<1> QED
  BY <1>1, <1>2, PTL DEF Spec

\* The tiers of a product never overlap, however many administrators replace
\* the list at the same time and whatever valid lists they send.
THEOREM TiersStayDisjoint == Spec => []TiersNeverOverlap
<1>1. IInv => TiersNeverOverlap
  BY DEF IInv
<1> QED
  BY <1>1, Invariance, PTL

\* Every variable has its type in every reachable state.
THEOREM CatalogTypeCorrect == Spec => []TypeOK
<1>1. IInv => TypeOK
  BY DEF IInv
<1> QED
  BY <1>1, Invariance, PTL

-----------------------------------------------------------------------------
\* Every product has a daily price for every number of days.
LEMMA DailyPriceIsPrice ==
  ASSUME TypeOK, NEW d \in Nat
  PROVE  DailyPrice(terms, tiers, d) \in Nat
<1> DEFINE fit == {x \in tiers : Covers(x.tier, d)}
<1>1. terms.daily \in Nat
  BY CatalogAssumption DEF TypeOK, Term, Price
<1>2. \A x \in fit : x.tier.daily \in Nat
  BY DEF TypeOK, Row, Tier, Price
<1>3. fit # {} => (CHOOSE x \in fit : TRUE) \in fit
  OBVIOUS
<1>4. DailyPrice(terms, tiers, d)
        = IF fit = {} THEN terms.daily ELSE (CHOOSE x \in fit : TRUE).tier.daily
  BY DEF DailyPrice
<1> HIDE DEF fit
<1> QED
  BY <1>1, <1>2, <1>3, <1>4

\* UnitPrice, of so many full days and further hours, with the totals by days.
PriceOf(half, daily, hourly, byHour, total, hours, days, extra) ==
  IF hours <= 6 THEN half
  ELSE IF hours <= 24 THEN daily
  ELSE IF byHour /\ extra > 0 THEN total[days] + hourly * extra
  ELSE total[IF extra = 0 THEN days ELSE days + 1]

\* One hour more never costs less: within a day the hours see to that, and at
\* its end the totals of the days.
LEMMA PriceOfNextHour ==
  ASSUME NEW half \in Nat, NEW daily \in Nat, NEW hourly \in Nat, NEW byHour \in BOOLEAN,
         NEW total, \A d \in Nat : total[d] \in Nat,
         half <= daily, daily <= total[1], NEW M \in Nat,
         \A d \in 1 .. M : total[d] + 24 * hourly <= total[d + 1],
         NEW h \in 1 .. 24 * M - 1, NEW q \in Nat, NEW e \in 0 .. 23, h = 24 * q + e,
         ~byHour => hourly = 0
  PROVE  PriceOf(half, daily, hourly, byHour, total, h, q, e)
           <= IF e = 23
              THEN PriceOf(half, daily, hourly, byHour, total, h + 1, q + 1, 0)
              ELSE PriceOf(half, daily, hourly, byHour, total, h + 1, q, e + 1)
<1> USE DEF PriceOf
<1>1. CASE h < 24
  BY <1>1
<1>2. q < M
  OBVIOUS
<1>3. total[q] \in Nat /\ total[q + 1] \in Nat
  OBVIOUS
<1>4. hourly * e \in Nat /\ hourly * (e + 1) = hourly * e + hourly
  OBVIOUS
<1>5. CASE h >= 24
  <2>1. q \in 1 .. M /\ total[q] + 24 * hourly <= total[q + 1]
    BY <1>2, <1>5
  <2>2. CASE e = 23
    <3>1. hourly * e <= 24 * hourly
      BY <2>2
    <3> QED
      BY <1>3, <1>4, <1>5, <2>1, <2>2, <3>1
  <2>3. CASE e # 23
    BY <1>3, <1>4, <1>5, <2>1, <2>3
  <2> QED
    BY <2>2, <2>3
<1> QED
  BY <1>1, <1>5

\* However the terms are changed, and by however many administrators at once:
\* while they are coherent, renting longer never costs less.
THEOREM LongerRentalsCostNoLess == Spec => []LongerNeverCheaper
<1>1. TypeOK => LongerNeverCheaper
  <2> SUFFICES ASSUME TypeOK, Coherent, NEW h \in 1 .. 24 * MaxDays - 1
               PROVE  UnitPrice(terms, tiers, h) <= UnitPrice(terms, tiers, h + 1)
    BY DEF LongerNeverCheaper
  <2> DEFINE total == [d \in Nat |-> DayTotal(d)]
             byHour == terms.hourly # None
             hourly == IF byHour THEN terms.hourly ELSE 0
             q == h \div 24
             e == h % 24
             price(hours, days, extra) ==
               PriceOf(terms.halfDay, terms.daily, hourly, byHour, total, hours, days, extra)
  <2>1. terms.halfDay \in Nat /\ terms.daily \in Nat /\ hourly \in Nat
    BY CatalogAssumption DEF TypeOK, Term, Price
  <2>2. \A d \in Nat : total[d] \in Nat /\ total[d] = DailyPrice(terms, tiers, d) * d
    BY DailyPriceIsPrice DEF DayTotal
  <2>3. /\ terms.halfDay <= terms.daily /\ terms.daily <= total[1]
        /\ \A d \in 1 .. MaxDays : total[d] + 24 * hourly <= total[d + 1]
    <3>1. \A d \in Nat : total[d] = DayTotal(d)
      OBVIOUS
    <3>2. MaxDays \in Nat
      BY CatalogAssumption
    <3> HIDE DEF total
    <3> QED
      BY <3>1, <3>2 DEF Coherent
  <2>4. h \in Nat /\ q \in Nat /\ e \in 0 .. 23 /\ h = 24 * q + e
    BY CatalogAssumption
  <2>5. ASSUME NEW k \in Nat, NEW d \in Nat, NEW x \in 0 .. 23, k = 24 * d + x
        PROVE  UnitPrice(terms, tiers, k) = price(k, d, x)
    <3>1. k \div 24 = d /\ k % 24 = x
      BY <2>5
    <3> HIDE DEF total
    <3> QED
      BY <2>2, <2>5, <3>1 DEF UnitPrice, PriceOf
  <2>6. UnitPrice(terms, tiers, h) = price(h, q, e)
    <3> HIDE DEF q, e, total
    <3> QED
      BY <2>4, <2>5
  <2>7. UnitPrice(terms, tiers, h + 1)
          = IF e = 23 THEN price(h + 1, q + 1, 0) ELSE price(h + 1, q, e + 1)
    <3> HIDE DEF q, e, total
    <3>1. CASE e = 23
      <4>1. h + 1 = 24 * (q + 1) + 0
        BY <2>4, <3>1
      <4> QED
        BY <2>4, <2>5, <3>1, <4>1
    <3>2. CASE e # 23
      <4>1. h + 1 = 24 * q + (e + 1) /\ e + 1 \in 0 .. 23
        BY <2>4, <3>2
      <4> QED
        BY <2>4, <2>5, <3>2, <4>1
    <3> QED
      BY <3>1, <3>2
  <2>8. price(h, q, e) <= IF e = 23 THEN price(h + 1, q + 1, 0) ELSE price(h + 1, q, e + 1)
    <3>1. byHour \in BOOLEAN /\ (~byHour => hourly = 0) /\ MaxDays \in Nat
      BY CatalogAssumption
    <3> HIDE DEF q, e, total, hourly, byHour
    <3>2. \A d \in Nat : total[d] \in Nat
      BY <2>2
    <3> QED
      BY <2>1, <2>3, <2>4, <3>1, <3>2, PriceOfNextHour, ZenonT(60)
  <2> HIDE DEF price, q, e
  <2> QED
    BY <2>6, <2>7, <2>8
<1> QED
  BY <1>1, CatalogTypeCorrect, PTL

\* Nobody goes on showing old terms unannounced: each write of the product is
\* followed by an event, unless its request dies in between.
THEOREM ClientsSeeTerms == Spec => []ClientsWillSee
<1>1. Init => ClientsWillSee
  BY DEF Init, ClientsWillSee
<1>2. TypeOK /\ ClientsWillSee /\ [Next]_vars => ClientsWillSee'
  <2> SUFFICES ASSUME TypeOK, ClientsWillSee, [Next]_vars PROVE ClientsWillSee'
    OBVIOUS
  <2> USE DEF TypeOK, ClientsWillSee, Goto
  <2>1. ASSUME NEW r \in Request, UpdateCommit(r) \/ StatusWrite(r) \/ Delete(r)
        PROVE  ClientsWillSee'
    <3>1. pc'[r] = "emit"
      BY <2>1 DEF UpdateCommit, StatusWrite, Delete
    <3> QED
      BY <3>1
  <2>2. ASSUME NEW r \in Request,
               UpdateCheck(r) \/ UpdateRow(r) \/ RetireTiers(r) \/ StatusCheck(r)
        PROVE  ClientsWillSee'
    <3>1. UNCHANGED <<product, clients>> /\ pc[r] # "emit"
          /\ \A q \in Request \ {r} : pc'[q] = pc[q]
      BY <2>2 DEF UpdateCheck, UpdateRow, RetireTiers, StatusCheck
    <3> QED
      BY <3>1 DEF Now, product, clients
  <2>3. ASSUME NEW r \in Request, Emit(r) PROVE ClientsWillSee'
    BY <2>3 DEF Emit
  <2>4. ASSUME NEW r \in Request, Fail(r) PROVE ClientsWillSee'
    <3>1. UNCHANGED <<product, shown, notified>> /\ lost' = (lost \/ pc[r] = "emit")
          /\ \A q \in Request \ {r} : pc'[q] = pc[q]
      BY <2>4 DEF Fail
    <3> QED
      BY <3>1 DEF Now, product
  <2>5. CASE Fetch
    BY <2>5 DEF Fetch, Now, product
  <2>6. CASE UNCHANGED vars
    BY <2>6 DEF vars, Now, product, clients
  <2> QED
    BY <2>1, <2>2, <2>3, <2>4, <2>5, <2>6 DEF Next, Update, Status
<1> QED
  BY <1>1, <1>2, CatalogTypeCorrect, PTL DEF Spec
=============================================================================
