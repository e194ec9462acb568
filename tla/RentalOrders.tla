---------------------------- MODULE RentalOrders ----------------------------
(***************************************************************************)
(* Rental orders and the locking protocol that is meant to keep a camera   *)
(* from being promised to two customers.                                   *)
(*                                                                         *)
(* The module models the handlers of RentalOrdersService as concurrent     *)
(* HTTP requests against one PostgreSQL database.  A step of a request is  *)
(* what happens between two awaits that other requests can observe: an     *)
(* unlocked read, one advisory lock, a read inside the transaction, the    *)
(* commit of the transaction, the socket event after the commit.  The      *)
(* transactions run at READ COMMITTED: a read sees what is committed when  *)
(* it runs, and a write names its row by id and re-checks nothing.         *)
(***************************************************************************)
EXTENDS Integers, FiniteSets, Sequences

CONSTANTS
  Order,       \* ids of rental orders that may come to exist
  Item,        \* ids of the item rows of one order
  Product,     \* products of the catalogue
  Asset,       \* the assignable asset units (serial numbers); a fixed fleet
  ProductOf,   \* ProductOf[a] is the product asset unit a belongs to
  Request,     \* request handlers that may run at the same time
  None,        \* "no asset unit" and "no order"
  Time,        \* instants a rental may start or end at
  Turnarounds, \* turnaround minutes the default policy may hold, now or cached
  Carts,       \* the item lists a create or an update may carry
  KeyRank,     \* position of a lock key in the lexicographic order of keys
  Ops          \* the handlers that are in use; "reload" is a client's

-----------------------------------------------------------------------------
(* Rows of the tables and keys of the locks.                               *)

OrderStatus == {"DRAFT", "CONFIRMED", "PREPARING", "READY_FOR_PICKUP",
                "DELIVERING", "RENTING", "OVERDUE", "RETURNED", "COMPLETED",
                "CANCELLED", "DISPUTED"}
ASSIGN_ASSET_STATUSES   == {"DRAFT", "CONFIRMED", "PREPARING"}
CANCELABLE_STATUSES     == {"DRAFT", "CONFIRMED", "PREPARING",
                            "READY_FOR_PICKUP", "DELIVERING"}
SOFT_DELETABLE_STATUSES == {"DRAFT", "CANCELLED"}
BLOCKING_ORDER_STATUSES == {"CONFIRMED", "PREPARING", "READY_FOR_PICKUP",
                            "DELIVERING", "RENTING", "OVERDUE"}

Line == [id : Item, product : Product, asset : Asset \cup {None}]

\* A row of rental_orders with its items; "NONE" is an id not yet inserted.
Row == [status : OrderStatus \cup {"NONE"}, deleted : BOOLEAN,
        start : Nat, end : Nat, turnaround : Nat, blockedEnd : Nat,
        items : SUBSET Line]
BlankRow == [status |-> "NONE", deleted |-> FALSE, start |-> 0, end |-> 0,
             turnaround |-> 0, blockedEnd |-> 0, items |-> {}]

\* What is booked by an order that blocks a schedule; None is no booking.
Booking == [start : Nat, until : Nat, items : SUBSET Line]

\* A row of order_status_histories; "NONE" stands for its null fromStatus.
HistoryRow == [from : OrderStatus \cup {"NONE"}, to : OrderStatus]

\* dto.items of assign-assets: the unit for each item, None when not named.
Assignment == [Item -> Asset \cup {None}]
NoAssignment == [i \in Item |-> None]

AssetKey(a)   == <<"rental-asset", a>>
OrderKey(o)   == <<"rental-order", o>>
ProductKey(p) == <<"rental-product", p>>
LockKey == {AssetKey(a) : a \in Asset} \cup {OrderKey(o) : o \in Order}
             \cup {ProductKey(p) : p \in Product}

ASSUME SetsAssumption ==
  /\ IsFiniteSet(Order) /\ IsFiniteSet(Item)
  /\ IsFiniteSet(Asset) /\ IsFiniteSet(Product)
  /\ ProductOf \in [Asset -> Product]
  /\ None \notin Asset /\ None \notin Order
  /\ None \notin Booking
  /\ Time \subseteq Nat /\ Turnarounds \subseteq Nat
  /\ Carts \subseteq SUBSET Line
  /\ \A cart \in Carts : \A l, m \in cart : l.id = m.id => l = m

\* Key strings are distinct and sort by their prefix first, then by id.
ASSUME KeyRankAssumption ==
  /\ KeyRank \in [LockKey -> Nat]
  /\ \A k1, k2 \in LockKey : KeyRank[k1] = KeyRank[k2] => k1 = k2
  /\ \A a \in Asset, o \in Order : KeyRank[AssetKey(a)] < KeyRank[OrderKey(o)]
  /\ \A o \in Order, p \in Product :
       KeyRank[OrderKey(o)] < KeyRank[ProductKey(p)]

-----------------------------------------------------------------------------
VARIABLES
  orders,    \* committed rows: rental_orders joined with rental_order_items
  history,   \* committed rows of order_status_histories, per order
  shown,     \* the booking of each order that the clients fetched last
  untold,    \* orders whose booking was changed by a write no event announces
  pc,        \* where each request stands
  target,    \* the order a request is about
  row,       \* the row a request read, or the row it is about to write
  asg,       \* the assignment of an assign-assets request
  doomed,    \* the ids of a delete request
  orphaned,  \* requests whose item rows were replaced since they read them
  want,      \* lock keys a request still has to take
  locks      \* lock keys a request's transaction holds

db      == <<orders, history>>
clients == <<shown, untold>>
local   == <<target, row, asg, doomed>>
lockv   == <<want, locks>>
vars    == <<orders, history, shown, untold, pc, target, row, asg, doomed,
             orphaned, want, locks>>

\* Labels of requests that are inside a locking transaction.
InTransaction == {"assign.lock", "assign.write", "confirm.lockOrder",
                  "confirm.lockProducts", "confirm.write"}
Label == InTransaction \cup
         {"idle", "create.insert", "update.check", "update.keepItems",
          "update.replaceItems", "cancel.write", "delete.write", "emit"}

\* Labels of requests that have named one order that exists.
NeedsOrder == Label \ {"idle", "create.insert", "delete.write"}

TypeOK ==
  /\ orders \in [Order -> Row]
  /\ history \in [Order -> Seq(HistoryRow)]
  /\ shown \in [Order -> Booking \cup {None}]
  /\ untold \in SUBSET Order
  /\ pc \in [Request -> Label]
  /\ target \in [Request -> Order \cup {None}]
  /\ row \in [Request -> Row]
  /\ asg \in [Request -> Assignment]
  /\ doomed \in [Request -> SUBSET Order]
  /\ orphaned \in SUBSET Request
  /\ want \in [Request -> SUBSET LockKey]
  /\ locks \in [Request -> SUBSET LockKey]
  /\ \A r \in Request : pc[r] \in NeedsOrder => target[r] \in Order

Init ==
  /\ orders = [o \in Order |-> BlankRow]
  /\ history = [o \in Order |-> <<>>]
  /\ shown = [o \in Order |-> None]
  /\ untold = {}
  /\ pc = [r \in Request |-> "idle"]
  /\ target = [r \in Request |-> None]
  /\ row = [r \in Request |-> BlankRow]
  /\ asg = [r \in Request |-> NoAssignment]
  /\ doomed = [r \in Request |-> {}]
  /\ orphaned = {}
  /\ want = [r \in Request |-> {}]
  /\ locks = [r \in Request |-> {}]

-----------------------------------------------------------------------------
(* RentalOrderAvailabilityService: what the database says is booked.       *)

Visible(o) == orders[o].status # "NONE" /\ ~orders[o].deleted

Blocks(o) == orders[o].status \in BLOCKING_ORDER_STATUSES /\ ~orders[o].deleted

bookings == [o \in Order |->
               IF Blocks(o) THEN [start |-> orders[o].start,
                                  until |-> orders[o].blockedEnd,
                                  items |-> orders[o].items]
                            ELSE None]

\* Mutant: the turnaround of the other order is forgotten.
BlockingOrdersByEndDate(o, start, blockedEnd) ==
  {q \in Order \ {o} : /\ Blocks(q)
                       /\ orders[q].start < blockedEnd
                       /\ orders[q].end > start}

\* Orders other than o that block some of the time from start to blockedEnd.
BlockingOrders(o, start, blockedEnd) ==
  {q \in Order \ {o} : /\ Blocks(q)
                       /\ orders[q].start < blockedEnd
                       /\ orders[q].blockedEnd > start}

AssetsOf(items)   == {l.asset : l \in items} \ {None}
ProductsOf(items) == {l.product : l \in items}
LinesFor(items, p) == {l \in items : l.product = p}

BookedAssets(o, start, blockedEnd) ==
  UNION {AssetsOf(orders[q].items) : q \in BlockingOrders(o, start, blockedEnd)}

BookedLines(p, o, start, blockedEnd) ==
  UNION {{q} \X LinesFor(orders[q].items, p) :
           q \in BlockingOrders(o, start, blockedEnd)}

AssignableAssets(p) == {a \in Asset : ProductOf[a] = p}

SerialsFit(items) ==
  \A l \in items : l.asset # None => ProductOf[l.asset] = l.product

SerialsFree(o, w) ==
  AssetsOf(w.items) \cap BookedAssets(o, w.start, w.end + w.turnaround) = {}

\* Mutant: one line too many fits.
StockLeftOffByOne(o, w) ==
  \A p \in ProductsOf(w.items) :
    /\ AssignableAssets(p) # {}
    /\ Cardinality(BookedLines(p, o, w.start, w.end + w.turnaround))
         <= Cardinality(AssignableAssets(p))

StockLeft(o, w) ==
  \A p \in ProductsOf(w.items) :
    /\ AssignableAssets(p) # {}
    /\ Cardinality(BookedLines(p, o, w.start, w.end + w.turnaround))
         + Cardinality(LinesFor(w.items, p))
         <= Cardinality(AssignableAssets(p))

\* evaluateAvailability: the check create, update and confirm must pass for
\* items in the window of w, ignoring the order o itself.  Business hours and
\* closures can only refuse more; a refusal is a request that takes no step.
Available(o, w) ==
  /\ w.start < w.end
  /\ \A l, m \in w.items : l.asset = m.asset /\ l.asset # None => l = m
  /\ SerialsFit(w.items)
  /\ SerialsFree(o, w)
  /\ StockLeft(o, w)

-----------------------------------------------------------------------------
(* How a request moves, locks, ends.                                       *)

Begin(r, op, label, o) ==
  /\ op \in Ops
  /\ pc[r] = "idle"
  /\ pc' = [pc EXCEPT ![r] = label]
  /\ target' = [target EXCEPT ![r] = o]

Goto(r, from, to) ==
  /\ pc[r] = from
  /\ want[r] = {}
  /\ pc' = [pc EXCEPT ![r] = to]

\* Mutants: the order is forgotten before its event; the locks are kept.
LeaveWithoutOrder(r, to) ==
  /\ pc' = [pc EXCEPT ![r] = to]
  /\ target' = [target EXCEPT ![r] = None]
  /\ row' = [row EXCEPT ![r] = BlankRow]
  /\ asg' = [asg EXCEPT ![r] = NoAssignment]
  /\ doomed' = [doomed EXCEPT ![r] = {}]
  /\ want' = [want EXCEPT ![r] = {}]
  /\ locks' = [locks EXCEPT ![r] = {}]
LeaveWithoutUnlock(r, to) ==
  /\ pc' = [pc EXCEPT ![r] = to]
  /\ target' = [target EXCEPT ![r] = IF to = "idle" THEN None ELSE @]
  /\ row' = [row EXCEPT ![r] = BlankRow]
  /\ asg' = [asg EXCEPT ![r] = NoAssignment]
  /\ doomed' = [doomed EXCEPT ![r] = {}]
  /\ want' = [want EXCEPT ![r] = {}]
  /\ UNCHANGED locks

\* The request leaves its transaction: locks fall, what it read is forgotten.
Leave(r, to) ==
  /\ pc' = [pc EXCEPT ![r] = to]
  /\ target' = [target EXCEPT ![r] = IF to = "idle" THEN None ELSE @]
  /\ row' = [row EXCEPT ![r] = BlankRow]
  /\ asg' = [asg EXCEPT ![r] = NoAssignment]
  /\ doomed' = [doomed EXCEPT ![r] = {}]
  /\ want' = [want EXCEPT ![r] = {}]
  /\ locks' = [locks EXCEPT ![r] = {}]

Fail(r) == Leave(r, "idle") /\ orphaned' = orphaned \ {r}
                            /\ UNCHANGED <<db, clients>>

\* A request may die at any await before its commit: Prisma's timeout of an
\* interactive transaction, a lost connection, a crash of the process.
RollBack(r) == pc[r] \in Label \ {"idle", "emit"} /\ Fail(r)

\* After its commit too: the answer to COMMIT is lost or the process crashes.
\* The write stays, its event is kept nowhere and nobody sends it again.
LoseEvent(r) ==
  /\ pc[r] = "emit"
  /\ untold' = untold \cup {target[r]}
  /\ Leave(r, "idle")
  /\ orphaned' = orphaned \ {r}
  /\ UNCHANGED <<db, shown>>

\* Mutants: the keys are not sorted; a try-lock whose answer nobody reads.
LockUnsorted(r) ==
  \E k \in want[r] :
    /\ \A q \in Request \ {r} : k \notin locks[q]
    /\ locks' = [locks EXCEPT ![r] = @ \cup {k}]
    /\ want' = [want EXCEPT ![r] = @ \ {k}]
    /\ UNCHANGED <<db, clients, pc, local, orphaned>>
LockWithoutWaiting(r) ==
  \E k \in want[r] :
    /\ \A j \in want[r] : KeyRank[k] <= KeyRank[j]
    /\ locks' = [locks EXCEPT ![r] = @ \cup {k}]
    /\ want' = [want EXCEPT ![r] = @ \ {k}]
    /\ UNCHANGED <<db, clients, pc, local, orphaned>>

\* acquireAdvisoryLocks: the next key in sorted order, once no other
\* transaction holds it.
Lock(r) ==
  \E k \in want[r] :
    /\ \A j \in want[r] : KeyRank[k] <= KeyRank[j]
    /\ \A q \in Request \ {r} : k \notin locks[q]
    /\ locks' = [locks EXCEPT ![r] = @ \cup {k}]
    /\ want' = [want EXCEPT ![r] = @ \ {k}]
    /\ UNCHANGED <<db, clients, pc, local, orphaned>>

\* One row of order_status_histories.
Record(o, from, to) ==
  history' = [history EXCEPT ![o] = Append(@, [from |-> from, to |-> to])]

\* The row w with the dates, lines and turnaround of a create or an update.
Quoted(w, start, end, turnaround, items) ==
  [w EXCEPT !.start = start, !.end = end, !.items = items,
            !.turnaround = turnaround, !.blockedEnd = end + turnaround]

-----------------------------------------------------------------------------
(* createRentalOrder: an unlocked check, then one inserting transaction.   *)

CreateCheck(r) ==
  \E start, end \in Time, turnaround \in Turnarounds, cart \in Carts :
    LET w == Quoted(BlankRow, start, end, turnaround, cart)
    IN  /\ Begin(r, "create", "create.insert", None)
        /\ Available(None, w)
        /\ row' = [row EXCEPT ![r] = w]
        /\ UNCHANGED <<db, clients, asg, doomed, orphaned, lockv>>

CreateInsert(r) ==
  /\ pc[r] = "create.insert"
  /\ \E o \in Order :
       /\ orders[o].status = "NONE"
       /\ orders' = [orders EXCEPT ![o] = [row[r] EXCEPT !.status = "DRAFT"]]
       /\ Record(o, "NONE", "DRAFT")
  /\ Leave(r, "idle")
  /\ UNCHANGED <<clients, orphaned>>

-----------------------------------------------------------------------------
(* updateRentalOrder: reads and checks outside the transaction, no lock.   *)

UpdateRead(r) ==
  \E o \in Order :
    /\ Begin(r, "update", "update.check", o)
    /\ Visible(o) /\ orders[o].status = "DRAFT"
    /\ row' = [row EXCEPT ![r] = orders[o]]
    /\ UNCHANGED <<db, clients, asg, doomed, orphaned, lockv>>

\* With dto.items the lines are new rows; without, the lines read before.
UpdateCheck(r) ==
  \E start, end \in Time, turnaround \in Turnarounds,
     items \in Carts \cup {row[r].items} :
    LET w == Quoted(row[r], start, end, turnaround, items)
    IN  /\ \/ items = row[r].items
              /\ Goto(r, "update.check", "update.keepItems")
           \/ items \in Carts
              /\ Goto(r, "update.check", "update.replaceItems")
        /\ Available(target[r], w)
        /\ row' = [row EXCEPT ![r] = w]
        /\ UNCHANGED <<db, clients, target, asg, doomed, orphaned, lockv>>

\* tx.rentalOrder.update by id: dates and items, whatever the status is now.
Rewrite(o, w) ==
  orders' = [orders EXCEPT ![o] =
               [@ EXCEPT !.start = w.start, !.end = w.end, !.items = w.items,
                         !.turnaround = w.turnaround,
                         !.blockedEnd = w.blockedEnd]]

\* An update sends no event: one that overtakes a confirm leaves clients behind.
Untell(o) == /\ untold' = untold \cup {q \in {o} : Blocks(q)}
             /\ UNCHANGED shown

\* The item rows are updated by id: an error when they are gone.
UpdateKeepItems(r) ==
  /\ pc[r] = "update.keepItems"
  /\ IF r \in orphaned
     THEN Fail(r)
     ELSE /\ Rewrite(target[r], row[r])
          /\ Untell(target[r])
          /\ Leave(r, "idle")
          /\ UNCHANGED <<history, orphaned>>

\* deleteMany and createMany: the rows other requests have read are gone.
UpdateReplaceItems(r) ==
  /\ pc[r] = "update.replaceItems"
  /\ Rewrite(target[r], row[r])
  /\ Untell(target[r])
  /\ orphaned' = (orphaned \cup {q \in Request : target[q] = target[r]}) \ {r}
  /\ Leave(r, "idle")
  /\ UNCHANGED history

-----------------------------------------------------------------------------
(* assignRentalOrderAssets: read, take all locks, read again, write.       *)

NamedAssets(f) == {f[i] : i \in Item} \ {None}
Assigned(l, f) == IF f[l.id] = None THEN l ELSE [l EXCEPT !.asset = f[l.id]]

AssignRead(r) ==
  \E o \in Order, f \in Assignment \ {NoAssignment} :
    /\ Begin(r, "assign", "assign.lock", o)
    /\ Visible(o) /\ orders[o].status \in ASSIGN_ASSET_STATUSES
    /\ \A i \in Item : f[i] # None =>
         \E l \in orders[o].items : l.id = i /\ l.product = ProductOf[f[i]]
    /\ NamedAssets(f)
         \cap BookedAssets(o, orders[o].start, orders[o].blockedEnd) = {}
    /\ row' = [row EXCEPT ![r] = orders[o]]
    /\ asg' = [asg EXCEPT ![r] = f]
    /\ want' = [want EXCEPT ![r] =
                  {OrderKey(o)} \cup {AssetKey(a) : a \in NamedAssets(f)}
                  \cup {ProductKey(p) : p \in ProductsOf(orders[o].items)}]
    /\ UNCHANGED <<db, clients, doomed, orphaned, locks>>

AssignCheck(r) ==
  LET o == target[r] IN
  /\ pc[r] = "assign.lock" /\ want[r] = {}
  /\ IF /\ Visible(o) /\ orders[o].status \in ASSIGN_ASSET_STATUSES
        /\ NamedAssets(asg[r])
             \cap BookedAssets(o, orders[o].start, orders[o].blockedEnd) = {}
     THEN /\ Goto(r, "assign.lock", "assign.write")
          /\ UNCHANGED <<db, clients, local, orphaned, lockv>>
     ELSE Fail(r)

\* Mutant: the event is decided on the status read before the transaction.
AssignWriteByFirstRead(r) ==
  LET o == target[r] IN
  /\ pc[r] = "assign.write"
  /\ IF r \in orphaned
     THEN Fail(r)
     ELSE /\ orders' = [orders EXCEPT ![o].items =
                          {Assigned(l, asg[r]) : l \in @}]
          /\ Leave(r, IF row[r].status \in BLOCKING_ORDER_STATUSES
                      THEN "emit" ELSE "idle")
          /\ UNCHANGED <<history, clients, orphaned>>

AssignWrite(r) ==
  LET o == target[r] IN
  /\ pc[r] = "assign.write"
  /\ IF r \in orphaned
     THEN Fail(r)
     ELSE /\ orders' = [orders EXCEPT ![o].items =
                          {Assigned(l, asg[r]) : l \in @}]
          /\ Leave(r, IF Blocks(o) THEN "emit" ELSE "idle")
          /\ UNCHANGED <<history, clients, orphaned>>

-----------------------------------------------------------------------------
(* confirmRentalOrder: lock the order, read it, lock its products, check,  *)
(* write the status.                                                       *)

ConfirmBegin(r) ==
  \E o \in Order :
    /\ Begin(r, "confirm", "confirm.lockOrder", o)
    /\ want' = [want EXCEPT ![r] = {OrderKey(o)}]
    /\ UNCHANGED <<db, clients, row, asg, doomed, orphaned, locks>>

\* Mutants: the products are not locked; the status is not asserted.
ConfirmReadUnlockedProducts(r) ==
  LET o == target[r] IN
  /\ pc[r] = "confirm.lockOrder" /\ want[r] = {}
  /\ IF Visible(o) /\ orders[o].status = "DRAFT"
     THEN /\ Goto(r, "confirm.lockOrder", "confirm.lockProducts")
          /\ row' = [row EXCEPT ![r] = orders[o]]
          /\ UNCHANGED <<db, clients, target, asg, doomed, orphaned, lockv>>
     ELSE Fail(r)
ConfirmReadAnyStatus(r) ==
  LET o == target[r] IN
  /\ pc[r] = "confirm.lockOrder" /\ want[r] = {}
  /\ IF Visible(o)
     THEN /\ Goto(r, "confirm.lockOrder", "confirm.lockProducts")
          /\ row' = [row EXCEPT ![r] = orders[o]]
          /\ want' = [want EXCEPT ![r] =
                        {ProductKey(p) : p \in ProductsOf(orders[o].items)}]
          /\ UNCHANGED <<db, clients, target, asg, doomed, orphaned, locks>>
     ELSE Fail(r)

ConfirmRead(r) ==
  LET o == target[r] IN
  /\ pc[r] = "confirm.lockOrder" /\ want[r] = {}
  /\ IF Visible(o) /\ orders[o].status = "DRAFT"
     THEN /\ Goto(r, "confirm.lockOrder", "confirm.lockProducts")
          /\ row' = [row EXCEPT ![r] = orders[o]]
          /\ want' = [want EXCEPT ![r] =
                        {ProductKey(p) : p \in ProductsOf(orders[o].items)}]
          /\ UNCHANGED <<db, clients, target, asg, doomed, orphaned, locks>>
     ELSE Fail(r)

\* Mutant: the locks are asked for and not awaited.
ConfirmCheckUnawaited(r) ==
  /\ pc[r] = "confirm.lockProducts"
  /\ IF Available(target[r], row[r])
     THEN /\ pc' = [pc EXCEPT ![r] = "confirm.write"]
          /\ UNCHANGED <<db, clients, local, orphaned, lockv>>
     ELSE Fail(r)

ConfirmCheck(r) ==
  /\ pc[r] = "confirm.lockProducts" /\ want[r] = {}
  /\ IF Available(target[r], row[r])
     THEN /\ Goto(r, "confirm.lockProducts", "confirm.write")
          /\ UNCHANGED <<db, clients, local, orphaned, lockv>>
     ELSE Fail(r)

ConfirmWrite(r) ==
  LET o == target[r] IN
  /\ pc[r] = "confirm.write"
  /\ orders' = [orders EXCEPT ![o].status = "CONFIRMED"]
  /\ Record(o, row[r].status, "CONFIRMED")
  /\ Leave(r, "emit")
  /\ orphaned' = orphaned \ {r}
  /\ UNCHANGED clients

-----------------------------------------------------------------------------
(* cancelRentalOrder and deleteRentalOrders: the status is checked on a    *)
(* read before the write, under no lock.                                   *)

CancelRead(r) ==
  \E o \in Order :
    /\ Begin(r, "cancel", "cancel.write", o)
    /\ Visible(o) /\ orders[o].status \in CANCELABLE_STATUSES
    /\ row' = [row EXCEPT ![r] = orders[o]]
    /\ UNCHANGED <<db, clients, asg, doomed, orphaned, lockv>>

CancelWrite(r) ==
  LET o == target[r] IN
  /\ pc[r] = "cancel.write"
  /\ orders' = [orders EXCEPT ![o].status = "CANCELLED"]
  /\ Record(o, row[r].status, "CANCELLED")
  /\ Leave(r, IF row[r].status \in BLOCKING_ORDER_STATUSES
              THEN "emit" ELSE "idle")
  /\ orphaned' = orphaned \ {r}
  /\ UNCHANGED clients

DeleteRead(r) ==
  \E ids \in SUBSET {o \in Order : orders[o].status # "NONE"} :
    /\ ids # {}
    /\ Begin(r, "delete", "delete.write", None)
    /\ \A o \in ids : orders[o].status \in SOFT_DELETABLE_STATUSES
    /\ doomed' = [doomed EXCEPT ![r] = ids]
    /\ UNCHANGED <<db, clients, row, asg, orphaned, lockv>>

DeleteWrite(r) ==
  /\ pc[r] = "delete.write"
  /\ orders' = [o \in Order |-> IF o \in doomed[r]
                                THEN [orders[o] EXCEPT !.deleted = TRUE]
                                ELSE orders[o]]
  /\ Leave(r, "idle")
  /\ UNCHANGED <<history, clients, orphaned>>

-----------------------------------------------------------------------------
(* availability:changed, sent after the commit; a client refetches.        *)

\* The event names the products of one order: its availability, at the least,
\* is fetched anew.
Emit(r) ==
  /\ pc[r] = "emit"
  /\ shown' = [shown EXCEPT ![target[r]] = bookings[target[r]]]
  /\ untold' = untold \ {target[r]}
  /\ Leave(r, "idle")
  /\ orphaned' = orphaned \ {r}
  /\ UNCHANGED db

\* A client loads the page or connects again.
Fetch ==
  /\ "reload" \in Ops
  /\ shown' = bookings /\ untold' = {}
  /\ UNCHANGED <<db, pc, local, orphaned, lockv>>

-----------------------------------------------------------------------------
Confirm(r) == ConfirmBegin(r) \/ ConfirmRead(r) \/ ConfirmCheck(r)
                \/ ConfirmWrite(r)
Assign(r)  == AssignRead(r) \/ AssignCheck(r) \/ AssignWrite(r)
Update(r)  == UpdateRead(r) \/ UpdateCheck(r) \/ UpdateKeepItems(r)
                \/ UpdateReplaceItems(r)
Create(r)  == CreateCheck(r) \/ CreateInsert(r)
Cancel(r)  == CancelRead(r) \/ CancelWrite(r)
Delete(r)  == DeleteRead(r) \/ DeleteWrite(r)

Next == \/ \E r \in Request :
             \/ Create(r) \/ Update(r) \/ Assign(r) \/ Confirm(r) \/ Cancel(r)
             \/ Delete(r) \/ Lock(r) \/ Emit(r) \/ RollBack(r) \/ LoseEvent(r)
        \/ Fetch

Spec == Init /\ [][Next]_vars

\* A request that holds locks goes on whenever it can; SF because PostgreSQL
\* queues the waiters of an advisory lock, so none is passed over for ever.
Fairness ==
  \A r \in Request :
    /\ WF_vars(ConfirmRead(r) \/ ConfirmCheck(r) \/ ConfirmWrite(r))
    /\ WF_vars(AssignCheck(r) \/ AssignWrite(r))
    /\ WF_vars(Emit(r))
    /\ SF_vars(Lock(r))

FairSpec == Spec /\ Fairness

-----------------------------------------------------------------------------
(* Properties.                                                             *)

Overlap(o, q) == /\ orders[o].start < orders[q].blockedEnd
                 /\ orders[q].start < orders[o].blockedEnd

\* One asset unit is never held by two blocking orders whose windows, with the
\* turnaround each order was priced with, overlap.  Confirm and assign check
\* this in different transactions, against what is committed at that instant.
NoDoubleBooking ==
  \A o, q \in Order :
    o # q /\ Blocks(o) /\ Blocks(q) /\ Overlap(o, q)
      => AssetsOf(orders[o].items) \cap AssetsOf(orders[q].items) = {}

\* Every confirmed line, with a serial or without, can be served: there is a
\* way to give each line a unit of its product so that no unit is out twice.
\* evaluateAvailability only compares two counts per product.
EveryLineCanBeServed ==
  LET booked == UNION {{q} \X orders[q].items : q \in {o \in Order : Blocks(o)}}
  IN  \E serve \in [booked -> Asset] :
        /\ \A b \in booked : ProductOf[serve[b]] = b[2].product
        /\ \A b, c \in booked :
             b # c /\ serve[b] = serve[c]
               => b[1] # c[1] /\ ~Overlap(b[1], c[1])

\* No two transactions hold the same advisory lock, and a transaction only
\* waits for keys above every key it holds: acquireAdvisoryLocks sorts each
\* call, and confirm makes two calls in one transaction.
LockDiscipline ==
  /\ \A r, q \in Request : r # q => locks[r] \cap locks[q] = {}
  /\ \A r \in Request : \A h \in locks[r], k \in want[r] :
       KeyRank[h] < KeyRank[k]

\* Requests r and q, r waiting for q: the key r takes next is held by q.
WaitsFor(r, q) ==
  /\ r # q
  /\ \E k \in want[r] \cap locks[q] : \A j \in want[r] : KeyRank[k] <= KeyRank[j]

\* No set of requests waits only for one another.
NoDeadlock ==
  \A S \in SUBSET Request :
    S # {} => \E r \in S : \A q \in S : ~WaitsFor(r, q)

\* However requests interleave, an order is confirmed at most once: one
\* history row, one ORDER_CONFIRMED event.
ConfirmedAtMostOnce ==
  \A o \in Order :
    Cardinality({i \in DOMAIN history[o] : history[o][i].to = "CONFIRMED"}) <= 1

EventComing(o) == \E r \in Request : pc[r] = "emit" /\ target[r] = o

\* The clients show every booking as it is, its window, its lines and their
\* units, once the events of its order are out.  What leaves them behind, until
\* the order's next event or a reload, is a request that died after its commit
\* and an update that overtook a confirm; no other write, in any interleaving.
\* Assign decides by the status its transaction read last whether to send an
\* event: a confirm may have come between its first read and its locks.  (The
\* release of a booking may go unseen: a cancel decides on the status it read
\* before its transaction.)
ClientsSeeEveryBooking ==
  \A o \in Order :
    Blocks(o) /\ o \notin untold /\ ~EventComing(o) => shown[o] = bookings[o]

\* A transaction that takes advisory locks ends, even if nothing ever times
\* out: two rounds of locking never leave requests waiting for each other.
LockedTransactionsEnd ==
  \A r \in Request : pc[r] \in InTransaction ~> pc[r] \notin InTransaction

-----------------------------------------------------------------------------
(* As long as no update runs, the handlers implement the booking ledger:   *)
(* the orders that block a schedule are its bookings.                      *)

Ledger == INSTANCE BookingLedger WITH ledger <- bookings

\* Every step of every handler is one step of the ledger or none: confirm
\* books, assign on a confirmed order reassigns, cancel and delete release.
ImplementsLedger == Ledger!LedgerSpec

-----------------------------------------------------------------------------
(* The inductive invariant behind NoDoubleBooking and ImplementsLedger.    *)
(* It holds while no update runs: every write that could add a conflict is *)
(* made by a request that holds the product locks of the lines involved,   *)
(* and what such a request has checked cannot be undone by anyone else.    *)

\* Locks live inside a locking transaction, and a confirm that has yet to read
\* its order has asked for that order's lock and no other.
LockScope ==
  \A r \in Request :
    /\ pc[r] \notin InTransaction => locks[r] = {} /\ want[r] = {}
    /\ pc[r] \in {"assign.write", "confirm.write"} => want[r] = {}
    /\ pc[r] = "confirm.lockOrder" =>
         locks[r] \cup want[r] = {OrderKey(target[r])}

\* The keys r has, or is queued for, before it checks: those of its order, of
\* the products of the lines it will write and of the units it will put there.
HasKeys(r) ==
  /\ pc[r] \in {"confirm.lockProducts", "confirm.write"} =>
       /\ OrderKey(target[r]) \in locks[r]
       /\ \A l \in row[r].items : ProductKey(l.product) \in locks[r] \cup want[r]
  /\ pc[r] \in {"assign.lock", "assign.write"} =>
       /\ OrderKey(target[r]) \in locks[r] \cup want[r]
       /\ \A l \in orders[target[r]].items :
            /\ ProductKey(l.product) \in locks[r] \cup want[r]
            /\ asg[r][l.id] # None => ProductOf[asg[r][l.id]] = l.product
       /\ \A a \in NamedAssets(asg[r]) :
            ProductKey(ProductOf[a]) \in locks[r] \cup want[r]

KeysCovered == \A r \in Request : HasKeys(r)

\* Units sit on lines of their own product, in orders and in drafts of them,
\* and the window an order blocks ends a turnaround after its last day.
WellFormed(w) ==
  /\ \A l, m \in w.items : l.id = m.id => l = m
  /\ SerialsFit(w.items)
  /\ w.blockedEnd = w.end + w.turnaround

RowsWellFormed ==
  /\ \A o \in Order : WellFormed(orders[o])
  /\ \A r \in Request : pc[r] = "create.insert" => WellFormed(row[r])

\* A request past its first read is about an order that has been inserted, and
\* a confirm that holds the order lock still sees what it has read: others may
\* have cancelled or deleted the order, never edited or confirmed it.
SeesOrder(r) ==
  /\ pc[r] \in {"assign.lock", "assign.write", "cancel.write"} =>
       orders[target[r]].status # "NONE"
  /\ \A o \in doomed[r] : orders[o].status # "NONE"
  /\ pc[r] \in {"confirm.lockProducts", "confirm.write"} =>
       /\ orders[target[r]].status \in {"DRAFT", "CANCELLED"}
       /\ row[r].items = orders[target[r]].items
       /\ row[r].start = orders[target[r]].start
       /\ row[r].end = orders[target[r]].end
       /\ row[r].turnaround = orders[target[r]].turnaround

OrderIsAsRead == \A r \in Request : SeesOrder(r)

\* What r has checked under its locks is still so when it writes.
CheckHolds(r) ==
  /\ pc[r] = "confirm.write" => Available(target[r], row[r])
  /\ pc[r] = "assign.write" =>
       NamedAssets(asg[r]) \cap
         BookedAssets(target[r], orders[target[r]].start,
                      orders[target[r]].blockedEnd) = {}

CheckStillHolds == \A r \in Request : CheckHolds(r)

ProtocolInv == /\ LockScope /\ KeysCovered /\ RowsWellFormed
               /\ OrderIsAsRead /\ CheckStillHolds

=============================================================================
