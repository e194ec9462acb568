------------------------- MODULE RentalOrdersProofs -------------------------
(***************************************************************************)
(* Theorems about RentalOrders, for any set of orders, requests, products  *)
(* and asset units: types; no two transactions hold one lock, and waiting  *)
(* for locks never goes round in a circle; an order is confirmed once; the *)
(* clients see every booking no write has left untold; the pages show what *)
(* the checks accept.  While no update runs, no unit is promised twice,    *)
(* every line can be served, every step is a step of BookingLedger, and    *)
(* the timelines leave room for the lines without a serial.                *)
(***************************************************************************)
EXTENDS AvailabilityPages, FiniteSetTheorems, WellFoundedInduction, TLAPS

-----------------------------------------------------------------------------
(* Type correctness.                                                       *)

LEMMA BlankRowType == BlankRow \in Row /\ NoAssignment \in Assignment
BY DEF BlankRow, Row, NoAssignment, Assignment

LEMMA LeaveType ==
  ASSUME TypeOK, NEW r \in Request, NEW to, Leave(r, to),
         \/ to = "idle"
         \/ to = "emit" /\ target[r] \in Order
  PROVE  /\ pc' \in [Request -> Label]
         /\ target' \in [Request -> Order \cup {None}]
         /\ row' \in [Request -> Row]
         /\ asg' \in [Request -> Assignment]
         /\ doomed' \in [Request -> SUBSET Order]
         /\ want' \in [Request -> SUBSET LockKey]
         /\ locks' \in [Request -> SUBSET LockKey]
         /\ \A q \in Request : pc'[q] \in NeedsOrder => target'[q] \in Order
BY BlankRowType DEF TypeOK, Leave, NeedsOrder, Label

LEMMA FailType ==
  ASSUME TypeOK, NEW r \in Request, Fail(r)
  PROVE  TypeOK'
<1>1. "idle" \in Label
  BY DEF Label
<1>2. Leave(r, "idle")
  BY DEF Fail
<1>3. QED
  BY <1>1, <1>2, LeaveType DEF TypeOK, Fail, db, clients

LEMMA RecordType ==
  ASSUME TypeOK, NEW o \in Order, NEW from \in OrderStatus \cup {"NONE"},
         NEW to \in OrderStatus, Record(o, from, to)
  PROVE  history' \in [Order -> Seq(HistoryRow)]
<1> DEFINE e == [from |-> from, to |-> to]
<1>1. e \in HistoryRow
  BY DEF HistoryRow
<1>2. history[o] \in Seq(HistoryRow)
  BY DEF TypeOK
<1>3. Append(history[o], e) \in Seq(HistoryRow)
  <2> HIDE DEF e
  <2> QED BY <1>1, <1>2
<1>4. history' = [history EXCEPT ![o] = Append(history[o], e)]
  BY DEF Record
<1> HIDE DEF e
<1>5. QED
  BY <1>3, <1>4 DEF TypeOK

LEMMA QuotedType ==
  ASSUME NEW w \in Row, NEW start \in Time, NEW end \in Time,
         NEW turnaround \in Turnarounds, NEW items \in SUBSET Line
  PROVE  Quoted(w, start, end, turnaround, items) \in Row
<1>1. start \in Nat /\ end \in Nat /\ turnaround \in Nat
  BY SetsAssumption
<1>2. end + turnaround \in Nat
  BY <1>1
<1>3. QED
  BY <1>1, <1>2 DEF Quoted, Row

LEMMA KeyType ==
  /\ \A a \in Asset : AssetKey(a) \in LockKey
  /\ \A o \in Order : OrderKey(o) \in LockKey
  /\ \A p \in Product : ProductKey(p) \in LockKey
  /\ \A items \in SUBSET Line :
       {ProductKey(p) : p \in ProductsOf(items)} \in SUBSET LockKey
  /\ \A f \in Assignment : {AssetKey(a) : a \in NamedAssets(f)} \in SUBSET LockKey
<1>1. /\ \A a \in Asset : AssetKey(a) \in LockKey
      /\ \A o \in Order : OrderKey(o) \in LockKey
      /\ \A p \in Product : ProductKey(p) \in LockKey
  BY DEF LockKey
<1>2. \A items \in SUBSET Line : ProductsOf(items) \subseteq Product
  BY DEF ProductsOf, Line
<1>3. \A f \in Assignment : NamedAssets(f) \subseteq Asset
  BY DEF NamedAssets, Assignment
<1>4. QED
  BY <1>1, <1>2, <1>3

\* The step of a request, and what leaves the server as it is: a client loads the
\* page, or nothing happens.
Step(r) == \/ Create(r) \/ Update(r) \/ Assign(r) \/ Confirm(r) \/ Cancel(r)
           \/ Delete(r) \/ Lock(r) \/ Emit(r) \/ RollBack(r) \/ LoseEvent(r)
Quiet == UNCHANGED <<orders, history, pc, target, row, asg, doomed, orphaned,
                     want, locks>>

LEMMA StepOrQuiet == [Next]_vars => Quiet \/ \E r \in Request : Step(r)
BY DEF Next, Step, Fetch, Quiet, vars, db, local, lockv

\* What the clients fetch is a booking or none.
LEMMA BookingType ==
  ASSUME TypeOK, NEW o \in Order
  PROVE  bookings[o] \in Booking \cup {None}
<1>1. orders[o] \in Row
  BY DEF TypeOK
<1> QED
  BY <1>1 DEF bookings, Blocks, Booking, Row

LEMMA TypeOKStep == TypeOK /\ [Next]_vars => TypeOK'
<1> SUFFICES ASSUME TypeOK, [Next]_vars PROVE TypeOK'
  OBVIOUS
<1> USE DEF TypeOK, clients
<1>0. CASE UNCHANGED vars
  BY <1>0 DEF vars
<1>f. CASE Fetch
  <2>1. shown' \in [Order -> Booking \cup {None}] /\ untold' = {}
    BY <1>f, BookingType DEF Fetch, bookings, Blocks
  <2> QED
    BY <1>f, <2>1 DEF Fetch, db, local, lockv
<1> SUFFICES ASSUME NEW r \in Request, Step(r)
             PROVE  TypeOK'
  BY <1>0, <1>f DEF Next, Step
<1>l. /\ InTransaction \subseteq Label
      /\ {"idle", "create.insert", "update.check", "update.keepItems",
          "update.replaceItems", "cancel.write", "delete.write", "emit"}
           \subseteq Label
  BY DEF Label, InTransaction
<1>n. /\ InTransaction \cup {"update.check", "update.keepItems",
          "update.replaceItems", "cancel.write", "emit"} \subseteq NeedsOrder
      /\ "idle" \notin NeedsOrder /\ "create.insert" \notin NeedsOrder
      /\ "delete.write" \notin NeedsOrder
  BY DEF NeedsOrder, Label, InTransaction
<1>r. /\ \A o \in Order : orders[o] \in Row
      /\ row[r] \in Row /\ asg[r] \in Assignment /\ doomed[r] \in SUBSET Order
      /\ \A w \in Row : w.items \in SUBSET Line
  BY DEF Row
<1>1. CASE CreateCheck(r)
  <2>1. PICK start \in Time, end \in Time, turnaround \in Turnarounds,
             cart \in Carts :
          row' = [row EXCEPT ![r] =
                    Quoted(BlankRow, start, end, turnaround, cart)]
    BY <1>1 DEF CreateCheck
  <2>2. row' \in [Request -> Row]
    <3>1. cart \in SUBSET Line
      BY SetsAssumption
    <3>2. QED
      BY <2>1, <3>1, BlankRowType, QuotedType
  <2>3. pc' \in [Request -> Label] /\ target' \in [Request -> Order \cup {None}]
    BY <1>1, <1>l DEF CreateCheck, Begin
  <2>4. \A q \in Request : pc'[q] \in NeedsOrder => target'[q] \in Order
    BY <1>1, <1>n DEF CreateCheck, Begin
  <2>5. UNCHANGED <<db, clients, asg, doomed, orphaned, lockv>>
    BY <1>1 DEF CreateCheck
  <2>6. QED
    BY <2>2, <2>3, <2>4, <2>5 DEF db, lockv
<1>2. CASE CreateInsert(r)
  <2>1. PICK o \in Order :
          /\ orders' = [orders EXCEPT ![o] = [row[r] EXCEPT !.status = "DRAFT"]]
          /\ Record(o, "NONE", "DRAFT")
    BY <1>2 DEF CreateInsert
  <2>2. history' \in [Order -> Seq(HistoryRow)]
    BY <2>1, RecordType DEF OrderStatus
  <2>3. [row[r] EXCEPT !.status = "DRAFT"] \in Row
    BY <1>r DEF Row, OrderStatus
  <2>4. orders' \in [Order -> Row]
    BY <2>1, <2>3
  <2>5. Leave(r, "idle") /\ UNCHANGED <<clients, orphaned>>
    BY <1>2 DEF CreateInsert
  <2>6. QED
    BY <1>l, <2>2, <2>4, <2>5, LeaveType
<1>3. CASE UpdateRead(r)
  BY <1>3, <1>l, <1>r DEF UpdateRead, Begin, db, lockv
<1>4. CASE UpdateCheck(r)
  <2>1. PICK start \in Time, end \in Time, turnaround \in Turnarounds,
             items \in Carts \cup {row[r].items} :
          row' = [row EXCEPT ![r] =
                    Quoted(row[r], start, end, turnaround, items)]
    BY <1>4 DEF UpdateCheck
  <2>2. items \in SUBSET Line
    BY <1>r, SetsAssumption
  <2>3. row' \in [Request -> Row]
    BY <1>r, <2>1, <2>2, QuotedType
  <2>4. /\ pc[r] = "update.check"
        /\ \/ pc' = [pc EXCEPT ![r] = "update.keepItems"]
           \/ pc' = [pc EXCEPT ![r] = "update.replaceItems"]
        /\ UNCHANGED <<db, clients, target, asg, doomed, orphaned, lockv>>
    BY <1>4 DEF UpdateCheck, Goto
  <2>5. pc' \in [Request -> Label]
    BY <1>l, <2>4
  <2>6. \A q \in Request : pc'[q] \in NeedsOrder => target'[q] \in Order
    BY <1>n, <2>4
  <2>7. QED
    BY <2>3, <2>4, <2>5, <2>6 DEF db, lockv
<1>w. ASSUME NEW o \in Order \cup {None}, NEW w \in Row, Rewrite(o, w)
      PROVE  orders' \in [Order -> Row]
  <2>1. CASE o \in Order
    <3>1. [orders[o] EXCEPT !.start = w.start, !.end = w.end, !.items = w.items,
                            !.turnaround = w.turnaround,
                            !.blockedEnd = w.blockedEnd] \in Row
      BY <1>r, <2>1 DEF Row
    <3>2. QED
      BY <1>w, <2>1, <3>1 DEF Rewrite
  <2>2. CASE o \notin Order
    BY <1>w, <2>2 DEF Rewrite
  <2>3. QED
    BY <2>1, <2>2
<1>u. ASSUME NEW o \in Order, Untell(o)
      PROVE  shown' \in [Order -> Booking \cup {None}] /\ untold' \in SUBSET Order
  BY <1>u DEF Untell
<1>5. CASE UpdateKeepItems(r)
  <2>1. CASE Fail(r)
    BY <2>1, FailType
  <2>2. CASE /\ Rewrite(target[r], row[r])
             /\ Untell(target[r])
             /\ Leave(r, "idle")
             /\ UNCHANGED <<history, orphaned>>
    <3>1. shown' \in [Order -> Booking \cup {None}] /\ untold' \in SUBSET Order
      BY <1>5, <1>n, <1>u, <2>2 DEF UpdateKeepItems
    <3>2. QED
      BY <1>l, <1>r, <1>w, <2>2, <3>1, LeaveType
  <2>3. QED
    BY <1>5, <2>1, <2>2 DEF UpdateKeepItems
<1>6. CASE UpdateReplaceItems(r)
  <2>1. /\ Rewrite(target[r], row[r])
        /\ Untell(target[r])
        /\ orphaned' \in SUBSET Request
        /\ Leave(r, "idle")
        /\ UNCHANGED history
    BY <1>6 DEF UpdateReplaceItems
  <2>2. shown' \in [Order -> Booking \cup {None}] /\ untold' \in SUBSET Order
    BY <1>6, <1>n, <1>u, <2>1 DEF UpdateReplaceItems
  <2>3. QED
    BY <1>l, <1>r, <1>w, <2>1, <2>2, LeaveType
<1>7. CASE AssignRead(r)
  <2>1. PICK o \in Order, f \in Assignment :
          /\ Begin(r, "assign", "assign.lock", o)
          /\ row' = [row EXCEPT ![r] = orders[o]]
          /\ asg' = [asg EXCEPT ![r] = f]
          /\ want' = [want EXCEPT ![r] =
                {OrderKey(o)} \cup {AssetKey(a) : a \in NamedAssets(f)}
                \cup {ProductKey(p) : p \in ProductsOf(orders[o].items)}]
          /\ UNCHANGED <<db, clients, doomed, orphaned, locks>>
    BY <1>7 DEF AssignRead
  <2>2. want' \in [Request -> SUBSET LockKey]
    BY <1>r, <2>1, KeyType
  <2>3. pc' \in [Request -> Label] /\ target' \in [Request -> Order \cup {None}]
    BY <1>l, <2>1 DEF Begin, InTransaction
  <2>4. \A q \in Request : pc'[q] \in NeedsOrder => target'[q] \in Order
    BY <2>1 DEF Begin
  <2>5. QED
    BY <1>r, <2>1, <2>2, <2>3, <2>4 DEF db
<1>8. CASE AssignCheck(r)
  BY <1>8, <1>l, <1>n, FailType
  DEF AssignCheck, Goto, InTransaction, db, local, lockv
<1>9. CASE AssignWrite(r)
  <2>1. CASE Fail(r)
    BY <2>1, FailType
  <2>2. CASE /\ orders' = [orders EXCEPT ![target[r]].items =
                              {Assigned(l, asg[r]) : l \in @}]
             /\ Leave(r, IF Blocks(target[r]) THEN "emit" ELSE "idle")
             /\ UNCHANGED <<history, clients, orphaned>>
    <3>1. \A l \in Line : Assigned(l, asg[r]) \in Line
      BY <1>r DEF Assigned, Line, Assignment
    <3>2. \A items \in SUBSET Line : {Assigned(l, asg[r]) : l \in items} \in SUBSET Line
      BY <3>1
    <3>3. orders' \in [Order -> Row]
      <4>1. CASE target[r] \in Order
        <5> DEFINE w == [orders[target[r]] EXCEPT !.items =
                           {Assigned(l, asg[r]) : l \in @}]
        <5>1. w \in Row
          <6>1. {Assigned(l, asg[r]) : l \in orders[target[r]].items} \in SUBSET Line
            BY <1>r, <3>2, <4>1
          <6>2. QED
            BY <1>r, <4>1, <6>1 DEF Row
        <5>2. orders' = [orders EXCEPT ![target[r]] = w]
          BY <2>2
        <5> HIDE DEF w
        <5>3. QED
          BY <5>1, <5>2
      <4>2. CASE target[r] \notin Order
        BY <2>2, <4>2
      <4>3. QED
        BY <4>1, <4>2
    <3>4. CASE Leave(r, "idle")
      BY <1>l, <2>2, <3>3, <3>4, LeaveType
    <3>5. CASE Leave(r, "emit")
      BY <1>l, <2>2, <3>3, <3>5, LeaveType
    <3>6. QED
      BY <2>2, <3>4, <3>5
  <2>3. QED
    BY <1>9, <2>1, <2>2 DEF AssignWrite
<1>10. CASE ConfirmBegin(r)
  <2>1. PICK o \in Order :
          /\ Begin(r, "confirm", "confirm.lockOrder", o)
          /\ want' = [want EXCEPT ![r] = {OrderKey(o)}]
          /\ UNCHANGED <<db, clients, row, asg, doomed, orphaned, locks>>
    BY <1>10 DEF ConfirmBegin
  <2>2. want' \in [Request -> SUBSET LockKey]
    BY <2>1, KeyType
  <2>3. QED
    BY <1>l, <2>1, <2>2 DEF Begin, InTransaction, db
<1>11. CASE ConfirmRead(r)
  <2>1. CASE Fail(r)
    BY <2>1, FailType
  <2>2. CASE /\ Visible(target[r]) /\ orders[target[r]].status = "DRAFT"
             /\ ~Fail(r)
    <3>1. target[r] \in Order
      BY <1>11, <1>n DEF ConfirmRead, InTransaction
    <3>2. want' \in [Request -> SUBSET LockKey]
      <4>1. {ProductKey(p) : p \in ProductsOf(orders[target[r]].items)}
              \in SUBSET LockKey
        BY <1>r, <3>1, KeyType
      <4>2. QED
        BY <1>11, <2>2, <4>1 DEF ConfirmRead
    <3>3. row' \in [Request -> Row]
      BY <1>11, <1>r, <2>2, <3>1 DEF ConfirmRead
    <3>4. QED
      BY <1>11, <1>l, <2>2, <3>1, <3>2, <3>3
      DEF ConfirmRead, Goto, db, InTransaction
  <2>3. QED
    BY <1>11, <2>1, <2>2 DEF ConfirmRead
<1>12. CASE ConfirmCheck(r)
  BY <1>12, <1>l, <1>n, FailType
  DEF ConfirmCheck, Goto, InTransaction, db, local, lockv
<1>13. CASE ConfirmWrite(r)
  <2>1. target[r] \in Order
    BY <1>13, <1>n DEF ConfirmWrite, InTransaction
  <2>2. row[r].status \in OrderStatus \cup {"NONE"}
    BY <1>r DEF Row
  <2>3. history' \in [Order -> Seq(HistoryRow)]
    BY <1>13, <2>1, <2>2, RecordType DEF ConfirmWrite, OrderStatus
  <2>4. [orders[target[r]] EXCEPT !.status = "CONFIRMED"] \in Row
    BY <1>r, <2>1 DEF Row, OrderStatus
  <2>5. orders' \in [Order -> Row]
    BY <1>13, <2>1, <2>4 DEF ConfirmWrite
  <2>6. /\ Leave(r, "emit")
        /\ orphaned' \in SUBSET Request
        /\ UNCHANGED clients
    BY <1>13 DEF ConfirmWrite
  <2>7. QED
    BY <2>1, <2>3, <2>5, <2>6, LeaveType
<1>14. CASE CancelRead(r)
  BY <1>14, <1>l, <1>n, <1>r DEF CancelRead, Begin, db, lockv
<1>15. CASE CancelWrite(r)
  <2>1. target[r] \in Order
    BY <1>15, <1>n DEF CancelWrite
  <2>2. row[r].status \in OrderStatus \cup {"NONE"}
    BY <1>r DEF Row
  <2>3. history' \in [Order -> Seq(HistoryRow)]
    BY <1>15, <2>1, <2>2, RecordType DEF CancelWrite, OrderStatus
  <2>4. [orders[target[r]] EXCEPT !.status = "CANCELLED"] \in Row
    BY <1>r, <2>1 DEF Row, OrderStatus
  <2>5. orders' \in [Order -> Row]
    BY <1>15, <2>1, <2>4 DEF CancelWrite
  <2>6. /\ Leave(r, "emit") \/ Leave(r, "idle")
        /\ orphaned' \in SUBSET Request
        /\ UNCHANGED clients
    BY <1>15 DEF CancelWrite
  <2>7. QED
    BY <2>1, <2>3, <2>5, <2>6, LeaveType
<1>16. CASE DeleteRead(r)
  BY <1>16, <1>l, <1>n DEF DeleteRead, Begin, db, lockv
<1>17. CASE DeleteWrite(r)
  <2>1. \A o \in Order : [orders[o] EXCEPT !.deleted = TRUE] \in Row
    BY <1>r DEF Row
  <2>2. orders' \in [Order -> Row]
    BY <1>17, <1>r, <2>1 DEF DeleteWrite
  <2>3. Leave(r, "idle") /\ UNCHANGED <<history, clients, orphaned>>
    BY <1>17 DEF DeleteWrite
  <2>4. QED
    BY <2>2, <2>3, LeaveType
<1>18. CASE Lock(r)
  BY <1>18 DEF Lock, db, local
<1>19. CASE Emit(r)
  <2>1. shown' \in [Order -> Booking \cup {None}] /\ untold' \in SUBSET Order
    <3>1. bookings[target[r]] \in Booking \cup {None}
      BY <1>19, <1>n, BookingType DEF Emit
    <3>2. QED
      BY <1>19, <3>1 DEF Emit
  <2>2. Leave(r, "idle") /\ orphaned' \in SUBSET Request /\ UNCHANGED db
    BY <1>19 DEF Emit
  <2>3. QED
    BY <2>1, <2>2, LeaveType DEF db
<1>20. CASE RollBack(r)
  BY <1>20, FailType DEF RollBack
<1>22. CASE LoseEvent(r)
  <2>1. untold' \in SUBSET Order /\ UNCHANGED <<db, shown>>
    BY <1>22, <1>n DEF LoseEvent
  <2>2. Leave(r, "idle") /\ orphaned' \in SUBSET Request
    BY <1>22 DEF LoseEvent
  <2> QED
    BY <2>1, <2>2, LeaveType DEF db
<1>21. QED
  BY <1>1, <1>2, <1>3, <1>4, <1>5, <1>6, <1>7, <1>8, <1>9, <1>10, <1>11,
     <1>12, <1>13, <1>14, <1>15, <1>16, <1>17, <1>18, <1>19, <1>20, <1>22
  DEF Step, Create, Update, Assign, Confirm, Cancel, Delete

\* Every variable keeps its type, and a request past its first read knows the
\* order it is about, in every run of the handlers.
THEOREM TypeCorrect == Spec => []TypeOK
<1>1. Init => TypeOK
  BY BlankRowType DEF Init, TypeOK, NeedsOrder, Label
<1>2. QED
  BY <1>1, TypeOKStep, PTL DEF Spec

-----------------------------------------------------------------------------
(* Exclusion and order of acquisition.                                     *)

LockInv == TypeOK /\ LockDiscipline /\ LockScope

\* A request that leaves its transaction gives up every lock.
LEMMA LeaveLocks ==
  ASSUME LockInv, NEW r \in Request, NEW to \in {"idle", "emit"}, Leave(r, to)
  PROVE  LockDiscipline' /\ LockScope'
<1>1. /\ locks' = [locks EXCEPT ![r] = {}] /\ want' = [want EXCEPT ![r] = {}]
      /\ pc' = [pc EXCEPT ![r] = to]
      /\ \A q \in Request \ {r} : target'[q] = target[q]
  BY DEF Leave, LockInv, TypeOK
<1>2. to \notin InTransaction
  BY DEF InTransaction
<1>3. LockDiscipline'
  BY <1>1 DEF LockInv, LockDiscipline, TypeOK
<1>4. LockScope'
  BY <1>1, <1>2 DEF LockInv, LockScope, TypeOK, InTransaction
<1>5. QED
  BY <1>3, <1>4

\* A request that begins without asking for a lock.
LEMMA BeginLocks ==
  ASSUME LockInv, NEW r \in Request, NEW op, NEW to \in Label \ InTransaction,
         NEW o, Begin(r, op, to, o), UNCHANGED lockv
  PROVE  LockDiscipline' /\ LockScope'
<1>1. LockDiscipline'
  BY DEF LockInv, LockDiscipline, lockv
<1>2. "idle" \notin InTransaction
  BY DEF InTransaction
<1>3. LockScope'
  BY <1>2 DEF LockInv, LockScope, TypeOK, Begin, lockv, InTransaction
<1>4. QED
  BY <1>1, <1>3

\* A request that begins its transaction by asking for a set of keys.
LEMMA AskLocks ==
  ASSUME LockInv, NEW r \in Request, NEW op, NEW to, NEW o, NEW keys,
         Begin(r, op, to, o), want' = [want EXCEPT ![r] = keys],
         UNCHANGED locks,
         \/ to = "assign.lock"
         \/ to = "confirm.lockOrder" /\ keys = {OrderKey(o)}
  PROVE  LockDiscipline' /\ LockScope'
<1>1. pc[r] = "idle" /\ locks[r] = {}
  BY DEF LockInv, LockScope, Begin, InTransaction
<1>2. LockDiscipline'
  BY <1>1 DEF LockInv, LockDiscipline, TypeOK
<1>3. LockScope'
  BY <1>1 DEF LockInv, LockScope, TypeOK, Begin, InTransaction
<1>4. QED
  BY <1>2, <1>3

\* Taking the least of the wanted keys keeps the rest above what is held.
LEMMA LockLocks ==
  ASSUME LockInv, NEW r \in Request, Lock(r)
  PROVE  LockDiscipline' /\ LockScope'
<1>1. PICK k \in want[r] :
        /\ \A j \in want[r] : KeyRank[k] <= KeyRank[j]
        /\ \A q \in Request \ {r} : k \notin locks[q]
        /\ locks' = [locks EXCEPT ![r] = @ \cup {k}]
        /\ want' = [want EXCEPT ![r] = @ \ {k}]
        /\ UNCHANGED <<db, clients, pc, local, orphaned>>
  BY DEF Lock
<1>2. want[r] \subseteq LockKey /\ locks[r] \subseteq LockKey
  BY DEF LockInv, TypeOK
<1>3. \A j \in want[r] \ {k} : KeyRank[k] < KeyRank[j]
  <2>1. \A j \in want[r] : KeyRank[j] \in Nat
    BY <1>2, KeyRankAssumption
  <2>2. \A j \in want[r] \ {k} : KeyRank[j] # KeyRank[k]
    BY <1>1, <1>2, KeyRankAssumption
  <2>3. QED
    BY <1>1, <2>1, <2>2
<1>4. \A s, q \in Request : s # q => locks'[s] \cap locks'[q] = {}
  BY <1>1 DEF LockInv, LockDiscipline, TypeOK
<1>5. \A s \in Request : \A h \in locks'[s], j \in want'[s] :
        KeyRank[h] < KeyRank[j]
  <2> SUFFICES ASSUME NEW s \in Request, NEW h \in locks'[s], NEW j \in want'[s]
               PROVE  KeyRank[h] < KeyRank[j]
    OBVIOUS
  <2>1. CASE s # r
    BY <1>1, <2>1 DEF LockInv, LockDiscipline, TypeOK
  <2>2. CASE s = r /\ h = k
    BY <1>1, <1>3, <2>2 DEF LockInv, TypeOK
  <2>3. CASE s = r /\ h # k
    BY <1>1, <2>3 DEF LockInv, LockDiscipline, TypeOK
  <2>4. QED
    BY <2>1, <2>2, <2>3
<1>6. LockDiscipline'
  BY <1>4, <1>5 DEF LockDiscipline
<1>7. LockScope'
  <2>1. UNCHANGED <<pc, target>>
    BY <1>1 DEF local
  <2>2. \A q \in Request \ {r} : locks'[q] = locks[q] /\ want'[q] = want[q]
    BY <1>1 DEF LockInv, TypeOK
  <2>3. locks'[r] \cup want'[r] = locks[r] \cup want[r]
    BY <1>1 DEF LockInv, TypeOK
  <2>4. want[r] # {} /\ pc[r] \in InTransaction
    BY <1>1 DEF LockInv, LockScope
  <2>5. pc[r] \notin {"assign.write", "confirm.write"}
    BY <2>4 DEF LockInv, LockScope
  <2>6. QED
    BY <2>1, <2>2, <2>3, <2>4, <2>5 DEF LockInv, LockScope
<1>8. QED
  BY <1>6, <1>7

\* The second round of confirm: product keys sort after the order key it holds.
LEMMA ConfirmReadLocks ==
  ASSUME LockInv, NEW r \in Request, ConfirmRead(r)
  PROVE  LockDiscipline' /\ LockScope'
<1>1. CASE Fail(r)
  BY <1>1, LeaveLocks DEF Fail
<1>2. CASE ~Fail(r)
  <2> DEFINE o == target[r]
             keys == {ProductKey(p) : p \in ProductsOf(orders[o].items)}
  <2>1. /\ pc[r] = "confirm.lockOrder" /\ want[r] = {}
        /\ pc' = [pc EXCEPT ![r] = "confirm.lockProducts"]
        /\ want' = [want EXCEPT ![r] = keys]
        /\ UNCHANGED <<target, locks>>
    BY <1>2 DEF ConfirmRead, Goto
  <2>2. o \in Order
    BY <2>1 DEF LockInv, TypeOK, NeedsOrder, Label, InTransaction
  <2>3. locks[r] = {OrderKey(o)}
    BY <2>1 DEF LockInv, LockScope
  <2>4. ProductsOf(orders[o].items) \subseteq Product
    BY <2>2 DEF LockInv, TypeOK, Row, ProductsOf, Line
  <2>5. \A k \in keys : KeyRank[OrderKey(o)] < KeyRank[k]
    BY <2>2, <2>4, KeyRankAssumption
  <2> HIDE DEF o, keys
  <2>6. LockDiscipline'
    BY <2>1, <2>3, <2>5 DEF LockInv, LockDiscipline, TypeOK
  <2>7. LockScope'
    BY <2>1 DEF LockInv, LockScope, TypeOK, InTransaction
  <2>8. QED
    BY <2>6, <2>7
<1>3. QED
  BY <1>1, <1>2

\* A step from one stage of a transaction to the next takes and drops nothing.
LEMMA GotoLocks ==
  ASSUME LockInv, NEW r \in Request, NEW from,
         NEW to \in {"assign.write", "confirm.write"},
         Goto(r, from, to), UNCHANGED <<target, locks, want>>
  PROVE  LockDiscipline' /\ LockScope'
<1>1. LockDiscipline'
  BY DEF LockInv, LockDiscipline
<1>2. LockScope'
  BY DEF LockInv, LockScope, TypeOK, Goto, InTransaction
<1>3. QED
  BY <1>1, <1>2

LEMMA LockInvStep == LockInv /\ [Next]_vars => LockInv'
<1> SUFFICES ASSUME LockInv, [Next]_vars PROVE LockInv'
  OBVIOUS
<1>t. TypeOK'
  BY TypeOKStep DEF LockInv
<1> SUFFICES LockDiscipline' /\ LockScope'
  BY <1>t DEF LockInv
<1>0. CASE Quiet
  BY <1>0 DEF Quiet, LockInv, LockDiscipline, LockScope
<1> SUFFICES ASSUME NEW r \in Request, Step(r)
             PROVE  LockDiscipline' /\ LockScope'
  BY <1>0, StepOrQuiet
<1>l. {"create.insert", "update.check", "cancel.write", "delete.write"}
        \subseteq Label \ InTransaction
  BY DEF Label, InTransaction
<1>1. CASE \/ CreateInsert(r) \/ UpdateKeepItems(r) \/ UpdateReplaceItems(r)
           \/ AssignWrite(r) \/ ConfirmWrite(r) \/ CancelWrite(r)
           \/ DeleteWrite(r) \/ Emit(r) \/ RollBack(r) \/ LoseEvent(r)
  <2>1. Leave(r, "idle") \/ Leave(r, "emit")
    BY <1>1 DEF CreateInsert, UpdateKeepItems, UpdateReplaceItems, AssignWrite,
                ConfirmWrite, CancelWrite, DeleteWrite, Emit, LoseEvent,
                RollBack, Fail
  <2>2. QED
    BY <2>1, LeaveLocks
<1>2. CASE CreateCheck(r)
  BY <1>2, <1>l, BeginLocks DEF CreateCheck
<1>3. CASE UpdateRead(r)
  BY <1>3, <1>l, BeginLocks DEF UpdateRead
<1>4. CASE CancelRead(r)
  BY <1>4, <1>l, BeginLocks DEF CancelRead
<1>5. CASE DeleteRead(r)
  BY <1>5, <1>l, BeginLocks DEF DeleteRead
<1>6. CASE UpdateCheck(r)
  <2>1. /\ pc[r] = "update.check"
        /\ \/ pc' = [pc EXCEPT ![r] = "update.keepItems"]
           \/ pc' = [pc EXCEPT ![r] = "update.replaceItems"]
        /\ UNCHANGED <<target, locks, want>>
    BY <1>6 DEF UpdateCheck, Goto, lockv
  <2>2. QED
    BY <2>1 DEF LockInv, LockDiscipline, LockScope, TypeOK, InTransaction
<1>7. CASE AssignRead(r)
  BY <1>7, AskLocks DEF AssignRead
<1>8. CASE AssignCheck(r)
  BY <1>8, LeaveLocks, GotoLocks DEF AssignCheck, Fail, local, lockv
<1>9. CASE ConfirmBegin(r)
  BY <1>9, AskLocks DEF ConfirmBegin
<1>10. CASE ConfirmRead(r)
  BY <1>10, ConfirmReadLocks
<1>11. CASE ConfirmCheck(r)
  BY <1>11, LeaveLocks, GotoLocks DEF ConfirmCheck, Fail, local, lockv
<1>12. CASE Lock(r)
  BY <1>12, LockLocks
<1>13. QED
  BY <1>1, <1>2, <1>3, <1>4, <1>5, <1>6, <1>7, <1>8, <1>9, <1>10, <1>11, <1>12
  DEF Step, Create, Update, Assign, Confirm, Cancel, Delete

LEMMA LockInvHolds == Spec => []LockInv
<1>1. Init => LockInv
  <2>1. Init => TypeOK
    BY BlankRowType DEF Init, TypeOK, NeedsOrder, Label
  <2>2. Init => LockDiscipline /\ LockScope
    BY DEF Init, LockDiscipline, LockScope
  <2>3. QED
    BY <2>1, <2>2 DEF LockInv
<1>2. QED
  BY <1>1, LockInvStep, PTL DEF Spec

\* acquireAdvisoryLocks keeps two transactions from holding one lock, and every
\* transaction, confirm's two rounds included, asks in increasing order.
THEOREM LocksAreOrdered == Spec => []LockDiscipline
<1>1. LockInv => LockDiscipline
  BY DEF LockInv
<1>2. QED
  BY <1>1, LockInvHolds, PTL

-----------------------------------------------------------------------------
(* No circle of waiting requests.                                          *)

LEMMA LockKeyFinite == IsFiniteSet(LockKey)
<1> DEFINE A == {AssetKey(a) : a \in Asset}
           O == {OrderKey(o) : o \in Order}
           P == {ProductKey(p) : p \in Product}
<1>1. IsFiniteSet(A)
  <2>1. [a \in Asset |-> AssetKey(a)] \in Surjection(Asset, A)
    BY DEF Surjection
  <2>2. QED
    BY <2>1, SetsAssumption, FS_Surjection
<1>2. IsFiniteSet(O)
  <2>1. [o \in Order |-> OrderKey(o)] \in Surjection(Order, O)
    BY DEF Surjection
  <2>2. QED
    BY <2>1, SetsAssumption, FS_Surjection
<1>3. IsFiniteSet(P)
  <2>1. [p \in Product |-> ProductKey(p)] \in Surjection(Product, P)
    BY DEF Surjection
  <2>2. QED
    BY <2>1, SetsAssumption, FS_Surjection
<1> HIDE DEF A, O, P
<1>4. IsFiniteSet(A \cup O)
  BY <1>1, <1>2, FS_Union
<1>5. IsFiniteSet((A \cup O) \cup P)
  BY <1>3, <1>4, FS_Union
<1>6. QED
  BY <1>5 DEF LockKey, A, O, P

\* The keys from the one request r takes next upwards.  A request that waits
\* for another has more of them, and there are finitely many keys in all.
KeysAhead(r) == {k \in LockKey : \E j \in want[r] : KeyRank[j] <= KeyRank[k]}

LEMMA WaitingShrinks ==
  ASSUME LockInv, NEW r \in Request, NEW q \in Request, NEW s \in Request,
         WaitsFor(r, q), WaitsFor(q, s)
  PROVE  KeysAhead(q) \subseteq KeysAhead(r) /\ KeysAhead(q) # KeysAhead(r)
<1>1. PICK k \in want[r] \cap locks[q] :
        \A j \in want[r] : KeyRank[k] <= KeyRank[j]
  BY DEF WaitsFor
<1>2. /\ want[r] \subseteq LockKey /\ want[q] \subseteq LockKey
      /\ \A j \in LockKey : KeyRank[j] \in Nat
  BY KeyRankAssumption DEF LockInv, TypeOK
<1>3. \A j \in want[q] : KeyRank[k] < KeyRank[j]
  BY <1>1 DEF LockInv, LockDiscipline
<1>4. k \in KeysAhead(r)
  BY <1>1, <1>2 DEF KeysAhead
<1>5. k \notin KeysAhead(q)
  <2> SUFFICES ASSUME NEW j \in want[q], KeyRank[j] <= KeyRank[k] PROVE FALSE
    BY DEF KeysAhead
  <2>1. KeyRank[k] < KeyRank[j] /\ KeyRank[k] \in Nat /\ KeyRank[j] \in Nat
    BY <1>1, <1>2, <1>3
  <2>2. QED
    BY <2>1
<1>6. KeysAhead(q) \subseteq KeysAhead(r)
  <2> SUFFICES ASSUME NEW h \in LockKey, NEW j \in want[q],
                      KeyRank[j] <= KeyRank[h]
               PROVE  KeyRank[k] <= KeyRank[h]
    BY <1>1 DEF KeysAhead
  <2>1. KeyRank[k] < KeyRank[j] /\ KeyRank[k] \in Nat /\ KeyRank[j] \in Nat
          /\ KeyRank[h] \in Nat
    BY <1>1, <1>2, <1>3
  <2>2. QED
    BY <2>1
<1>7. QED
  BY <1>4, <1>5, <1>6

LEMMA OrderedNeverDeadlocks == LockInv => NoDeadlock
<1> SUFFICES ASSUME LockInv, NEW S \in SUBSET Request, S # {},
                    \A r \in S : \E q \in S : WaitsFor(r, q)
             PROVE  FALSE
  BY DEF NoDeadlock
<1> DEFINE T == {KeysAhead(r) : r \in S}
<1>1. T \subseteq FiniteSubsetsOf(LockKey)
  <2>1. T \subseteq SUBSET LockKey
    BY DEF KeysAhead
  <2>2. FiniteSubsetsOf(LockKey) = SUBSET LockKey
    BY LockKeyFinite, FS_FiniteSubsetsOfFinite
  <2>3. QED
    BY <2>1, <2>2
<1>2. T # {}
  OBVIOUS
<1>3. PICK U \in T : \A V \in T : <<V, U>> \notin StrictSubsetOrdering(LockKey)
  <2> HIDE DEF T
  <2>1. IsWellFoundedOn(StrictSubsetOrdering(LockKey), FiniteSubsetsOf(LockKey))
    BY FS_StrictSubsetOrderingWellFounded
  <2>2. QED
    BY <1>1, <1>2, <2>1, WFMin
<1>4. PICK r \in S : U = KeysAhead(r)
  OBVIOUS
<1>5. PICK q \in S : WaitsFor(r, q)
  OBVIOUS
<1>6. PICK s \in S : WaitsFor(q, s)
  OBVIOUS
<1>7. KeysAhead(q) \subseteq KeysAhead(r) /\ KeysAhead(q) # KeysAhead(r)
  BY <1>5, <1>6, WaitingShrinks
<1>8. <<KeysAhead(q), U>> \in StrictSubsetOrdering(LockKey)
  BY <1>4, <1>7 DEF StrictSubsetOrdering, KeysAhead
<1>9. QED
  BY <1>3, <1>8

\* However many confirms and assigns run at once, some request of any group of
\* them waits for none of the group: PostgreSQL never finds a deadlock.
THEOREM NeverDeadlocks == Spec => []NoDeadlock
BY LockInvHolds, OrderedNeverDeadlocks, PTL

-----------------------------------------------------------------------------
(* Double booking.                                                         *)

\* The invariant the theorems rest on.  Updates check and write under no lock,
\* so they are left out: no request may be inside one.
NoUpdate == \A r \in Request :
  pc[r] \notin {"update.check", "update.keepItems", "update.replaceItems"}

BookingInv == LockInv /\ NoUpdate /\ ProtocolInv /\ NoDoubleBooking

-----------------------------------------------------------------------------
(* What a step of one request does to the orders and to other requests.    *)

LEMMA OthersUntouched ==
  ASSUME TypeOK, NEW r \in Request, Step(r), NEW q \in Request \ {r}
  PROVE  /\ pc'[q] = pc[q] /\ target'[q] = target[q] /\ row'[q] = row[q]
         /\ asg'[q] = asg[q] /\ doomed'[q] = doomed[q]
         /\ want'[q] = want[q] /\ locks'[q] = locks[q]
<1> USE DEF TypeOK
<1>1. ASSUME NEW to, Leave(r, to)
      PROVE  /\ pc'[q] = pc[q] /\ target'[q] = target[q] /\ row'[q] = row[q]
             /\ asg'[q] = asg[q] /\ doomed'[q] = doomed[q]
             /\ want'[q] = want[q] /\ locks'[q] = locks[q]
  BY <1>1 DEF Leave
<1>2. CASE \/ CreateInsert(r) \/ UpdateKeepItems(r) \/ UpdateReplaceItems(r)
           \/ AssignWrite(r) \/ ConfirmWrite(r) \/ CancelWrite(r)
           \/ DeleteWrite(r) \/ Emit(r) \/ RollBack(r) \/ LoseEvent(r)
  <2>1. Leave(r, "idle") \/ Leave(r, "emit")
    BY <1>2 DEF CreateInsert, UpdateKeepItems, UpdateReplaceItems, AssignWrite,
                ConfirmWrite, CancelWrite, DeleteWrite, Emit, LoseEvent,
                RollBack, Fail
  <2>2. QED
    BY <1>1, <2>1
<1>3. CASE CreateCheck(r)
  BY <1>3 DEF CreateCheck, Begin, lockv
<1>4. CASE UpdateRead(r) \/ CancelRead(r)
  BY <1>4 DEF UpdateRead, CancelRead, Begin, lockv
<1>5. CASE UpdateCheck(r)
  BY <1>5 DEF UpdateCheck, Goto, lockv
<1>6. CASE AssignRead(r)
  BY <1>6 DEF AssignRead, Begin
<1>7. CASE AssignCheck(r) \/ ConfirmCheck(r)
  BY <1>1, <1>7 DEF AssignCheck, ConfirmCheck, Fail, Goto, local, lockv
<1>8. CASE ConfirmBegin(r)
  BY <1>8 DEF ConfirmBegin, Begin
<1>9. CASE ConfirmRead(r)
  BY <1>1, <1>9 DEF ConfirmRead, Fail, Goto
<1>10. CASE DeleteRead(r)
  BY <1>10 DEF DeleteRead, Begin, lockv
<1>11. CASE Lock(r)
  BY <1>11 DEF Lock, local
<1>12. QED
  BY <1>2, <1>3, <1>4, <1>5, <1>6, <1>7, <1>8, <1>9, <1>10, <1>11
  DEF Step, Create, Update, Assign, Confirm, Cancel, Delete

\* The four kinds of write, and the steps that write nothing.
Inserts(r) ==
  /\ pc[r] = "create.insert"
  /\ \E o \in Order : /\ orders[o].status = "NONE"
                      /\ orders' = [orders EXCEPT
                                      ![o] = [row[r] EXCEPT !.status = "DRAFT"]]
Reassigns(r) ==
  /\ pc[r] = "assign.write"
  /\ orders' = [orders EXCEPT
                  ![target[r]].items = {Assigned(l, asg[r]) : l \in @}]
Confirms(r) ==
  /\ pc[r] = "confirm.write"
  /\ orders' = [orders EXCEPT ![target[r]].status = "CONFIRMED"]
Releases(r) ==
  \/ /\ pc[r] = "cancel.write"
     /\ orders' = [orders EXCEPT ![target[r]].status = "CANCELLED"]
  \/ /\ pc[r] = "delete.write"
     /\ orders' = [o \in Order |-> IF o \in doomed[r]
                                   THEN [orders[o] EXCEPT !.deleted = TRUE]
                                   ELSE orders[o]]

LEMMA KindsOfStep ==
  ASSUME NoUpdate, NEW r \in Request, Step(r)
  PROVE  \/ UNCHANGED orders
         \/ Inserts(r) \/ Reassigns(r) \/ Confirms(r) \/ Releases(r)
<1>1. ~UpdateKeepItems(r) /\ ~UpdateReplaceItems(r)
  BY DEF NoUpdate, UpdateKeepItems, UpdateReplaceItems
<1>2. CASE \/ CreateCheck(r) \/ UpdateRead(r) \/ UpdateCheck(r) \/ AssignRead(r)
           \/ AssignCheck(r) \/ ConfirmBegin(r) \/ ConfirmRead(r)
           \/ ConfirmCheck(r) \/ CancelRead(r) \/ DeleteRead(r) \/ Lock(r)
           \/ Emit(r) \/ RollBack(r) \/ LoseEvent(r)
  BY <1>2 DEF CreateCheck, UpdateRead, UpdateCheck, AssignRead, AssignCheck,
       ConfirmBegin, ConfirmRead, ConfirmCheck, CancelRead, DeleteRead, Lock,
       Emit, LoseEvent, RollBack, Fail, db
<1>3. CASE CreateInsert(r)
  BY <1>3 DEF CreateInsert, Inserts
<1>4. CASE AssignWrite(r)
  BY <1>4 DEF AssignWrite, Fail, db, Reassigns
<1>5. CASE ConfirmWrite(r)
  BY <1>5 DEF ConfirmWrite, Confirms
<1>6. CASE CancelWrite(r) \/ DeleteWrite(r)
  BY <1>6 DEF CancelWrite, DeleteWrite, Releases
<1>7. QED
  BY <1>1, <1>2, <1>3, <1>4, <1>5, <1>6
  DEF Step, Create, Update, Assign, Confirm, Cancel, Delete

-----------------------------------------------------------------------------
(* What no step does to an order that exists.                              *)

\* Its window never changes, nor which items it has and of which product.
SameOrder(o) ==
  /\ orders'[o].status # "NONE"
  /\ orders'[o].start = orders[o].start /\ orders'[o].end = orders[o].end
  /\ orders'[o].turnaround = orders[o].turnaround
  /\ orders'[o].blockedEnd = orders[o].blockedEnd
  /\ \A l \in orders'[o].items :
       \E m \in orders[o].items : m.id = l.id /\ m.product = l.product

LEMMA OrdersKeepTheirWindow ==
  ASSUME BookingInv, NEW r \in Request, Step(r),
         NEW o \in Order, orders[o].status # "NONE"
  PROVE  SameOrder(o)
<1> USE DEF SameOrder, BookingInv, LockInv, TypeOK
<1>1. orders[o] \in Row
  OBVIOUS
<1>2. CASE UNCHANGED orders
  BY <1>2
<1>3. CASE Inserts(r)
  BY <1>3 DEF Inserts
<1>4. CASE Reassigns(r)
  <2>1. CASE target[r] # o
    BY <1>4, <2>1 DEF Reassigns
  <2>2. CASE target[r] = o
    <3>1. orders'[o] = [orders[o] EXCEPT !.items = {Assigned(l, asg[r]) : l \in @}]
      BY <1>4, <2>2 DEF Reassigns
    <3>2. \A m \in orders[o].items : /\ Assigned(m, asg[r]).id = m.id
                                     /\ Assigned(m, asg[r]).product = m.product
      BY <1>1 DEF Assigned, Row, Line
    <3>3. orders'[o].items = {Assigned(m, asg[r]) : m \in orders[o].items}
      BY <1>1, <3>1 DEF Row
    <3>4. \A l \in orders'[o].items :
            \E m \in orders[o].items : m.id = l.id /\ m.product = l.product
      BY <3>2, <3>3
    <3>5. /\ orders'[o].status = orders[o].status
          /\ orders'[o].start = orders[o].start /\ orders'[o].end = orders[o].end
          /\ orders'[o].turnaround = orders[o].turnaround
          /\ orders'[o].blockedEnd = orders[o].blockedEnd
      BY <1>1, <3>1 DEF Row
    <3>6. QED
      BY <3>4, <3>5
  <2>3. QED
    BY <2>1, <2>2
<1>5. CASE Confirms(r)
  BY <1>1, <1>5 DEF Confirms, Row
<1>6. CASE Releases(r)
  <2>1. \/ orders'[o] = orders[o]
        \/ orders'[o] = [orders[o] EXCEPT !.status = "CANCELLED"]
        \/ orders'[o] = [orders[o] EXCEPT !.deleted = TRUE]
    BY <1>6 DEF Releases
  <2>2. QED
    BY <1>1, <2>1 DEF Row
<1>7. QED
  BY <1>2, <1>3, <1>4, <1>5, <1>6, KindsOfStep

\* A request about to write lines holds the keys of their order and products.
LEMMA WriterHoldsKeys ==
  ASSUME BookingInv, NEW r \in Request, pc[r] \in {"assign.write", "confirm.write"}
  PROVE  /\ target[r] \in Order /\ orders[target[r]].status # "NONE"
         /\ OrderKey(target[r]) \in locks[r]
         /\ \A l \in orders[target[r]].items : ProductKey(l.product) \in locks[r]
<1> USE DEF BookingInv, ProtocolInv, LockInv
<1>1. want[r] = {} /\ target[r] \in Order
  BY DEF LockScope, TypeOK, NeedsOrder, Label, InTransaction
<1>2. HasKeys(r) /\ SeesOrder(r)
  BY DEF KeysCovered, OrderIsAsRead
<1>3. QED
  BY <1>1, <1>2 DEF HasKeys, SeesOrder

\* Product locks work: while q holds the lock of product p, no step of another
\* request adds a line of p to what blocks a schedule.
LEMMA ProductLockGuards ==
  ASSUME BookingInv, NEW r \in Request, Step(r),
         NEW q \in Request \ {r}, NEW o \in Order, Blocks(o)',
         NEW l \in orders'[o].items, ProductKey(l.product) \in locks[q]
  PROVE  Blocks(o) /\ l \in orders[o].items
<1> USE DEF BookingInv, LockInv
<1>1. orders[o] \in Row /\ row[r] \in Row
  BY DEF TypeOK
<1>2. \A k \in locks[r] : k \notin locks[q]
  BY DEF LockDiscipline
<1>3. CASE UNCHANGED orders
  BY <1>3 DEF Blocks
<1>4. CASE Inserts(r)
  <2>1. PICK n \in Order : /\ orders[n].status = "NONE"
                           /\ orders' = [orders EXCEPT
                                ![n] = [row[r] EXCEPT !.status = "DRAFT"]]
    BY <1>4 DEF Inserts
  <2>2. n # o
    BY <1>1, <2>1 DEF Blocks, BLOCKING_ORDER_STATUSES, Row, TypeOK
  <2>3. QED
    BY <2>1, <2>2 DEF Blocks
<1>5. CASE Reassigns(r)
  <2>1. CASE target[r] = o
    <3>1. orders'[o] = [orders[o] EXCEPT !.items = {Assigned(m, asg[r]) : m \in @}]
      BY <1>5, <2>1 DEF Reassigns, TypeOK
    <3>2. orders'[o].items = {Assigned(m, asg[r]) : m \in orders[o].items}
      BY <1>1, <3>1 DEF Row
    <3>3. PICK m \in orders[o].items : l = Assigned(m, asg[r])
      BY <3>2
    <3>4. l.product = m.product
      BY <1>1, <3>3 DEF Assigned, Row, Line
    <3>5. ProductKey(l.product) \in locks[r]
      BY <1>5, <2>1, <3>4, WriterHoldsKeys DEF Reassigns
    <3>6. QED
      BY <1>2, <3>5
  <2>2. CASE target[r] # o
    BY <1>5, <2>2 DEF Reassigns, Blocks, TypeOK
  <2>3. QED
    BY <2>1, <2>2
<1>6. CASE Confirms(r)
  <2>1. CASE target[r] = o
    <3>1. orders'[o].items = orders[o].items
      BY <1>1, <1>6, <2>1 DEF Confirms, TypeOK, Row
    <3>2. ProductKey(l.product) \in locks[r]
      BY <1>6, <2>1, <3>1, WriterHoldsKeys DEF Confirms
    <3>3. QED
      BY <1>2, <3>2
  <2>2. CASE target[r] # o
    BY <1>6, <2>2 DEF Confirms, Blocks, TypeOK
  <2>3. QED
    BY <2>1, <2>2
<1>7. CASE Releases(r)
  <2>1. \/ orders'[o] = orders[o]
        \/ orders'[o] = [orders[o] EXCEPT !.status = "CANCELLED"]
        \/ orders'[o] = [orders[o] EXCEPT !.deleted = TRUE]
    BY <1>7 DEF Releases, TypeOK
  <2>2. orders'[o] = orders[o]
    BY <1>1, <2>1 DEF Row, Blocks, BLOCKING_ORDER_STATUSES
  <2>3. QED
    BY <2>2 DEF Blocks
<1>8. QED
  BY <1>3, <1>4, <1>5, <1>6, <1>7, KindsOfStep

\* The order lock works: while q holds the lock of an order that exists, no step
\* of another request changes its lines, or its status but to cancel it.
LEMMA OrderLockGuards ==
  ASSUME BookingInv, NEW r \in Request, Step(r),
         NEW q \in Request \ {r}, NEW o \in Order,
         OrderKey(o) \in locks[q], orders[o].status # "NONE"
  PROVE  /\ orders'[o].items = orders[o].items
         /\ orders'[o].status \in {orders[o].status, "CANCELLED"}
<1> USE DEF BookingInv, LockInv
<1>1. orders[o] \in Row
  BY DEF TypeOK
<1>2. pc[r] \in {"assign.write", "confirm.write"} => target[r] # o
  BY WriterHoldsKeys DEF LockDiscipline
<1>3. CASE UNCHANGED orders
  BY <1>3
<1>4. CASE Inserts(r)
  BY <1>4 DEF Inserts, TypeOK
<1>5. CASE Reassigns(r)
  BY <1>2, <1>5 DEF Reassigns, TypeOK
<1>6. CASE Confirms(r)
  BY <1>2, <1>6 DEF Confirms, TypeOK
<1>7. CASE Releases(r)
  <2>1. \/ orders'[o] = orders[o]
        \/ orders'[o] = [orders[o] EXCEPT !.status = "CANCELLED"]
        \/ orders'[o] = [orders[o] EXCEPT !.deleted = TRUE]
    BY <1>7 DEF Releases, TypeOK
  <2>2. QED
    BY <1>1, <2>1 DEF Row
<1>8. QED
  BY <1>3, <1>4, <1>5, <1>6, <1>7, KindsOfStep

-----------------------------------------------------------------------------
(* The parts of the invariant that are about one request: first a request  *)
(* other than the one that steps, then the one that steps.                 *)

LEMMA OthersKeepKeys ==
  ASSUME BookingInv, NEW r \in Request, Step(r), NEW q \in Request \ {r}
  PROVE  HasKeys(q)'
<1> USE DEF BookingInv, LockInv, ProtocolInv
<1>1. /\ pc'[q] = pc[q] /\ target'[q] = target[q] /\ row'[q] = row[q]
      /\ asg'[q] = asg[q] /\ want'[q] = want[q] /\ locks'[q] = locks[q]
  BY OthersUntouched
<1>2. HasKeys(q) /\ SeesOrder(q)
  BY DEF KeysCovered, OrderIsAsRead
<1>3. CASE pc[q] \in {"assign.lock", "assign.write"}
  <2>1. target[q] \in Order
    BY <1>3 DEF TypeOK, NeedsOrder, Label, InTransaction
  <2>2. SameOrder(target[q])
    BY <1>2, <1>3, <2>1, OrdersKeepTheirWindow DEF SeesOrder
  <2>3. \A l \in orders'[target[q]].items :
          /\ ProductKey(l.product) \in locks[q] \cup want[q]
          /\ asg[q][l.id] # None => ProductOf[asg[q][l.id]] = l.product
    BY <1>2, <1>3, <2>2 DEF SameOrder, HasKeys
  <2>4. QED
    BY <1>1, <1>2, <1>3, <2>3 DEF HasKeys, NamedAssets
<1>4. CASE pc[q] \notin {"assign.lock", "assign.write"}
  BY <1>1, <1>2, <1>4 DEF HasKeys
<1>5. QED
  BY <1>3, <1>4

LEMMA OthersSeeTheirOrder ==
  ASSUME BookingInv, NEW r \in Request, Step(r), NEW q \in Request \ {r}
  PROVE  SeesOrder(q)'
<1> USE DEF BookingInv, LockInv, ProtocolInv
<1>1. /\ pc'[q] = pc[q] /\ target'[q] = target[q] /\ row'[q] = row[q]
      /\ doomed'[q] = doomed[q]
  BY OthersUntouched
<1>2. HasKeys(q) /\ SeesOrder(q)
  BY DEF KeysCovered, OrderIsAsRead
<1>3. \A o \in doomed[q] : orders'[o].status # "NONE"
  BY <1>2, OrdersKeepTheirWindow DEF SeesOrder, SameOrder, TypeOK
<1>4. pc[q] \in {"assign.lock", "assign.write", "cancel.write"} =>
        orders'[target[q]].status # "NONE"
  <2>1. pc[q] \in {"assign.lock", "assign.write", "cancel.write"} =>
          target[q] \in Order
    BY DEF TypeOK, NeedsOrder, Label, InTransaction
  <2>2. QED
    BY <1>2, <2>1, OrdersKeepTheirWindow DEF SeesOrder, SameOrder
<1>5. CASE pc[q] \in {"confirm.lockProducts", "confirm.write"}
  <2>1. target[q] \in Order
    BY <1>5 DEF TypeOK, NeedsOrder, Label, InTransaction
  <2>2. orders[target[q]].status \in {"DRAFT", "CANCELLED"}
    BY <1>2, <1>5 DEF SeesOrder
  <2>3. SameOrder(target[q])
    BY <2>1, <2>2, OrdersKeepTheirWindow
  <2>4. /\ orders'[target[q]].items = orders[target[q]].items
        /\ orders'[target[q]].status \in {"DRAFT", "CANCELLED"}
    BY <1>2, <1>5, <2>1, <2>2, OrderLockGuards DEF HasKeys
  <2>5. QED
    BY <1>1, <1>2, <1>3, <1>5, <2>3, <2>4 DEF SeesOrder, SameOrder
<1>6. CASE pc[q] \notin {"confirm.lockProducts", "confirm.write"}
  BY <1>1, <1>3, <1>4, <1>6 DEF SeesOrder
<1>7. QED
  BY <1>5, <1>6

LEMMA OrdersStayWellFormed ==
  ASSUME BookingInv, NEW r \in Request, Step(r), NEW o \in Order
  PROVE  WellFormed(orders'[o])
<1> USE DEF BookingInv, LockInv, ProtocolInv
<1>1. orders[o] \in Row /\ row[r] \in Row
  BY DEF TypeOK
<1>2. WellFormed(orders[o])
  BY DEF RowsWellFormed
<1>3. CASE UNCHANGED orders
  BY <1>2, <1>3
<1>4. CASE Inserts(r)
  <2>1. \/ orders'[o] = orders[o]
        \/ orders'[o] = [row[r] EXCEPT !.status = "DRAFT"]
    BY <1>4 DEF Inserts, TypeOK
  <2>2. WellFormed(row[r])
    BY <1>4 DEF Inserts, RowsWellFormed
  <2>3. WellFormed([row[r] EXCEPT !.status = "DRAFT"])
    BY <1>1, <2>2 DEF WellFormed, Row
  <2>4. QED
    BY <1>2, <2>1, <2>3
<1>5. CASE Reassigns(r)
  <2>1. CASE target[r] = o
    <3>1. orders'[o] = [orders[o] EXCEPT !.items = {Assigned(l, asg[r]) : l \in @}]
      BY <1>5, <2>1 DEF Reassigns, TypeOK
    <3>2. orders'[o].items = {Assigned(l, asg[r]) : l \in orders[o].items}
      BY <1>1, <3>1 DEF Row
    <3>3. \A l \in orders[o].items :
            /\ l \in Line
            /\ asg[r][l.id] # None => ProductOf[asg[r][l.id]] = l.product
      BY <1>1, <1>5, <2>1 DEF Row, Reassigns, KeysCovered, HasKeys
    <3>4. \A l \in orders[o].items :
            /\ Assigned(l, asg[r]).id = l.id
            /\ Assigned(l, asg[r]).asset # None =>
                 ProductOf[Assigned(l, asg[r]).asset] = Assigned(l, asg[r]).product
      BY <1>2, <3>3 DEF Assigned, Line, WellFormed, SerialsFit
    <3>5. \A l, m \in orders'[o].items : l.id = m.id => l = m
      BY <1>2, <3>2, <3>4 DEF WellFormed
    <3>6. SerialsFit(orders'[o].items)
      BY <3>2, <3>4 DEF SerialsFit
    <3>7. orders'[o].blockedEnd = orders'[o].end + orders'[o].turnaround
      BY <1>1, <1>2, <3>1 DEF WellFormed, Row
    <3>8. QED
      BY <3>5, <3>6, <3>7 DEF WellFormed
  <2>2. CASE target[r] # o
    BY <1>2, <1>5, <2>2 DEF Reassigns, TypeOK
  <2>3. QED
    BY <2>1, <2>2
<1>6. CASE Confirms(r) \/ Releases(r)
  <2>1. \/ orders'[o] = orders[o]
        \/ orders'[o] = [orders[o] EXCEPT !.status = "CONFIRMED"]
        \/ orders'[o] = [orders[o] EXCEPT !.status = "CANCELLED"]
        \/ orders'[o] = [orders[o] EXCEPT !.deleted = TRUE]
    BY <1>6 DEF Confirms, Releases, TypeOK
  <2>2. QED
    BY <1>1, <1>2, <2>1 DEF WellFormed, Row
<1>7. QED
  BY <1>3, <1>4, <1>5, <1>6, KindsOfStep

-----------------------------------------------------------------------------
(* What a request has checked stays so while it holds its locks.           *)

LEMMA LineFinite == IsFiniteSet(Line)
<1> DEFINE A == Asset \cup {None}
           T == (Item \X Product) \X A
           f == [t \in T |-> [id |-> t[1][1], product |-> t[1][2], asset |-> t[2]]]
<1>1. IsFiniteSet({None})
  BY FS_Singleton
<1>2. IsFiniteSet(A)
  BY <1>1, SetsAssumption, FS_Union
<1>3. IsFiniteSet(Item \X Product)
  BY SetsAssumption, FS_Product
<1>4. IsFiniteSet(T)
  <2> HIDE DEF A
  <2> QED BY <1>2, <1>3, FS_Product
<1>5. f \in Surjection(T, Line)
  <2>1. f \in [T -> Line]
    BY DEF Line
  <2>2. ASSUME NEW l \in Line PROVE \E t \in T : f[t] = l
    <3>1. l.id \in Item /\ l.product \in Product /\ l.asset \in A
            /\ l = [id |-> l.id, product |-> l.product, asset |-> l.asset]
      BY DEF Line
    <3>2. <<<<l.id, l.product>>, l.asset>> \in T
      BY <3>1
    <3>3. QED
      BY <3>1, <3>2
  <2>3. QED
    BY <2>1, <2>2 DEF Surjection
<1>6. QED
  <2> HIDE DEF T, f
  <2> QED BY <1>4, <1>5, FS_Surjection

LEMMA BookedLinesFinite ==
  ASSUME TypeOK, NEW p, NEW o, NEW start, NEW blockedEnd
  PROVE  IsFiniteSet(BookedLines(p, o, start, blockedEnd))
<1>1. IsFiniteSet(Order \X Line)
  BY LineFinite, SetsAssumption, FS_Product
<1>2. \A q \in Order : orders[q].items \subseteq Line
  BY DEF TypeOK, Row
<1>3. BookedLines(p, o, start, blockedEnd) \subseteq Order \X Line
  BY <1>2 DEF BookedLines, BlockingOrders, LinesFor
<1>4. QED
  BY <1>1, <1>3, FS_Subset

\* While q holds the lock of product p, others book no unit and no line of p.
LEMMA NothingNewBooked ==
  ASSUME BookingInv, NEW r \in Request, Step(r), NEW q \in Request \ {r},
         NEW o, NEW start, NEW blockedEnd
  PROVE  /\ \A a \in BookedAssets(o, start, blockedEnd)' :
              ProductKey(ProductOf[a]) \in locks[q] =>
                a \in BookedAssets(o, start, blockedEnd)
         /\ \A p : ProductKey(p) \in locks[q] =>
              BookedLines(p, o, start, blockedEnd)' \subseteq
                BookedLines(p, o, start, blockedEnd)
<1>1. ASSUME NEW b \in Order \ {o}, Blocks(b)',
             orders'[b].start < blockedEnd, orders'[b].blockedEnd > start,
             NEW l \in orders'[b].items, ProductKey(l.product) \in locks[q]
      PROVE  b \in BlockingOrders(o, start, blockedEnd) /\ l \in orders[b].items
  <2>1. Blocks(b) /\ l \in orders[b].items
    BY <1>1, ProductLockGuards
  <2>2. orders[b].status # "NONE"
    BY <2>1 DEF Blocks, BLOCKING_ORDER_STATUSES
  <2>3. SameOrder(b)
    BY <2>2, OrdersKeepTheirWindow
  <2>4. QED
    BY <1>1, <2>1, <2>3 DEF BlockingOrders, SameOrder
<1>2. ASSUME NEW a \in BookedAssets(o, start, blockedEnd)',
             ProductKey(ProductOf[a]) \in locks[q]
      PROVE  a \in BookedAssets(o, start, blockedEnd)
  <2>1. PICK b \in Order \ {o} :
          /\ Blocks(b)'
          /\ orders'[b].start < blockedEnd /\ orders'[b].blockedEnd > start
          /\ a \in AssetsOf(orders'[b].items)
    BY <1>2 DEF BookedAssets, BlockingOrders
  <2>2. PICK l \in orders'[b].items : l.asset = a /\ a # None
    BY <2>1 DEF AssetsOf
  <2>3. l.product = ProductOf[a]
    BY <2>2, OrdersStayWellFormed DEF WellFormed, SerialsFit
  <2>4. b \in BlockingOrders(o, start, blockedEnd) /\ l \in orders[b].items
    BY <1>1, <1>2, <2>1, <2>3
  <2>5. QED
    BY <2>2, <2>4 DEF BookedAssets, AssetsOf
<1>3. ASSUME NEW p, ProductKey(p) \in locks[q],
             NEW e \in BookedLines(p, o, start, blockedEnd)'
      PROVE  e \in BookedLines(p, o, start, blockedEnd)
  <2>1. PICK b \in Order \ {o} :
          /\ Blocks(b)'
          /\ orders'[b].start < blockedEnd /\ orders'[b].blockedEnd > start
          /\ e \in {b} \X LinesFor(orders'[b].items, p)
    BY <1>3 DEF BookedLines, BlockingOrders
  <2>2. PICK l \in orders'[b].items : e = <<b, l>> /\ l.product = p
    BY <2>1 DEF LinesFor
  <2>3. b \in BlockingOrders(o, start, blockedEnd) /\ l \in orders[b].items
    BY <1>1, <1>3, <2>1, <2>2
  <2>4. QED
    BY <2>2, <2>3 DEF BookedLines, LinesFor
<1>4. QED
  BY <1>2, <1>3

LEMMA OthersKeepTheirCheck ==
  ASSUME BookingInv, NEW r \in Request, Step(r), NEW q \in Request \ {r}
  PROVE  CheckHolds(q)'
<1> USE DEF BookingInv, LockInv, ProtocolInv
<1>1. /\ pc'[q] = pc[q] /\ target'[q] = target[q] /\ row'[q] = row[q]
      /\ asg'[q] = asg[q]
  BY OthersUntouched
<1>2. HasKeys(q) /\ SeesOrder(q) /\ CheckHolds(q)
  BY DEF KeysCovered, OrderIsAsRead, CheckStillHolds
<1>3. pc[q] \in {"assign.write", "confirm.write"} => want[q] = {}
  BY DEF LockScope
<1>4. CASE pc[q] = "confirm.write"
  <2>1. PICK o, w, be : o = target[q] /\ w = row[q] /\ be = w.end + w.turnaround
    OBVIOUS
  <2>2. Available(o, w) /\ \A l \in w.items : ProductKey(l.product) \in locks[q]
    BY <1>2, <1>3, <1>4, <2>1 DEF CheckHolds, HasKeys
  <2>3. SerialsFree(o, w)'
    <3> SUFFICES ASSUME NEW a \in AssetsOf(w.items),
                        a \in BookedAssets(o, w.start, be)'
                 PROVE  FALSE
      BY <2>1 DEF SerialsFree
    <3>1. PICK l \in w.items : l.asset = a /\ a # None
      BY DEF AssetsOf
    <3>2. ProductOf[a] = l.product
      BY <2>2, <3>1 DEF Available, SerialsFit
    <3>3. a \in BookedAssets(o, w.start, be)
      BY <2>2, <3>2, NothingNewBooked
    <3>4. QED
      BY <2>1, <2>2, <3>3 DEF Available, SerialsFree
  <2>4. ASSUME NEW p \in ProductsOf(w.items)
        PROVE  Cardinality(BookedLines(p, o, w.start, be)')
                 + Cardinality(LinesFor(w.items, p))
                 <= Cardinality(AssignableAssets(p))
    <3>1. BookedLines(p, o, w.start, be)' \subseteq BookedLines(p, o, w.start, be)
      BY <2>2, NothingNewBooked DEF ProductsOf
    <3>2. IsFiniteSet(BookedLines(p, o, w.start, be))
      BY BookedLinesFinite
    <3>3. /\ Cardinality(BookedLines(p, o, w.start, be)')
               <= Cardinality(BookedLines(p, o, w.start, be))
          /\ IsFiniteSet(BookedLines(p, o, w.start, be)')
      BY <3>1, <3>2, FS_Subset
    <3>4. /\ Cardinality(BookedLines(p, o, w.start, be)') \in Nat
          /\ Cardinality(BookedLines(p, o, w.start, be)) \in Nat
      BY <3>2, <3>3, FS_CardinalityType
    <3>5. Cardinality(LinesFor(w.items, p)) \in Nat
      <4>1. w.items \subseteq Line
        BY <2>1 DEF TypeOK, Row
      <4>2. IsFiniteSet(LinesFor(w.items, p))
        BY <4>1, LineFinite, FS_Subset DEF LinesFor
      <4>3. QED
        BY <4>2, FS_CardinalityType
    <3>6. Cardinality(AssignableAssets(p)) \in Nat
      <4>1. AssignableAssets(p) \subseteq Asset
        BY DEF AssignableAssets
      <4>2. QED
        BY <4>1, SetsAssumption, FS_Subset, FS_CardinalityType
    <3>7. Cardinality(BookedLines(p, o, w.start, be))
            + Cardinality(LinesFor(w.items, p))
            <= Cardinality(AssignableAssets(p))
      BY <2>1, <2>2 DEF Available, StockLeft
    <3>8. QED
      BY <3>3, <3>4, <3>5, <3>6, <3>7
  <2>5. StockLeft(o, w)'
    BY <2>1, <2>2, <2>4 DEF StockLeft, Available
  <2>6. Available(o, w)'
    BY <2>2, <2>3, <2>5 DEF Available
  <2>7. QED
    BY <1>1, <1>4, <2>1, <2>6
    DEF CheckHolds, Available, SerialsFree, StockLeft, BookedAssets, BookedLines,
        BlockingOrders
<1>5. CASE pc[q] = "assign.write"
  <2>1. PICK o, s, e : /\ o = target[q]
                       /\ s = orders[o].start /\ e = orders[o].blockedEnd
    OBVIOUS
  <2>2. /\ o \in Order /\ orders[o].status # "NONE"
        /\ \A a \in NamedAssets(asg[q]) : ProductKey(ProductOf[a]) \in locks[q]
        /\ NamedAssets(asg[q]) \cap BookedAssets(o, s, e) = {}
    BY <1>2, <1>3, <1>5, <2>1, WriterHoldsKeys DEF HasKeys, CheckHolds
  <2>3. orders'[o].start = s /\ orders'[o].blockedEnd = e
    BY <2>1, <2>2, OrdersKeepTheirWindow DEF SameOrder
  <2>4. NamedAssets(asg[q]) \cap BookedAssets(o, s, e)' = {}
    BY <2>2, NothingNewBooked
  <2>5. QED
    BY <1>1, <1>5, <2>1, <2>3, <2>4
    DEF CheckHolds, NamedAssets, BookedAssets, BlockingOrders
<1>6. CASE pc[q] \notin {"confirm.write", "assign.write"}
  BY <1>1, <1>6 DEF CheckHolds
<1>7. QED
  BY <1>4, <1>5, <1>6

-----------------------------------------------------------------------------
(* The request that steps.                                                 *)

OwnParts(r) == HasKeys(r) /\ SeesOrder(r) /\ CheckHolds(r)
                 /\ (pc[r] = "create.insert" => WellFormed(row[r]))

LEMMA AfterLeave ==
  ASSUME TypeOK, NEW r \in Request, Leave(r, "idle") \/ Leave(r, "emit")
  PROVE  OwnParts(r)'
<1>1. pc'[r] \in {"idle", "emit"} /\ doomed'[r] = {}
  BY DEF Leave, TypeOK
<1>2. QED
  BY <1>1 DEF OwnParts, HasKeys, SeesOrder, CheckHolds

LEMMA AfterCreateCheck ==
  ASSUME BookingInv, NEW r \in Request, CreateCheck(r)
  PROVE  OwnParts(r)'
<1> USE DEF BookingInv, LockInv, ProtocolInv
<1>1. PICK start \in Time, end \in Time, turnaround \in Turnarounds, cart \in Carts :
        /\ Begin(r, "create", "create.insert", None)
        /\ Available(None, Quoted(BlankRow, start, end, turnaround, cart))
        /\ row' = [row EXCEPT ![r] = Quoted(BlankRow, start, end, turnaround, cart)]
        /\ UNCHANGED <<db, clients, asg, doomed, orphaned, lockv>>
  BY DEF CreateCheck
<1> DEFINE w == Quoted(BlankRow, start, end, turnaround, cart)
<1>2. /\ w.items = cart /\ w.end = end /\ w.turnaround = turnaround
      /\ w.blockedEnd = end + turnaround
  BY DEF Quoted, BlankRow
<1>3. \A l, m \in cart : l.id = m.id => l = m
  BY SetsAssumption
<1>4. SerialsFit(w.items)
  BY <1>1 DEF Available
<1>5. WellFormed(w)
  BY <1>2, <1>3, <1>4 DEF WellFormed
<1>6. row'[r] = w /\ pc'[r] = "create.insert" /\ doomed'[r] = doomed[r]
        /\ UNCHANGED orders
  BY <1>1 DEF Begin, TypeOK, db
<1>7. \A o \in doomed'[r] : orders'[o].status # "NONE"
  BY <1>6 DEF OrderIsAsRead, SeesOrder
<1> HIDE DEF w
<1>8. QED
  BY <1>5, <1>6, <1>7 DEF OwnParts, HasKeys, SeesOrder, CheckHolds

LEMMA AfterCancelRead ==
  ASSUME BookingInv, NEW r \in Request, CancelRead(r)
  PROVE  OwnParts(r)'
<1> USE DEF BookingInv, LockInv, ProtocolInv
<1>1. PICK o \in Order :
        /\ Begin(r, "cancel", "cancel.write", o)
        /\ Visible(o)
        /\ UNCHANGED <<db, doomed>>
  BY DEF CancelRead
<1>2. /\ pc'[r] = "cancel.write" /\ target'[r] = o /\ doomed'[r] = doomed[r]
      /\ UNCHANGED orders /\ orders[o].status # "NONE"
  BY <1>1 DEF Begin, TypeOK, Visible, db
<1>3. \A d \in doomed'[r] : orders'[d].status # "NONE"
  BY <1>2 DEF OrderIsAsRead, SeesOrder
<1>4. QED
  BY <1>2, <1>3 DEF OwnParts, HasKeys, SeesOrder, CheckHolds

LEMMA AfterDeleteRead ==
  ASSUME BookingInv, NEW r \in Request, DeleteRead(r)
  PROVE  OwnParts(r)'
<1> USE DEF BookingInv, LockInv
<1>1. PICK ids \in SUBSET {o \in Order : orders[o].status # "NONE"} :
        /\ Begin(r, "delete", "delete.write", None)
        /\ doomed' = [doomed EXCEPT ![r] = ids]
        /\ UNCHANGED db
  BY DEF DeleteRead
<1>2. pc'[r] = "delete.write" /\ doomed'[r] = ids /\ UNCHANGED orders
  BY <1>1 DEF Begin, TypeOK, db
<1>3. QED
  BY <1>2 DEF OwnParts, HasKeys, SeesOrder, CheckHolds

LEMMA AfterAssignRead ==
  ASSUME BookingInv, NEW r \in Request, AssignRead(r)
  PROVE  OwnParts(r)'
<1> USE DEF BookingInv, LockInv, ProtocolInv
<1>1. PICK o \in Order, f \in Assignment :
        /\ Begin(r, "assign", "assign.lock", o)
        /\ Visible(o)
        /\ \A i \in Item : f[i] # None =>
             \E l \in orders[o].items : l.id = i /\ l.product = ProductOf[f[i]]
        /\ asg' = [asg EXCEPT ![r] = f]
        /\ want' = [want EXCEPT ![r] =
              {OrderKey(o)} \cup {AssetKey(a) : a \in NamedAssets(f)}
              \cup {ProductKey(p) : p \in ProductsOf(orders[o].items)}]
        /\ UNCHANGED <<db, doomed>>
  BY DEF AssignRead
<1>2. /\ pc'[r] = "assign.lock" /\ target'[r] = o /\ asg'[r] = f
      /\ UNCHANGED orders /\ orders[o].status # "NONE" /\ doomed'[r] = doomed[r]
      /\ want'[r] = {OrderKey(o)} \cup {AssetKey(a) : a \in NamedAssets(f)}
                     \cup {ProductKey(p) : p \in ProductsOf(orders[o].items)}
  BY <1>1 DEF Begin, TypeOK, Visible, db
<1>3. OrderKey(o) \in want'[r]
  BY <1>2
<1>4. \A l \in orders[o].items : ProductKey(l.product) \in want'[r]
  BY <1>2 DEF ProductsOf
<1>5. \A l \in orders[o].items : f[l.id] # None => ProductOf[f[l.id]] = l.product
  <2> SUFFICES ASSUME NEW l \in orders[o].items, f[l.id] # None
               PROVE  ProductOf[f[l.id]] = l.product
    OBVIOUS
  <2>1. l.id \in Item
    BY DEF TypeOK, Row, Line
  <2>2. PICK m \in orders[o].items : m.id = l.id /\ m.product = ProductOf[f[l.id]]
    BY <1>1, <2>1
  <2>3. m = l
    BY <2>2 DEF RowsWellFormed, WellFormed
  <2>4. QED
    BY <2>2, <2>3
<1>6. \A a \in NamedAssets(f) : ProductKey(ProductOf[a]) \in want'[r]
  <2> SUFFICES ASSUME NEW i \in Item, f[i] # None
               PROVE  ProductKey(ProductOf[f[i]]) \in want'[r]
    BY DEF NamedAssets
  <2>1. PICK l \in orders[o].items : l.product = ProductOf[f[i]]
    BY <1>1
  <2>2. QED
    BY <1>4, <2>1
<1>7. HasKeys(r)'
  <2>1. NamedAssets(asg'[r]) = NamedAssets(f)
    BY <1>2
  <2>2. QED
    BY <1>2, <1>3, <1>4, <1>5, <1>6, <2>1 DEF HasKeys, NamedAssets
<1>8. SeesOrder(r)'
  BY <1>2 DEF SeesOrder, OrderIsAsRead
<1>9. QED
  BY <1>2, <1>7, <1>8 DEF OwnParts, CheckHolds

LEMMA AfterAssignCheck ==
  ASSUME BookingInv, NEW r \in Request, AssignCheck(r)
  PROVE  OwnParts(r)'
<1> USE DEF BookingInv, LockInv, ProtocolInv
<1>1. CASE Fail(r)
  BY <1>1, AfterLeave DEF Fail
<1>2. CASE ~Fail(r)
  <2>1. /\ pc[r] = "assign.lock" /\ pc'[r] = "assign.write"
        /\ NamedAssets(asg[r]) \cap
             BookedAssets(target[r], orders[target[r]].start,
                          orders[target[r]].blockedEnd) = {}
        /\ UNCHANGED <<orders, target, row, asg, doomed, want, locks>>
    BY <1>2 DEF AssignCheck, Goto, TypeOK, db, local, lockv
  <2>2. HasKeys(r)' /\ SeesOrder(r)'
    BY <2>1 DEF KeysCovered, HasKeys, OrderIsAsRead, SeesOrder, NamedAssets
  <2>3. CheckHolds(r)'
    BY <2>1 DEF CheckHolds, NamedAssets, BookedAssets, BlockingOrders, Blocks
  <2>4. QED
    BY <2>1, <2>2, <2>3 DEF OwnParts
<1>3. QED
  BY <1>1, <1>2

LEMMA AfterConfirmRead ==
  ASSUME BookingInv, NEW r \in Request, ConfirmRead(r)
  PROVE  OwnParts(r)'
<1> USE DEF BookingInv, LockInv, ProtocolInv
<1>1. CASE Fail(r)
  BY <1>1, AfterLeave DEF Fail
<1>2. CASE ~Fail(r)
  <2> DEFINE o == target[r]
  <2>1. /\ pc[r] = "confirm.lockOrder" /\ pc'[r] = "confirm.lockProducts"
        /\ want[r] = {} /\ orders[o].status = "DRAFT" /\ row'[r] = orders[o]
        /\ want'[r] = {ProductKey(p) : p \in ProductsOf(orders[o].items)}
        /\ UNCHANGED <<orders, target, asg, doomed, locks>>
    BY <1>2 DEF ConfirmRead, Goto, TypeOK, db
  <2>2. OrderKey(o) \in locks[r]
    BY <2>1 DEF LockScope
  <2>3. HasKeys(r)'
    BY <2>1, <2>2 DEF HasKeys, ProductsOf
  <2>4. SeesOrder(r)'
    BY <2>1 DEF SeesOrder, OrderIsAsRead
  <2>5. QED
    BY <2>1, <2>3, <2>4 DEF OwnParts, CheckHolds
<1>3. QED
  BY <1>1, <1>2

LEMMA AfterConfirmCheck ==
  ASSUME BookingInv, NEW r \in Request, ConfirmCheck(r)
  PROVE  OwnParts(r)'
<1> USE DEF BookingInv, LockInv, ProtocolInv
<1>1. CASE Fail(r)
  BY <1>1, AfterLeave DEF Fail
<1>2. CASE ~Fail(r)
  <2>1. /\ pc[r] = "confirm.lockProducts" /\ pc'[r] = "confirm.write"
        /\ Available(target[r], row[r])
        /\ UNCHANGED <<orders, target, row, asg, doomed, want, locks>>
    BY <1>2 DEF ConfirmCheck, Goto, TypeOK, db, local, lockv
  <2>2. HasKeys(r)' /\ SeesOrder(r)'
    BY <2>1 DEF KeysCovered, HasKeys, OrderIsAsRead, SeesOrder
  <2>3. CheckHolds(r)'
    BY <2>1 DEF CheckHolds, Available, SerialsFree, StockLeft, BookedAssets,
                BookedLines, BlockingOrders, Blocks
  <2>4. QED
    BY <2>1, <2>2, <2>3 DEF OwnParts
<1>3. QED
  BY <1>1, <1>2

LEMMA AfterLock ==
  ASSUME BookingInv, NEW r \in Request, Lock(r)
  PROVE  OwnParts(r)'
<1> USE DEF BookingInv, LockInv, ProtocolInv
<1>1. PICK k \in want[r] :
        /\ locks' = [locks EXCEPT ![r] = @ \cup {k}]
        /\ want' = [want EXCEPT ![r] = @ \ {k}]
        /\ UNCHANGED <<orders, pc, target, row, asg, doomed>>
  BY DEF Lock, db, local
<1>2. /\ locks'[r] \cup want'[r] = locks[r] \cup want[r]
      /\ locks[r] \subseteq locks'[r]
  BY <1>1 DEF TypeOK
<1>3. HasKeys(r)' /\ SeesOrder(r)'
  BY <1>1, <1>2 DEF KeysCovered, HasKeys, OrderIsAsRead, SeesOrder, NamedAssets
<1>4. pc[r] \notin {"assign.write", "confirm.write", "create.insert"}
  BY <1>1 DEF LockScope, InTransaction
<1>5. QED
  BY <1>1, <1>3, <1>4 DEF OwnParts, CheckHolds

LEMMA ActorKeepsItsParts ==
  ASSUME BookingInv, "update" \notin Ops, NEW r \in Request, Step(r)
  PROVE  OwnParts(r)'
<1> USE DEF BookingInv, LockInv, ProtocolInv
<1>1. ~Update(r)
  BY DEF Update, UpdateRead, UpdateCheck, UpdateKeepItems, UpdateReplaceItems,
         Begin, Goto, NoUpdate
<1>2. CASE \/ CreateInsert(r) \/ AssignWrite(r) \/ ConfirmWrite(r)
           \/ CancelWrite(r) \/ DeleteWrite(r) \/ Emit(r) \/ RollBack(r) \/ LoseEvent(r)
  <2>1. Leave(r, "idle") \/ Leave(r, "emit")
    BY <1>2 DEF CreateInsert, AssignWrite, ConfirmWrite, CancelWrite,
                DeleteWrite, Emit, LoseEvent, RollBack, Fail
  <2>2. QED
    BY <2>1, AfterLeave
<1>3. CASE ConfirmBegin(r)
  <2>1. pc'[r] = "confirm.lockOrder" /\ doomed'[r] = doomed[r] /\ UNCHANGED orders
    BY <1>3 DEF ConfirmBegin, Begin, TypeOK, db
  <2>2. \A d \in doomed'[r] : orders'[d].status # "NONE"
    BY <2>1 DEF OrderIsAsRead, SeesOrder
  <2>3. QED
    BY <2>1, <2>2 DEF OwnParts, HasKeys, SeesOrder, CheckHolds
<1>4. QED
  BY <1>1, <1>2, <1>3, AfterCreateCheck, AfterCancelRead, AfterDeleteRead,
     AfterAssignRead, AfterAssignCheck, AfterConfirmRead, AfterConfirmCheck,
     AfterLock
  DEF Step, Create, Assign, Confirm, Cancel, Delete

-----------------------------------------------------------------------------
(* No step makes two blocking orders share a unit.                         *)

Unchanged(o) == /\ Blocks(o) /\ orders'[o].items = orders[o].items
                /\ orders'[o].start = orders[o].start
                /\ orders'[o].blockedEnd = orders[o].blockedEnd

Writes(r) == Confirms(r) \/ Reassigns(r)

\* What blocks after a step blocked before it, or has just been written.
LEMMA OldOrWritten ==
  ASSUME BookingInv, NEW r \in Request, Step(r), NEW o \in Order, Blocks(o)'
  PROVE  Unchanged(o) \/ (Writes(r) /\ o = target[r])
<1> USE DEF BookingInv, LockInv, Unchanged, Writes
<1>1. orders[o] \in Row /\ row[r] \in Row
  BY DEF TypeOK
<1>2. CASE UNCHANGED orders
  BY <1>2 DEF Blocks
<1>3. CASE Inserts(r)
  <2>1. \/ orders'[o] = orders[o]
        \/ orders'[o] = [row[r] EXCEPT !.status = "DRAFT"]
    BY <1>3 DEF Inserts, TypeOK
  <2>2. orders'[o] = orders[o]
    BY <1>1, <2>1 DEF Blocks, BLOCKING_ORDER_STATUSES, Row
  <2>3. QED
    BY <2>2 DEF Blocks
<1>4. CASE Writes(r)
  BY <1>4 DEF Confirms, Reassigns, Blocks, TypeOK
<1>5. CASE Releases(r)
  <2>1. \/ orders'[o] = orders[o]
        \/ orders'[o] = [orders[o] EXCEPT !.status = "CANCELLED"]
        \/ orders'[o] = [orders[o] EXCEPT !.deleted = TRUE]
    BY <1>5 DEF Releases, TypeOK
  <2>2. orders'[o] = orders[o]
    BY <1>1, <2>1 DEF Row, Blocks, BLOCKING_ORDER_STATUSES
  <2>3. QED
    BY <2>2 DEF Blocks
<1>6. QED
  BY <1>2, <1>3, <1>4, <1>5, KindsOfStep DEF Writes

\* What is written shares no unit with an order that blocked the time before.
LEMMA WrittenIsFree ==
  ASSUME BookingInv, NEW r \in Request, Writes(r),
         NEW o \in Order, o = target[r], Blocks(o)',
         NEW q \in Order \ {o}, Blocks(q),
         orders'[o].start < orders[q].blockedEnd,
         orders[q].start < orders'[o].blockedEnd
  PROVE  AssetsOf(orders'[o].items) \cap AssetsOf(orders[q].items) = {}
<1> USE DEF BookingInv, LockInv, ProtocolInv
<1>1. orders[o] \in Row /\ orders[q] \in Row
  BY DEF TypeOK
<1>2. CASE Confirms(r)
  <2>1. /\ row[r].items = orders[o].items /\ row[r].start = orders[o].start
        /\ row[r].end + row[r].turnaround = orders[o].blockedEnd
    BY <1>2 DEF Confirms, OrderIsAsRead, SeesOrder, RowsWellFormed, WellFormed
  <2>2. AssetsOf(orders[o].items)
          \cap BookedAssets(o, orders[o].start, orders[o].blockedEnd) = {}
    BY <1>2, <2>1 DEF Confirms, CheckStillHolds, CheckHolds, Available, SerialsFree
  <2>3. /\ orders'[o].items = orders[o].items /\ orders'[o].start = orders[o].start
        /\ orders'[o].blockedEnd = orders[o].blockedEnd
    BY <1>1, <1>2 DEF Confirms, Row, TypeOK
  <2>4. q \in BlockingOrders(o, orders[o].start, orders[o].blockedEnd)
    BY <1>1, <2>3 DEF BlockingOrders, Row
  <2>5. QED
    BY <2>2, <2>3, <2>4 DEF BookedAssets
<1>3. CASE Reassigns(r)
  <2>1. orders'[o] = [orders[o] EXCEPT !.items = {Assigned(l, asg[r]) : l \in @}]
    BY <1>3 DEF Reassigns, TypeOK
  <2>2. /\ orders'[o].items = {Assigned(l, asg[r]) : l \in orders[o].items}
        /\ orders'[o].status = orders[o].status
        /\ orders'[o].deleted = orders[o].deleted
        /\ orders'[o].start = orders[o].start
        /\ orders'[o].blockedEnd = orders[o].blockedEnd
    BY <1>1, <2>1 DEF Row
  <2>3. Blocks(o) /\ Overlap(o, q)
    BY <2>2 DEF Blocks, Overlap
  <2>4. AssetsOf(orders[o].items) \cap AssetsOf(orders[q].items) = {}
    BY <2>3 DEF NoDoubleBooking
  <2>5. q \in BlockingOrders(o, orders[o].start, orders[o].blockedEnd)
    BY <1>1, <2>2 DEF BlockingOrders, Row
  <2>6. NamedAssets(asg[r]) \cap AssetsOf(orders[q].items) = {}
    BY <1>3, <2>5 DEF Reassigns, CheckStillHolds, CheckHolds, BookedAssets
  <2>7. AssetsOf(orders'[o].items)
          \subseteq AssetsOf(orders[o].items) \cup NamedAssets(asg[r])
    <3> SUFFICES ASSUME NEW l \in orders[o].items, Assigned(l, asg[r]).asset # None
                 PROVE  Assigned(l, asg[r]).asset
                          \in AssetsOf(orders[o].items) \cup NamedAssets(asg[r])
      BY <2>2 DEF AssetsOf
    <3>1. l \in Line
      BY <1>1 DEF Row
    <3>2. CASE asg[r][l.id] = None
      BY <3>2 DEF Assigned, AssetsOf
    <3>3. CASE asg[r][l.id] # None
      BY <3>1, <3>3 DEF Assigned, Line, NamedAssets
    <3>4. QED
      BY <3>2, <3>3
  <2>8. QED
    BY <2>4, <2>6, <2>7
<1>4. QED
  BY <1>2, <1>3 DEF Writes

LEMMA NoDoubleBookingStep ==
  ASSUME BookingInv, NEW r \in Request, Step(r)
  PROVE  NoDoubleBooking'
<1> SUFFICES ASSUME NEW o \in Order, NEW q \in Order, o # q,
                    Blocks(o)', Blocks(q)', Overlap(o, q)'
             PROVE  AssetsOf(orders'[o].items) \cap AssetsOf(orders'[q].items) = {}
  BY DEF NoDoubleBooking, AssetsOf
<1>1. /\ orders'[o].start < orders'[q].blockedEnd
      /\ orders'[q].start < orders'[o].blockedEnd
  BY DEF Overlap
<1>2. CASE Unchanged(o) /\ Unchanged(q)
  BY <1>1, <1>2 DEF Unchanged, BookingInv, NoDoubleBooking, Overlap
<1>3. CASE Writes(r) /\ o = target[r]
  <2>1. Unchanged(q)
    BY <1>3, OldOrWritten
  <2>2. QED
    BY <1>1, <1>3, <2>1, WrittenIsFree DEF Unchanged
<1>4. CASE Writes(r) /\ q = target[r]
  <2>1. Unchanged(o)
    BY <1>4, OldOrWritten
  <2>2. QED
    BY <1>1, <1>4, <2>1, WrittenIsFree DEF Unchanged
<1>5. QED
  BY <1>2, <1>3, <1>4, OldOrWritten

-----------------------------------------------------------------------------
LEMMA BookingInvInit == Init => BookingInv
<1> SUFFICES ASSUME Init PROVE BookingInv
  OBVIOUS
<1>1. LockInv
  BY BlankRowType DEF Init, TypeOK, NeedsOrder, Label, LockInv, LockDiscipline,
                      LockScope
<1>2. NoUpdate /\ KeysCovered /\ CheckStillHolds /\ OrderIsAsRead
  BY DEF Init, NoUpdate, KeysCovered, HasKeys, CheckStillHolds, CheckHolds,
         OrderIsAsRead, SeesOrder
<1>3. RowsWellFormed
  BY DEF Init, RowsWellFormed, WellFormed, BlankRow, SerialsFit
<1>4. NoDoubleBooking
  BY DEF Init, NoDoubleBooking, Blocks, BlankRow, BLOCKING_ORDER_STATUSES
<1>5. QED
  BY <1>1, <1>2, <1>3, <1>4 DEF BookingInv, ProtocolInv, LockInv

LEMMA BookingInvStep ==
  ASSUME "update" \notin Ops
  PROVE  BookingInv /\ [Next]_vars => BookingInv'
<1> SUFFICES ASSUME BookingInv, [Next]_vars PROVE BookingInv'
  OBVIOUS
<1>l. LockInv'
  BY LockInvStep DEF BookingInv
<1>1. CASE Quiet
  <2>1. UNCHANGED <<orders, pc, target, row, asg, doomed, want, locks>>
    BY <1>1 DEF Quiet
  <2>2. NoUpdate' /\ NoDoubleBooking'
    BY <2>1 DEF BookingInv, NoUpdate, NoDoubleBooking, Blocks, Overlap
  <2>3. KeysCovered' /\ RowsWellFormed' /\ OrderIsAsRead'
    BY <2>1 DEF BookingInv, ProtocolInv, KeysCovered, HasKeys, RowsWellFormed,
                OrderIsAsRead, SeesOrder, NamedAssets
  <2>4. CheckStillHolds'
    BY <2>1, SMTT(60)
    DEF BookingInv, ProtocolInv, CheckStillHolds, CheckHolds, Available,
        SerialsFree, StockLeft, BookedAssets, BookedLines, BlockingOrders, Blocks,
        NamedAssets
  <2>5. QED
    BY <1>l, <2>2, <2>3, <2>4 DEF BookingInv, ProtocolInv, LockInv
<1>2. CASE ~Quiet
  <2>1. PICK r \in Request : Step(r)
    BY <1>2, StepOrQuiet
  <2>2. OwnParts(r)'
    BY <2>1, ActorKeepsItsParts
  <2>3. \A q \in Request : HasKeys(q)' /\ SeesOrder(q)' /\ CheckHolds(q)'
    BY <2>1, <2>2, OthersKeepKeys, OthersSeeTheirOrder, OthersKeepTheirCheck
    DEF OwnParts
  <2>4. KeysCovered' /\ OrderIsAsRead' /\ CheckStillHolds'
    BY <2>3 DEF KeysCovered, OrderIsAsRead, CheckStillHolds
  <2>5. RowsWellFormed'
    <3>1. \A o \in Order : WellFormed(orders'[o])
      BY <2>1, OrdersStayWellFormed
    <3>2. \A q \in Request : pc'[q] = "create.insert" => WellFormed(row'[q])
      BY <2>1, <2>2, OthersUntouched
      DEF OwnParts, BookingInv, LockInv, ProtocolInv, RowsWellFormed
    <3>3. QED
      BY <3>1, <3>2 DEF RowsWellFormed
  <2>6. NoUpdate'
    <3>1. ~Update(r)
      BY DEF Update, UpdateRead, UpdateCheck, UpdateKeepItems,
             UpdateReplaceItems, Begin, Goto, BookingInv, NoUpdate
    <3>2. pc'[r] \notin {"update.check", "update.keepItems", "update.replaceItems"}
      BY <2>1, <3>1
      DEF Step, Create, CreateCheck, CreateInsert, Assign, AssignRead, AssignCheck,
          AssignWrite, Confirm, ConfirmBegin, ConfirmRead, ConfirmCheck,
          ConfirmWrite, Cancel, CancelRead, CancelWrite, Delete, DeleteRead,
          DeleteWrite, Lock, Emit, LoseEvent, RollBack, Fail, Leave, Begin, Goto, BookingInv,
          LockInv, TypeOK, NoUpdate, local
    <3>3. QED
      BY <2>1, <3>2, OthersUntouched DEF NoUpdate, BookingInv, LockInv
  <2>7. NoDoubleBooking'
    BY <2>1, NoDoubleBookingStep
  <2>8. QED
    BY <1>l, <2>4, <2>5, <2>6, <2>7 DEF BookingInv, ProtocolInv, LockInv
<1>3. QED
  BY <1>1, <1>2

LEMMA BookingInvHolds ==
  ASSUME "update" \notin Ops
  PROVE  Spec => []BookingInv
BY BookingInvInit, BookingInvStep, PTL DEF Spec

\* What confirm and assign check under their locks is still so when they write:
\* the locking protocol of the booking handlers, without updates.
THEOREM ProtocolHolds ==
  ASSUME "update" \notin Ops
  PROVE  Spec => []ProtocolInv
<1>1. BookingInv => ProtocolInv
  BY DEF BookingInv
<1>2. QED
  BY <1>1, BookingInvHolds, PTL

\* Without updates, no asset unit is ever promised to two blocking orders whose
\* windows overlap, however creates, assigns, confirms, cancels and deletes
\* interleave, fail and roll back.
THEOREM NeverDoubleBooked ==
  ASSUME "update" \notin Ops
  PROVE  Spec => []NoDoubleBooking
<1>1. BookingInv => NoDoubleBooking
  BY DEF BookingInv
<1>2. QED
  BY <1>1, BookingInvHolds, PTL

-----------------------------------------------------------------------------
(* Refinement of the ledger.                                               *)

\* The ledger counts as RentalOrders does.
LEMMA SameCardinality == \A S : Ledger!Cardinality(S) = Cardinality(S)
BY DEF Cardinality, Ledger!Cardinality

LEMMA BookingsAre ==
  \A o \in Order :
    /\ Blocks(o) => bookings[o] = [start |-> orders[o].start,
                                   until |-> orders[o].blockedEnd,
                                   items |-> orders[o].items]
    /\ ~Blocks(o) => bookings[o] = None
BY DEF bookings, Blocks

LEMMA BookingsWillBe ==
  \A o \in Order :
    /\ Blocks(o)' => bookings'[o] = [start |-> orders'[o].start,
                                     until |-> orders'[o].blockedEnd,
                                     items |-> orders'[o].items]
    /\ ~Blocks(o)' => bookings'[o] = None
BY DEF bookings, Blocks

\* A blocking order is a booking of the ledger, and no booking is None.
LEMMA BlockingIsBooked ==
  ASSUME TypeOK, NEW o \in Order
  PROVE  /\ Blocks(o) <=> bookings[o] # None
         /\ Blocks(o) => bookings[o] \in Ledger!Booking
<1>1. orders[o] \in Row
  BY DEF TypeOK
<1>2. [start |-> orders[o].start, until |-> orders[o].blockedEnd,
       items |-> orders[o].items] \in Ledger!Booking
  BY <1>1 DEF Row, Ledger!Booking
<1>3. None \notin Ledger!Booking
  BY SetsAssumption DEF Booking, Ledger!Booking
<1>4. QED
  BY <1>2, <1>3, BookingsAre

LEMMA HoldersBlock ==
  ASSUME TypeOK
  PROVE  Ledger!Holders = {o \in Order : Blocks(o)}
BY BlockingIsBooked DEF Ledger!Holders

\* An order whose row and blocking stay the same keeps its booking.
LEMMA SameBookings ==
  ASSUME \A o \in Order : IF Blocks(o)' THEN Unchanged(o) ELSE ~Blocks(o)
  PROVE  bookings' = bookings
BY DEF bookings, Unchanged, Blocks

LEMMA WrittenFree ==
  ASSUME BookingInv, NEW r \in Request, Writes(r),
         NEW o \in Order, o = target[r], Blocks(o)'
  PROVE  Ledger!UnitsFree(o, bookings'[o])
<1> USE DEF BookingInv, LockInv
<1> SUFFICES ASSUME NEW q \in Ledger!Holders \ {o},
                    Ledger!Clash(bookings'[o], bookings[q])
             PROVE  Ledger!UnitsOf(bookings'[o])
                      \cap Ledger!UnitsOf(bookings[q]) = {}
  BY DEF Ledger!UnitsFree
<1>1. q \in Order \ {o} /\ Blocks(q)
  BY HoldersBlock
<1>2. /\ bookings[q] = [start |-> orders[q].start, until |-> orders[q].blockedEnd,
                        items |-> orders[q].items]
      /\ bookings'[o] = [start |-> orders'[o].start,
                         until |-> orders'[o].blockedEnd,
                         items |-> orders'[o].items]
  BY <1>1, BookingsAre, BookingsWillBe
<1>3. /\ orders'[o].start < orders[q].blockedEnd
      /\ orders[q].start < orders'[o].blockedEnd
  BY <1>2 DEF Ledger!Clash
<1>4. AssetsOf(orders'[o].items) \cap AssetsOf(orders[q].items) = {}
  BY <1>1, <1>3, WrittenIsFree
<1>5. QED
  BY <1>2, <1>4 DEF Ledger!UnitsOf, AssetsOf

LEMMA ConfirmBooks ==
  ASSUME BookingInv, NEW r \in Request, Step(r), Confirms(r)
  PROVE  Ledger!LedgerNext \/ bookings' = bookings
<1> USE DEF BookingInv, LockInv, ProtocolInv
<1>1. PICK o \in Order : o = target[r]
  BY DEF Confirms, TypeOK, NeedsOrder, Label, InTransaction
<1>2. orders[o] \in Row
  BY DEF TypeOK
<1>3. /\ orders' = [orders EXCEPT ![o].status = "CONFIRMED"]
      /\ pc[r] = "confirm.write"
  BY <1>1 DEF Confirms
<1>4. ~Blocks(o)
  BY <1>1, <1>3 DEF OrderIsAsRead, SeesOrder, Blocks, BLOCKING_ORDER_STATUSES
<1>5. \A q \in Order \ {o} : orders'[q] = orders[q]
  BY <1>3 DEF TypeOK
<1>6. CASE ~Blocks(o)'
  <2>1. \A q \in Order : IF Blocks(q)' THEN Unchanged(q) ELSE ~Blocks(q)
    BY <1>4, <1>5, <1>6 DEF Unchanged, Blocks
  <2>2. QED
    BY <2>1, SameBookings
<1>7. CASE Blocks(o)'
  <2> DEFINE b == bookings'[o]
  <2>1. /\ orders'[o].start = orders[o].start
        /\ orders'[o].blockedEnd = orders[o].blockedEnd
        /\ orders'[o].items = orders[o].items
    BY <1>2, <1>3 DEF Row, TypeOK
  <2>2. b = [start |-> orders[o].start, until |-> orders[o].blockedEnd,
             items |-> orders[o].items]
    BY <1>7, <2>1, BookingsWillBe
  <2>3. b \in Ledger!Booking
    BY <1>2, <2>2 DEF Row, Ledger!Booking
  <2>4. Ledger!UnitsFree(o, b)
    BY <1>1, <1>7, WrittenFree DEF Writes
  <2>5. Ledger!StockLeft(o, b)
    <3> HIDE DEF b
    <3>0. /\ b.items = orders[o].items /\ b.start = orders[o].start
          /\ b.until = orders[o].blockedEnd
      BY <2>2
    <3> SUFFICES ASSUME NEW p \in {l.product : l \in orders[o].items},
                        NEW t \in orders[o].start .. orders[o].blockedEnd - 1
                 PROVE  Cardinality(Ledger!OutAt(o, p, t))
                          + Cardinality(Ledger!OfProduct(b, p))
                          <= Cardinality(Ledger!Units(p))
      BY <3>0, SameCardinality DEF Ledger!StockLeft
    <3>1. /\ row[r].items = orders[o].items /\ row[r].start = orders[o].start
          /\ row[r].end + row[r].turnaround = orders[o].blockedEnd
          /\ Available(o, row[r])
      BY <1>1, <1>3 DEF OrderIsAsRead, SeesOrder, RowsWellFormed, WellFormed,
                        CheckStillHolds, CheckHolds
    <3> DEFINE B == BookedLines(p, o, orders[o].start, orders[o].blockedEnd)
               C == Ledger!OutAt(o, p, t)
    <3>2. Cardinality(B) + Cardinality(LinesFor(orders[o].items, p))
            <= Cardinality(AssignableAssets(p))
      BY <3>1 DEF Available, StockLeft, ProductsOf
    <3>3. C \subseteq B
      <4> SUFFICES ASSUME NEW q \in Ledger!Holders \ {o},
                          bookings[q].start <= t, t < bookings[q].until
                   PROVE  /\ q \in BlockingOrders(o, orders[o].start,
                                                  orders[o].blockedEnd)
                          /\ Ledger!OfProduct(bookings[q], p)
                               = LinesFor(orders[q].items, p)
        BY DEF Ledger!OutAt, BookedLines
      <4>1. q \in Order \ {o} /\ Blocks(q)
        BY HoldersBlock
      <4>2. bookings[q] = [start |-> orders[q].start,
                           until |-> orders[q].blockedEnd,
                           items |-> orders[q].items]
        BY <4>1, BookingsAre
      <4>3. /\ orders[q].start \in Nat /\ orders[q].blockedEnd \in Nat
            /\ orders[o].start \in Nat /\ orders[o].blockedEnd \in Nat
        BY <1>2, <4>1 DEF Row, TypeOK
      <4>4. /\ orders[q].start < orders[o].blockedEnd
            /\ orders[q].blockedEnd > orders[o].start
        BY <4>2, <4>3
      <4>5. QED
        BY <4>1, <4>2, <4>4 DEF BlockingOrders, Ledger!OfProduct, LinesFor
    <3>4. IsFiniteSet(B)
      BY BookedLinesFinite
    <3> HIDE DEF B, C
    <3>5. Cardinality(C) <= Cardinality(B) /\ IsFiniteSet(C)
      BY <3>3, <3>4, FS_Subset
    <3>6. Cardinality(C) \in Nat /\ Cardinality(B) \in Nat
      BY <3>4, <3>5, FS_CardinalityType
    <3>7. IsFiniteSet(LinesFor(orders[o].items, p))
      BY <1>2, LineFinite, FS_Subset DEF LinesFor, Row
    <3>8. IsFiniteSet(AssignableAssets(p))
      BY SetsAssumption, FS_Subset DEF AssignableAssets
    <3>9. /\ Cardinality(LinesFor(orders[o].items, p)) \in Nat
          /\ Cardinality(AssignableAssets(p)) \in Nat
      BY <3>7, <3>8, FS_CardinalityType
    <3>10. /\ Ledger!OfProduct(b, p) = LinesFor(orders[o].items, p)
           /\ Ledger!Units(p) = AssignableAssets(p)
      BY <2>2 DEF Ledger!OfProduct, LinesFor, Ledger!Units, AssignableAssets
    <3>11. QED
      BY <3>2, <3>5, <3>6, <3>9, <3>10 DEF C
  <2>6. bookings' = [bookings EXCEPT ![o] = b]
    BY <1>5 DEF bookings, Blocks
  <2>7. bookings[o] = None
    BY <1>4, BookingsAre
  <2>8. Ledger!Book(o, bookings'[o])
    BY <2>3, <2>4, <2>5, <2>6, <2>7 DEF Ledger!Book
  <2>9. QED
    BY <2>8 DEF Ledger!LedgerNext
<1>8. QED
  BY <1>6, <1>7

LEMMA AssignReassigns ==
  ASSUME BookingInv, NEW r \in Request, Step(r), TypeOK', Reassigns(r)
  PROVE  Ledger!LedgerNext \/ bookings' = bookings
<1> USE DEF BookingInv, LockInv, ProtocolInv
<1>1. PICK o \in Order : o = target[r]
  BY DEF Reassigns, TypeOK, NeedsOrder, Label, InTransaction
<1>2. orders[o] \in Row /\ orders'[o] \in Row
  BY DEF TypeOK
<1>3. orders' = [orders EXCEPT ![o].items = {Assigned(l, asg[r]) : l \in @}]
  BY <1>1 DEF Reassigns
<1>4. orders'[o] = [orders[o] EXCEPT !.items = {Assigned(l, asg[r]) : l \in @}]
  BY <1>3 DEF TypeOK
<1>5. /\ orders'[o].items = {Assigned(l, asg[r]) : l \in orders[o].items}
      /\ orders'[o].status = orders[o].status
      /\ orders'[o].deleted = orders[o].deleted
      /\ orders'[o].start = orders[o].start
      /\ orders'[o].blockedEnd = orders[o].blockedEnd
  BY <1>2, <1>4 DEF Row
<1>6. Blocks(o)' <=> Blocks(o)
  BY <1>5 DEF Blocks
<1>7. \A q \in Order \ {o} : orders'[q] = orders[q]
  BY <1>3 DEF TypeOK
<1>8. CASE ~Blocks(o)
  <2>1. \A q \in Order : IF Blocks(q)' THEN Unchanged(q) ELSE ~Blocks(q)
    BY <1>6, <1>7, <1>8 DEF Unchanged, Blocks
  <2>2. QED
    BY <2>1, SameBookings
<1>9. CASE Blocks(o)
  <2>1. /\ bookings'[o] = [start |-> orders[o].start,
                           until |-> orders[o].blockedEnd,
                           items |-> orders'[o].items]
        /\ bookings[o] = [start |-> orders[o].start,
                          until |-> orders[o].blockedEnd,
                          items |-> orders[o].items]
        /\ bookings[o] # None
    BY <1>5, <1>6, <1>9, BookingsAre, BookingsWillBe, BlockingIsBooked
  <2>2. bookings'[o] \in Ledger!Booking
    BY <1>2, <2>1 DEF Row, Ledger!Booking
  <2>3. {<<l.id, l.product>> : l \in orders'[o].items}
          = {<<l.id, l.product>> : l \in orders[o].items}
    <3>1. \A l \in orders[o].items : /\ Assigned(l, asg[r]).id = l.id
                                     /\ Assigned(l, asg[r]).product = l.product
      BY <1>2 DEF Assigned, Row, Line
    <3>2. QED
      BY <1>5, <3>1
  <2>4. Ledger!UnitsFree(o, bookings'[o])
    BY <1>1, <1>6, <1>9, WrittenFree DEF Writes
  <2>5. bookings' = [bookings EXCEPT ![o] = bookings'[o]]
    BY <1>7 DEF bookings, Blocks
  <2>6. Ledger!Reassign(o, bookings'[o])
    BY <2>1, <2>2, <2>3, <2>4, <2>5 DEF Ledger!Reassign
  <2>7. QED
    BY <2>6 DEF Ledger!LedgerNext
<1>10. QED
  BY <1>8, <1>9

LEMMA ReleaseReleases ==
  ASSUME BookingInv, NEW r \in Request, Step(r), Releases(r)
  PROVE  Ledger!LedgerNext
<1> USE DEF BookingInv, LockInv
<1> DEFINE S == {o \in Order : Blocks(o) /\ ~Blocks(o)'}
<1>1. ~Writes(r)
  BY DEF Releases, Writes, Confirms, Reassigns
<1>2. \A o \in Order : Blocks(o)' => Unchanged(o)
  BY <1>1, OldOrWritten
<1>3. S \in SUBSET Ledger!Holders
  BY HoldersBlock
<1>4. bookings' = [o \in Order |-> IF o \in S THEN None ELSE bookings[o]]
  BY <1>2 DEF bookings, Unchanged, Blocks
<1>5. Ledger!Release(S)
  BY <1>4 DEF Ledger!Release
<1>6. QED
  BY <1>3, <1>5 DEF Ledger!LedgerNext

LEMMA LedgerStep ==
  BookingInv /\ BookingInv' /\ [Next]_vars => [Ledger!LedgerNext]_bookings
<1> SUFFICES ASSUME BookingInv, BookingInv', [Next]_vars
             PROVE  Ledger!LedgerNext \/ bookings' = bookings
  OBVIOUS
<1> USE DEF BookingInv, LockInv
<1>1. CASE UNCHANGED orders
  BY <1>1 DEF bookings, Blocks
<1>2. CASE ~UNCHANGED orders
  <2>1. PICK r \in Request : Step(r)
    BY <1>2, StepOrQuiet DEF Quiet
  <2>2. CASE Inserts(r)
    <3>1. ~Writes(r)
      BY <2>2 DEF Inserts, Writes, Confirms, Reassigns
    <3>2. \A o \in Order : Blocks(o)' => Unchanged(o)
      BY <2>1, <3>1, OldOrWritten
    <3>3. \A o \in Order : Blocks(o) => Blocks(o)'
      BY <2>2 DEF Inserts, Blocks, BLOCKING_ORDER_STATUSES, TypeOK
    <3>4. QED
      BY <3>2, <3>3, SameBookings
  <2>3. QED
    BY <1>2, <2>1, <2>2, KindsOfStep, ConfirmBooks, AssignReassigns,
       ReleaseReleases
<1>3. QED
  BY <1>1, <1>2

\* Without updates, every handler's effect on the schedule is one atomic step of
\* the ledger: confirm books only what is free and in stock at that instant,
\* assign swaps units for free ones, cancel and delete release.
THEOREM OrdersImplementLedger ==
  ASSUME "update" \notin Ops
  PROVE  Spec => ImplementsLedger
<1>1. Init => Ledger!LedgerInit
  BY DEF Init, Ledger!LedgerInit, bookings, Blocks, BlankRow,
         BLOCKING_ORDER_STATUSES
<1>2. QED
  BY <1>1, LedgerStep, BookingInvHolds, PTL
  DEF Spec, ImplementsLedger, Ledger!LedgerSpec

-----------------------------------------------------------------------------
(* Events.                                                                 *)

\* What a step does to the status of an order.
LEMMA StatusSteps ==
  ASSUME TypeOK, NEW r \in Request, Step(r), NEW o \in Order
  PROVE  \/ /\ orders'[o].status = orders[o].status
            /\ orders[o].deleted => orders'[o].deleted
         \/ orders[o].status = "NONE" /\ orders'[o].status = "DRAFT"
         \/ ConfirmWrite(r) /\ target[r] = o /\ orders'[o].status = "CONFIRMED"
         \/ orders'[o].status = "CANCELLED"
<1>1. orders[o] \in Row /\ row[r] \in Row
  BY DEF TypeOK
<1>2. CASE \/ CreateCheck(r) \/ UpdateRead(r) \/ UpdateCheck(r) \/ AssignRead(r)
           \/ AssignCheck(r) \/ ConfirmBegin(r) \/ ConfirmRead(r)
           \/ ConfirmCheck(r) \/ CancelRead(r) \/ DeleteRead(r) \/ Lock(r)
           \/ Emit(r) \/ RollBack(r) \/ LoseEvent(r)
  <2>1. UNCHANGED orders
    BY <1>2 DEF CreateCheck, UpdateRead, UpdateCheck, AssignRead,
         AssignCheck, ConfirmBegin, ConfirmRead, ConfirmCheck, CancelRead, DeleteRead,
         Lock, Emit, LoseEvent, RollBack, Fail, db
  <2> QED
    BY <2>1
<1>3. CASE CreateInsert(r)
  <2>1. \/ orders'[o] = orders[o]
        \/ orders[o].status = "NONE" /\ orders'[o] = [row[r] EXCEPT !.status = "DRAFT"]
    BY <1>3 DEF CreateInsert, TypeOK
  <2> QED
    BY <1>1, <2>1 DEF Row
<1>4. CASE UpdateKeepItems(r) \/ UpdateReplaceItems(r) \/ AssignWrite(r)
  <2>1. UNCHANGED orders \/ Rewrite(target[r], row[r])
          \/ orders' = [orders EXCEPT ![target[r]].items = {Assigned(l, asg[r]) : l \in @}]
    BY <1>4 DEF UpdateKeepItems, UpdateReplaceItems, AssignWrite, Fail, db
  <2>2. CASE Rewrite(target[r], row[r])
    <3>1. \/ orders'[o] = orders[o]
          \/ orders'[o] = [orders[o] EXCEPT !.start = row[r].start, !.end = row[r].end,
                             !.items = row[r].items, !.turnaround = row[r].turnaround,
                             !.blockedEnd = row[r].blockedEnd]
      BY <2>2 DEF Rewrite, TypeOK
    <3> QED
      BY <1>1, <3>1 DEF Row
  <2>3. CASE orders' = [orders EXCEPT ![target[r]].items = {Assigned(l, asg[r]) : l \in @}]
    <3>1. \/ orders'[o] = orders[o]
          \/ orders'[o] = [orders[o] EXCEPT
                             !.items = {Assigned(l, asg[r]) : l \in orders[o].items}]
      BY <2>3 DEF TypeOK
    <3> QED
      BY <1>1, <3>1 DEF Row
  <2> QED
    BY <2>1, <2>2, <2>3
<1>5. CASE ConfirmWrite(r)
  <2>1. \/ orders'[o] = orders[o]
        \/ target[r] = o /\ orders'[o] = [orders[o] EXCEPT !.status = "CONFIRMED"]
    BY <1>5 DEF ConfirmWrite, TypeOK
  <2> QED
    BY <1>1, <1>5, <2>1 DEF Row
<1>6. CASE CancelWrite(r) \/ DeleteWrite(r)
  <2>1. \/ orders'[o] = orders[o]
        \/ orders'[o] = [orders[o] EXCEPT !.status = "CANCELLED"]
        \/ orders'[o] = [orders[o] EXCEPT !.deleted = TRUE]
    BY <1>6 DEF CancelWrite, DeleteWrite, TypeOK
  <2> QED
    BY <1>1, <2>1 DEF Row
<1> QED
  BY <1>2, <1>3, <1>4, <1>5, <1>6
  DEF Step, Create, Update, Assign, Confirm, Cancel, Delete

\* The writes that make or change a booking.
WritesBooking(r) == \/ ConfirmWrite(r)
                    \/ /\ r \notin orphaned
                       /\ AssignWrite(r) \/ UpdateKeepItems(r)
                    \/ UpdateReplaceItems(r)

LEMMA BookingWriters ==
  ASSUME TypeOK, NEW r \in Request, Step(r), NEW o \in Order, Blocks(o)'
  PROVE  Unchanged(o) \/ (target[r] = o /\ WritesBooking(r))
<1>1. orders[o] \in Row /\ row[r] \in Row
  BY DEF TypeOK
<1>2. orders'[o] = orders[o] => Unchanged(o)
  BY DEF Unchanged, Blocks
<1>3. CASE WritesBooking(r) /\ target[r] # o
  <2>1. orders'[o] = orders[o]
    BY <1>3 DEF WritesBooking, ConfirmWrite, AssignWrite, UpdateKeepItems,
         UpdateReplaceItems, Rewrite, TypeOK
  <2> QED
    BY <1>2, <2>1
<1>4. CASE CreateInsert(r)
  <2>1. \/ orders'[o] = orders[o]
        \/ orders'[o] = [row[r] EXCEPT !.status = "DRAFT"]
    BY <1>4 DEF CreateInsert, TypeOK
  <2>2. orders'[o] = orders[o]
    BY <1>1, <2>1 DEF Blocks, BLOCKING_ORDER_STATUSES, Row
  <2> QED
    BY <1>2, <2>2
<1>5. CASE CancelWrite(r) \/ DeleteWrite(r)
  <2>1. \/ orders'[o] = orders[o]
        \/ orders'[o] = [orders[o] EXCEPT !.status = "CANCELLED"]
        \/ orders'[o] = [orders[o] EXCEPT !.deleted = TRUE]
    BY <1>5 DEF CancelWrite, DeleteWrite, TypeOK
  <2>2. orders'[o] = orders[o]
    BY <1>1, <2>1 DEF Row, Blocks, BLOCKING_ORDER_STATUSES
  <2> QED
    BY <1>2, <2>2
<1>6. CASE UNCHANGED orders
  BY <1>2, <1>6
<1> QED
  BY <1>3, <1>4, <1>5, <1>6
  DEF WritesBooking, Step, Create, Update, Assign, Confirm, Cancel, Delete, CreateCheck,
      UpdateRead, UpdateCheck, UpdateKeepItems, AssignRead, AssignCheck, AssignWrite,
      ConfirmBegin, ConfirmRead, ConfirmCheck, CancelRead, DeleteRead, Lock, Emit,
      LoseEvent, RollBack, Fail, db

\* What the steps tell the clients, and forget to tell them.
LEMMA ClientSteps ==
  ASSUME NEW r \in Request, Step(r)
  PROVE  Emit(r) \/ LoseEvent(r) \/ Untell(target[r]) \/ UNCHANGED clients
BY DEF Step, Create, Update, Assign, Confirm, Cancel, Delete, CreateCheck,
       CreateInsert, UpdateRead, UpdateCheck, UpdateKeepItems, UpdateReplaceItems,
       AssignRead, AssignCheck, AssignWrite, ConfirmBegin, ConfirmRead, ConfirmCheck,
       ConfirmWrite, CancelRead, CancelWrite, DeleteRead, DeleteWrite, Lock, RollBack,
       Fail

\* An order that blocks after the step of a request, has no event coming and is
\* not one the step left untold, was left alone by it or told of.
LEMMA BookingSteps ==
  ASSUME LockInv, NEW r \in Request, Step(r), NEW o \in Order,
         Blocks(o)', o \notin untold', ~EventComing(o)', ~(Emit(r) /\ target[r] = o)
  PROVE  /\ Blocks(o) /\ bookings'[o] = bookings[o] /\ shown'[o] = shown[o]
         /\ o \notin untold
         /\ ~EventComing(o)
<1> USE DEF LockInv
<1>1. orders[o] \in Row /\ row[r] \in Row
  BY DEF TypeOK
<1>l. ~(LoseEvent(r) /\ target[r] = o)
  BY DEF LoseEvent
<1>3. Unchanged(o)
  <2>1. CASE target[r] = o /\ WritesBooking(r)
    \* A confirm has its event coming.
    <3>1. ASSUME ConfirmWrite(r) PROVE FALSE
      BY <2>1, <3>1 DEF ConfirmWrite, Leave, TypeOK, EventComing
    \* So has an assign on an order that blocks.
    <3>2. ASSUME AssignWrite(r), r \notin orphaned PROVE FALSE
      <4>1. orders'[o] = [orders[o] EXCEPT
                            !.items = {Assigned(l, asg[r]) : l \in orders[o].items}]
        BY <2>1, <3>2 DEF AssignWrite, TypeOK
      <4>2. Blocks(o)
        BY <1>1, <4>1 DEF Blocks, Row
      <4> QED
        BY <2>1, <3>2, <4>2 DEF AssignWrite, Leave, TypeOK, EventComing
    \* An update of an order that blocks leaves it untold.
    <3>3. ASSUME Rewrite(o, row[r]), Untell(o) PROVE FALSE
      <4>1. orders'[o] = [orders[o] EXCEPT
                            !.start = row[r].start, !.end = row[r].end,
                            !.items = row[r].items, !.turnaround = row[r].turnaround,
                            !.blockedEnd = row[r].blockedEnd]
        BY <3>3 DEF Rewrite, TypeOK
      <4>2. Blocks(o)
        BY <1>1, <4>1 DEF Blocks, Row
      <4> QED
        BY <3>3, <4>2 DEF Untell
    <3> QED
      BY <2>1, <3>1, <3>2, <3>3 DEF WritesBooking, UpdateKeepItems, UpdateReplaceItems
  <2> QED
    BY <2>1, BookingWriters
<1>4. Blocks(o) /\ bookings'[o] = bookings[o]
  BY <1>3 DEF Unchanged, bookings, Blocks
<1>5. shown'[o] = shown[o] /\ o \notin untold
  <2>1. CASE Emit(r) /\ target[r] # o
    BY <2>1 DEF Emit, TypeOK
  <2>2. CASE LoseEvent(r)
    BY <2>2 DEF LoseEvent
  <2>3. CASE Untell(target[r])
    BY <2>3 DEF Untell
  <2>4. CASE UNCHANGED clients
    BY <2>4 DEF clients
  <2> QED
    BY <2>1, <2>2, <2>3, <2>4, ClientSteps
<1>6. ASSUME EventComing(o) PROVE FALSE
  <2>1. PICK q \in Request : pc[q] = "emit" /\ target[q] = o
    BY <1>6 DEF EventComing
  <2>2. CASE q # r
    <3>1. pc'[q] = pc[q] /\ target'[q] = target[q]
      BY <2>2, OthersUntouched
    <3> QED
      BY <2>1, <3>1 DEF EventComing
  <2>3. CASE q = r
    <3>1. want[r] = {}
      BY <2>1, <2>3 DEF LockScope, InTransaction
    <3>2. Emit(r) \/ LoseEvent(r)
      BY <2>1, <2>3, <3>1
      DEF Step, Create, Update, Assign, Confirm, Cancel, Delete, CreateCheck,
          CreateInsert, UpdateRead, UpdateCheck, UpdateKeepItems, UpdateReplaceItems,
          AssignRead, AssignCheck, AssignWrite, ConfirmBegin, ConfirmRead, ConfirmCheck,
          ConfirmWrite, CancelRead, CancelWrite, DeleteRead, DeleteWrite, Lock,
          RollBack, Begin, Goto
    <3> QED
      BY <1>l, <2>1, <2>3, <3>2
  <2> QED
    BY <2>2, <2>3
<1> QED
  BY <1>4, <1>5, <1>6

\* The clients show every booking with the window, the lines and the units it has,
\* once its events are out, unless a request died between its commit and its event
\* or an update overtook a confirm.  Assign announces by the status it finds under
\* its locks.
THEOREM BookingsAreSeen == Spec => []ClientsSeeEveryBooking
<1>1. Init => ClientsSeeEveryBooking
  BY DEF Init, ClientsSeeEveryBooking, Blocks, BlankRow, BLOCKING_ORDER_STATUSES
<1>2. LockInv /\ ClientsSeeEveryBooking /\ [Next]_vars => ClientsSeeEveryBooking'
  <2> SUFFICES ASSUME LockInv, ClientsSeeEveryBooking, [Next]_vars,
                      NEW o \in Order, Blocks(o)', o \notin untold', ~EventComing(o)'
               PROVE  shown'[o] = bookings'[o]
    BY DEF ClientsSeeEveryBooking
  <2>1. CASE UNCHANGED vars
    BY <2>1 DEF vars, ClientsSeeEveryBooking, Blocks, EventComing, bookings
  <2>2. CASE Fetch
    BY <2>2 DEF Fetch, db, bookings, Blocks
  <2>3. ASSUME NEW r \in Request, Step(r) PROVE shown'[o] = bookings'[o]
    <3>1. CASE Emit(r) /\ target[r] = o
      <4>1. bookings'[o] = bookings[o]
        BY <3>1 DEF Emit, db, bookings, Blocks
      <4> QED
        BY <3>1, <4>1 DEF Emit, LockInv, TypeOK
    <3>2. CASE ~(Emit(r) /\ target[r] = o)
      <4>1. /\ Blocks(o) /\ bookings'[o] = bookings[o] /\ shown'[o] = shown[o]
            /\ o \notin untold /\ ~EventComing(o)
        BY <2>3, <3>2, BookingSteps
      <4> QED
        BY <4>1 DEF ClientsSeeEveryBooking
    <3> QED
      BY <3>1, <3>2
  <2>4. UNCHANGED vars \/ Fetch \/ \E r \in Request : Step(r)
    BY DEF Next, Step
  <2> QED
    BY <2>1, <2>2, <2>3, <2>4
<1> QED
  BY <1>1, <1>2, LockInvHolds, PTL DEF Spec

-----------------------------------------------------------------------------
(* The history of an order.                                                *)

NotConfirmed(o) == \A i \in DOMAIN history[o] : history[o][i].to # "CONFIRMED"

\* No order that is still a draft has been confirmed; a confirm that has read
\* its order holds that order's lock, and nobody has confirmed it since.
HistoryInv ==
  /\ \A o \in Order : orders[o].status \in {"NONE", "DRAFT"} => NotConfirmed(o)
  /\ \A r \in Request : pc[r] \in {"confirm.lockProducts", "confirm.write"} =>
       OrderKey(target[r]) \in locks[r] /\ NotConfirmed(target[r])
  /\ \A o \in Order : \A i, j \in DOMAIN history[o] :
       history[o][i].to = "CONFIRMED" /\ history[o][j].to = "CONFIRMED" => i = j

\* A row appended to the history of p leaves the others alone.
LEMMA HistoryGrows ==
  ASSUME TypeOK, NEW p \in Order, NEW from, NEW to, Record(p, from, to), NEW o \in Order
  PROVE  LET n == Len(history[o]) IN
         /\ o # p => history'[o] = history[o]
         /\ n \in Nat /\ DOMAIN history[o] = 1 .. n
         /\ o = p => /\ DOMAIN history'[o] = 1 .. n + 1
                     /\ \A i \in 1 .. n : history'[o][i] = history[o][i]
                     /\ history'[o][n + 1].to = to
<1> DEFINE e == [from |-> from, to |-> to]
<1>1. history[o] \in Seq(HistoryRow)
  BY DEF TypeOK
<1>2. e.to = to
  OBVIOUS
<1>3. history' = [history EXCEPT ![p] = Append(history[p], e)]
  BY DEF Record
<1> HIDE DEF e
<1> QED
  BY <1>1, <1>2, <1>3 DEF TypeOK

\* What the steps write there.
LEMMA HistorySteps ==
  ASSUME TypeOK, NEW r \in Request, Step(r)
  PROVE  \/ UNCHANGED history
         \/ ConfirmWrite(r)
         \/ /\ pc[r] = "create.insert"
            /\ \E o \in Order : orders[o].status = "NONE" /\ Record(o, "NONE", "DRAFT")
         \/ /\ pc[r] = "cancel.write"
            /\ Record(target[r], row[r].status, "CANCELLED")
BY DEF Step, Create, Update, Assign, Confirm, Cancel, Delete, CreateCheck,
       CreateInsert, UpdateRead, UpdateCheck, UpdateKeepItems, UpdateReplaceItems,
       AssignRead, AssignCheck, AssignWrite, ConfirmBegin, ConfirmRead, ConfirmCheck,
       CancelRead, CancelWrite, DeleteRead, DeleteWrite, Lock, Emit, LoseEvent, RollBack, Fail, db

LEMMA HistoryInvStep == LockInv /\ HistoryInv /\ [Next]_vars => HistoryInv'
<1> SUFFICES ASSUME LockInv, HistoryInv, [Next]_vars PROVE HistoryInv'
  OBVIOUS
<1>0. TypeOK /\ LockScope /\ LockDiscipline
  BY DEF LockInv
<1>1. CASE Quiet
  BY <1>1 DEF Quiet, HistoryInv, NotConfirmed
<1>2. ASSUME NEW r \in Request, Step(r) PROVE HistoryInv'
  \* An order gets a confirmed row only from a confirm that still waits for it.
  <2>1. ASSUME NEW o \in Order, NotConfirmed(o), ~(ConfirmWrite(r) /\ target[r] = o)
        PROVE  NotConfirmed(o)'
    <3>1. CASE ConfirmWrite(r)
      <4>1. target[r] \in Order /\ Record(target[r], row[r].status, "CONFIRMED")
        BY <1>0, <3>1 DEF ConfirmWrite, TypeOK, NeedsOrder, Label, InTransaction
      <4>2. history'[o] = history[o]
        BY <1>0, <2>1, <3>1, <4>1, HistoryGrows
      <4> QED
        BY <2>1, <4>2 DEF NotConfirmed
    <3>2. ASSUME NEW p \in Order, NEW from, NEW to, to # "CONFIRMED", Record(p, from, to)
          PROVE  NotConfirmed(o)'
      BY <1>0, <2>1, <3>2, HistoryGrows DEF NotConfirmed
    <3>3. pc[r] = "cancel.write" => target[r] \in Order
      BY <1>0 DEF TypeOK, NeedsOrder, Label
    <3>4. CASE UNCHANGED history
      BY <2>1, <3>4 DEF NotConfirmed
    <3> QED
      BY <1>0, <1>2, <3>1, <3>2, <3>3, <3>4, HistorySteps
  <2>2. ASSUME NEW o \in Order, orders'[o].status \in {"NONE", "DRAFT"}
        PROVE  NotConfirmed(o)'
    <3>1. orders[o].status \in {"NONE", "DRAFT"} /\ ~(ConfirmWrite(r) /\ target[r] = o)
      <4>1. orders[o] \in Row
        BY <1>0 DEF TypeOK
      <4>2. ConfirmWrite(r) /\ target[r] = o => orders'[o].status = "CONFIRMED"
        BY <1>0, <4>1 DEF ConfirmWrite, TypeOK, Row
      <4> QED
        BY <1>0, <1>2, <2>2, <4>2, StatusSteps
    <3> QED
      BY <2>1, <3>1 DEF HistoryInv
  <2>3. ASSUME NEW q \in Request, pc'[q] \in {"confirm.lockProducts", "confirm.write"}
        PROVE  OrderKey(target'[q]) \in locks'[q] /\ NotConfirmed(target[q])'
    <3>1. CASE q # r
      <4>1. /\ pc'[q] = pc[q] /\ target'[q] = target[q] /\ locks'[q] = locks[q]
            /\ target[q] \in Order
        BY <1>0, <1>2, <2>3, <3>1, OthersUntouched
        DEF TypeOK, NeedsOrder, Label, InTransaction
      <4>2. OrderKey(target[q]) \in locks[q] /\ NotConfirmed(target[q])
        BY <2>3, <4>1 DEF HistoryInv
      <4>3. ~(ConfirmWrite(r) /\ target[r] = target[q])
        BY <1>0, <3>1, <4>2 DEF HistoryInv, ConfirmWrite, LockDiscipline
      <4>4. PICK o \in Order : o = target[q]
        BY <4>1
      <4>5. NotConfirmed(o)'
        BY <2>1, <4>2, <4>3, <4>4
      <4> QED
        BY <4>1, <4>2, <4>4, <4>5
    <3>2. CASE q = r
      <4>1. ConfirmRead(r) \/ ConfirmCheck(r) \/ Lock(r)
        BY <1>0, <1>2, <2>3, <3>2
        DEF Step, Create, Update, Assign, Confirm, Cancel, Delete, CreateCheck,
            CreateInsert, UpdateRead, UpdateCheck, UpdateKeepItems, UpdateReplaceItems,
            AssignRead, AssignCheck, AssignWrite, ConfirmBegin, ConfirmWrite, CancelRead,
            CancelWrite, DeleteRead, DeleteWrite, Emit, LoseEvent, RollBack, Fail, Leave, Begin,
            Goto, TypeOK
      <4>2. CASE ConfirmRead(r)
        <5>1. /\ pc[r] = "confirm.lockOrder" /\ want[r] = {} /\ locks' = locks
              /\ target' = target /\ orders[target[r]].status = "DRAFT" /\ UNCHANGED history
          BY <1>0, <2>3, <3>2, <4>2 DEF ConfirmRead, Fail, Leave, TypeOK, db
        <5>2. target[r] \in Order /\ OrderKey(target[r]) \in locks[r]
          BY <1>0, <5>1 DEF TypeOK, NeedsOrder, Label, InTransaction, LockScope
        <5> QED
          BY <3>2, <5>1, <5>2 DEF HistoryInv, NotConfirmed
      <4>3. CASE ConfirmCheck(r) \/ Lock(r)
        <5>1. /\ pc[r] \in {"confirm.lockProducts", "confirm.write"}
              /\ target' = target /\ history' = history /\ locks[r] \subseteq locks'[r]
          BY <1>0, <2>3, <3>2, <4>3
          DEF ConfirmCheck, Lock, Fail, Leave, TypeOK, db, local, lockv
        <5> QED
          BY <3>2, <5>1 DEF HistoryInv, NotConfirmed
      <4> QED
        BY <4>1, <4>2, <4>3
    <3> QED
      BY <3>1, <3>2
  <2>4. ASSUME NEW o \in Order, NEW i \in DOMAIN history'[o], NEW j \in DOMAIN history'[o],
               history'[o][i].to = "CONFIRMED", history'[o][j].to = "CONFIRMED"
        PROVE  i = j
    <3>1. CASE UNCHANGED history
      BY <2>4, <3>1 DEF HistoryInv
    <3>2. CASE ConfirmWrite(r) /\ target[r] = o
      <4>1. Record(o, row[r].status, "CONFIRMED") /\ NotConfirmed(o)
        BY <3>2 DEF ConfirmWrite, HistoryInv
      <4> QED
        BY <1>0, <2>4, <4>1, HistoryGrows DEF NotConfirmed
    <3>3. ASSUME NEW p \in Order, NEW from, NEW to, to # "CONFIRMED" \/ p # o, Record(p, from, to)
          PROVE  i = j
      <4>1. CASE p # o
        <5>1. history'[o] = history[o]
          BY <1>0, <3>3, <4>1, HistoryGrows
        <5> QED
          BY <2>4, <5>1 DEF HistoryInv
      <4>2. CASE p = o
        <5> DEFINE n == Len(history[o])
        <5>1. /\ n \in Nat /\ DOMAIN history[o] = 1 .. n /\ DOMAIN history'[o] = 1 .. n + 1
              /\ \A k \in 1 .. n : history'[o][k] = history[o][k]
              /\ history'[o][n + 1].to = to
          BY <1>0, <3>3, <4>2, HistoryGrows
        <5> HIDE DEF n
        <5>2. i \in 1 .. n /\ j \in 1 .. n
          BY <2>4, <3>3, <4>2, <5>1
        <5> QED
          BY <2>4, <5>1, <5>2 DEF HistoryInv
      <4> QED
        BY <4>1, <4>2
    <3>4. pc[r] \in {"cancel.write", "confirm.write"} => target[r] \in Order
      BY <1>0 DEF TypeOK, NeedsOrder, Label, InTransaction
    <3>5. ConfirmWrite(r) => Record(target[r], row[r].status, "CONFIRMED") /\ pc[r] = "confirm.write"
      BY DEF ConfirmWrite
    <3> QED
      BY <1>0, <1>2, <3>1, <3>2, <3>3, <3>4, <3>5, HistorySteps
  <2> QED
    BY <2>2, <2>3, <2>4 DEF HistoryInv
<1> QED
  BY <1>1, <1>2, StepOrQuiet

\* Two confirms of one order take turns at its lock, and the second one finds
\* the order no longer a draft: it has one CONFIRMED row at most.
THEOREM OrdersConfirmedOnce == Spec => []ConfirmedAtMostOnce
<1>1. Init => HistoryInv
  BY DEF Init, HistoryInv, NotConfirmed
<1>2. LockInv /\ HistoryInv => ConfirmedAtMostOnce
  <2> SUFFICES ASSUME HistoryInv, NEW o \in Order
               PROVE  Cardinality({i \in DOMAIN history[o] : history[o][i].to = "CONFIRMED"}) <= 1
    BY DEF ConfirmedAtMostOnce
  <2> DEFINE S == {i \in DOMAIN history[o] : history[o][i].to = "CONFIRMED"}
  <2>1. \A i, j \in S : i = j
    BY DEF HistoryInv
  <2>2. CASE S = {}
    BY <2>2, FS_EmptySet
  <2>3. ASSUME NEW i \in S PROVE Cardinality(S) <= 1
    <3>1. S = {i}
      BY <2>1, <2>3
    <3>2. Cardinality({i}) = 1
      BY FS_Singleton
    <3> HIDE DEF S
    <3> QED
      BY <3>1, <3>2
  <2> QED
    BY <2>2, <2>3
<1> QED
  BY <1>1, <1>2, HistoryInvStep, LockInvHolds, PTL DEF Spec

-----------------------------------------------------------------------------
(* Counting.                                                               *)

\* Elements that do not outnumber others can each be given one of them.
LEMMA RoomForAll ==
  ASSUME NEW S, NEW T, IsFiniteSet(S), IsFiniteSet(T),
         Cardinality(S) <= Cardinality(T)
  PROVE  \E f \in [S -> T] : \A x, y \in S : f[x] = f[y] => x = y
<1> DEFINE m == Cardinality(S)
           n == Cardinality(T)
<1>1. m \in Nat /\ n \in Nat /\ m <= n
  BY FS_CardinalityType
<1>2. PICK s \in Bijection(1 .. m, S) : TRUE
  BY FS_CardinalityType DEF ExistsBijection
<1>3. PICK t \in Bijection(1 .. n, T) : TRUE
  BY FS_CardinalityType DEF ExistsBijection
<1> HIDE DEF m, n
<1>4. /\ s \in [1 .. m -> S] /\ \A x \in S : \E i \in 1 .. m : s[i] = x
      /\ t \in [1 .. n -> T] /\ \A i, j \in 1 .. n : t[i] = t[j] => i = j
  BY <1>2, <1>3 DEF Bijection, Surjection, Injection, IsInjective
<1> DEFINE place == [x \in S |-> CHOOSE i \in 1 .. m : s[i] = x]
           f == [x \in S |-> t[place[x]]]
<1>5. \A x \in S : place[x] \in 1 .. n /\ s[place[x]] = x
  BY <1>1, <1>4
<1> HIDE DEF place
<1>6. f \in [S -> T] /\ \A x, y \in S : f[x] = f[y] => x = y
  BY <1>4, <1>5
<1> QED
  BY <1>6

\* What few have taken leaves the others in number.
LEMMA LeftOver ==
  ASSUME NEW A, NEW B, IsFiniteSet(A), IsFiniteSet(B),
         NEW T, NEW g \in Surjection(B, T)
  PROVE  /\ IsFiniteSet(A \ T)
         /\ Cardinality(A \ T) \in Nat /\ Cardinality(A) \in Nat /\ Cardinality(B) \in Nat
         /\ Cardinality(A) - Cardinality(B) <= Cardinality(A \ T)
<1>1. IsFiniteSet(T) /\ Cardinality(T) <= Cardinality(B)
  BY FS_Surjection
<1>2. IsFiniteSet(A \cap T) /\ Cardinality(A \cap T) <= Cardinality(T)
  BY <1>1, FS_Intersection
<1>3. IsFiniteSet(A \ T) /\ Cardinality(A \ T) = Cardinality(A) - Cardinality(A \cap T)
  BY FS_Difference
<1>4. /\ Cardinality(A) \in Nat /\ Cardinality(B) \in Nat /\ Cardinality(T) \in Nat
      /\ Cardinality(A \cap T) \in Nat /\ Cardinality(A \ T) \in Nat
  BY <1>1, <1>2, <1>3, FS_CardinalityType
<1> QED
  BY <1>1, <1>2, <1>3, <1>4

-----------------------------------------------------------------------------
(* Every confirmed line can be served.                                     *)

BookedPairs == UNION {{q} \X orders[q].items : q \in {o \in Order : Blocks(o)}}

\* f gives each booked line a unit of its product, no unit twice at a time.
Serves(f) ==
  /\ f \in [BookedPairs -> Asset]
  /\ \A b \in BookedPairs : ProductOf[f[b]] = b[2].product
  /\ \A b, c \in BookedPairs :
       b # c /\ f[b] = f[c] => b[1] # c[1] /\ ~Overlap(b[1], c[1])

LEMMA ServedIfServing == EveryLineCanBeServed <=> \E f : Serves(f)
BY DEF EveryLineCanBeServed, Serves, BookedPairs

LEMMA BookedPair ==
  /\ \A b \in BookedPairs : /\ b[1] \in Order /\ Blocks(b[1])
                            /\ b[2] \in orders[b[1]].items /\ b = <<b[1], b[2]>>
  /\ \A o \in Order : Blocks(o) =>
       \A l \in orders[o].items : <<o, l>> \in BookedPairs
BY DEF BookedPairs

LEMMA ServedNext ==
  ASSUME NEW f, f \in [BookedPairs' -> Asset],
         \A b \in BookedPairs' : ProductOf[f[b]] = b[2].product,
         \A b, c \in BookedPairs' :
           b # c /\ f[b] = f[c] => b[1] # c[1] /\ ~Overlap(b[1], c[1])'
  PROVE  EveryLineCanBeServed'
<1>1. Serves(f)'
  BY DEF Serves
<1> QED
  BY <1>1 DEF EveryLineCanBeServed, Serves, BookedPairs

\* Orders that stop blocking free their units; the others keep theirs.
LEMMA FewerAreServed ==
  ASSUME NEW f, Serves(f), \A o \in Order : Blocks(o)' => Unchanged(o)
  PROVE  Serves([b \in BookedPairs |-> f[b]])'
<1> DEFINE g == [b \in BookedPairs' |-> f[b]]
<1>1. \A b \in BookedPairs' : b[1] \in Order /\ Blocks(b[1])' /\ b \in BookedPairs
  BY BookedPair DEF BookedPairs, Unchanged
<1>2. \A b, c \in BookedPairs' : Overlap(b[1], c[1])' <=> Overlap(b[1], c[1])
  BY <1>1 DEF Overlap, Unchanged
<1>3. /\ g \in [BookedPairs' -> Asset]
      /\ \A b \in BookedPairs' : g[b] = f[b]
  BY <1>1 DEF Serves
<1> HIDE DEF g
<1>4. /\ \A b \in BookedPairs' : ProductOf[g[b]] = b[2].product
      /\ \A b, c \in BookedPairs' :
           b # c /\ g[b] = g[c] => b[1] # c[1] /\ ~Overlap(b[1], c[1])'
  BY <1>1, <1>2, <1>3 DEF Serves
<1> QED
  BY <1>3, <1>4 DEF Serves, g

\* A line keeps the unit that served it, whatever unit assign-assets names.
LEMMA ReassignedAreServed ==
  ASSUME BookingInv, NEW r \in Request, Step(r), Reassigns(r),
         NEW o \in Order, o = target[r], Blocks(o)', NEW f, Serves(f)
  PROVE  EveryLineCanBeServed'
<1> USE DEF BookingInv, LockInv
<1>1. orders[o] \in Row
  BY DEF TypeOK
<1>2. orders'[o] = [orders[o] EXCEPT !.items = {Assigned(l, asg[r]) : l \in orders[o].items}]
  BY DEF Reassigns, TypeOK
<1>3. /\ orders'[o].items = {Assigned(l, asg[r]) : l \in orders[o].items}
      /\ Blocks(o) /\ orders'[o].start = orders[o].start
      /\ orders'[o].blockedEnd = orders[o].blockedEnd
  BY <1>1, <1>2 DEF Row, Blocks
<1>4. \A q \in Order \ {o} : Blocks(q)' => Unchanged(q)
  BY OldOrWritten
<1> DEFINE old(b) == CHOOSE l \in orders[o].items : Assigned(l, asg[r]) = b[2]
           was == [b \in BookedPairs' |-> IF b[1] = o THEN <<o, old(b)>> ELSE b]
           g == [b \in BookedPairs' |-> f[was[b]]]
<1>5. \A b \in BookedPairs' : /\ b[1] \in Order /\ Blocks(b[1])'
                              /\ b[2] \in orders'[b[1]].items /\ b = <<b[1], b[2]>>
  BY DEF BookedPairs
<1>6. ASSUME NEW b \in BookedPairs'
      PROVE  /\ was[b] \in BookedPairs /\ was[b][1] = b[1]
             /\ was[b][2].product = b[2].product
             /\ b[1] = o => Assigned(was[b][2], asg[r]) = b[2]
             /\ b[1] # o => was[b] = b
  <2>1. CASE b[1] = o
    <3>1. old(b) \in orders[o].items /\ Assigned(old(b), asg[r]) = b[2]
      BY <1>3, <1>5, <2>1
    <3> HIDE DEF old
    <3>2. was[b] = <<o, old(b)>>
      BY <2>1
    <3>3. old(b) \in Line
      BY <1>1, <3>1 DEF Row
    <3>4. b[2].product = old(b).product
      BY <3>1, <3>3 DEF Assigned, Line
    <3> HIDE DEF was
    <3> QED
      BY <1>3, <2>1, <3>1, <3>2, <3>4, BookedPair
  <2>2. CASE b[1] # o
    <3>1. was[b] = b
      BY <2>2
    <3>2. Unchanged(b[1])
      BY <1>4, <1>5, <2>2
    <3>3. Blocks(b[1]) /\ b[2] \in orders[b[1]].items
      BY <1>5, <3>2 DEF Unchanged
    <3> HIDE DEF was
    <3> QED
      BY <1>5, <2>2, <3>1, <3>3, BookedPair
  <2> QED
    BY <2>1, <2>2
<1>7. \A b \in BookedPairs' : g[b] = f[was[b]]
  OBVIOUS
<1> HIDE DEF was
<1>8. g \in [BookedPairs' -> Asset]
  BY <1>6 DEF Serves
<1> HIDE DEF g
<1>9. \A b, c \in BookedPairs' : was[b] = was[c] => b = c
  <2> SUFFICES ASSUME NEW b \in BookedPairs', NEW c \in BookedPairs', was[b] = was[c]
               PROVE  b = c
    OBVIOUS
  <2>1. b[1] = c[1] /\ b[2] = c[2]
    BY <1>6
  <2> QED
    BY <1>5, <2>1
<1>10. \A q \in Order : Blocks(q)' =>
         orders'[q].start = orders[q].start /\ orders'[q].blockedEnd = orders[q].blockedEnd
  BY <1>3, <1>4 DEF Unchanged
<1>11. \A b, c \in BookedPairs' : Overlap(b[1], c[1])' <=> Overlap(b[1], c[1])
  BY <1>5, <1>10 DEF Overlap
<1>12. /\ \A b \in BookedPairs' : ProductOf[g[b]] = b[2].product
       /\ \A b, c \in BookedPairs' :
            b # c /\ g[b] = g[c] => b[1] # c[1] /\ ~Overlap(b[1], c[1])'
  BY <1>6, <1>7, <1>9, <1>11 DEF Serves
<1> QED
  BY <1>8, <1>12, ServedNext

\* What a confirm has counted is room for its lines: of each product there are
\* units enough that serve no line in its window.
LEMMA RoomForConfirmed ==
  ASSUME BookingInv, NEW r \in Request, Confirms(r),
         NEW o \in Order, o = target[r], NEW f, Serves(f), NEW p \in ProductsOf(orders[o].items)
  PROVE  LET lines == LinesFor(orders[o].items, p)
             taken == {f[b] : b \in BookedLines(p, o, orders[o].start, orders[o].blockedEnd)}
         IN  \E g \in [lines -> AssignableAssets(p) \ taken] :
               \A l, m \in lines : g[l] = g[m] => l = m
<1> USE DEF BookingInv, LockInv, ProtocolInv
<1> DEFINE booked == BookedLines(p, o, orders[o].start, orders[o].blockedEnd)
           lines == LinesFor(orders[o].items, p)
           units == AssignableAssets(p)
           taken == {f[b] : b \in booked}
<1>1. /\ row[r].items = orders[o].items /\ row[r].start = orders[o].start
      /\ row[r].end + row[r].turnaround = orders[o].blockedEnd
  BY DEF Confirms, OrderIsAsRead, SeesOrder, RowsWellFormed, WellFormed
<1>2. Available(o, row[r])
  BY DEF Confirms, CheckStillHolds, CheckHolds
<1>3. Cardinality(booked) + Cardinality(lines) <= Cardinality(units)
  BY <1>1, <1>2 DEF Available, StockLeft
<1>4. IsFiniteSet(booked)
  BY BookedLinesFinite
<1>5. IsFiniteSet(lines)
  <2>1. lines \in SUBSET Line
    BY DEF TypeOK, Row, LinesFor
  <2> QED
    BY <2>1, LineFinite, FS_Subset
<1>6. IsFiniteSet(units)
  BY SetsAssumption, FS_Subset DEF AssignableAssets
<1> DEFINE serving == [b \in booked |-> f[b]]
<1>s. serving \in Surjection(booked, taken)
  BY DEF Surjection
<1> HIDE DEF booked, lines, units, taken, serving
<1>7. /\ IsFiniteSet(units \ taken) /\ Cardinality(units \ taken) \in Nat
      /\ Cardinality(units) \in Nat /\ Cardinality(booked) \in Nat
      /\ Cardinality(units) - Cardinality(booked) <= Cardinality(units \ taken)
  BY <1>4, <1>6, <1>s, LeftOver
<1>8. Cardinality(lines) \in Nat
  BY <1>5, FS_CardinalityType
<1>9. Cardinality(lines) <= Cardinality(units \ taken)
  BY <1>3, <1>7, <1>8
<1>10. \E g \in [lines -> units \ taken] : \A l, m \in lines : g[l] = g[m] => l = m
  BY <1>5, <1>7, <1>9, RoomForAll
<1> QED
  BY <1>10 DEF booked, lines, units, taken

\* The lines of a confirmed order get units that serve nobody in its window.
LEMMA ConfirmedAreServed ==
  ASSUME BookingInv, NEW r \in Request, Step(r), Confirms(r),
         NEW o \in Order, o = target[r], Blocks(o)', NEW f, Serves(f)
  PROVE  EveryLineCanBeServed'
<1> USE DEF BookingInv, LockInv
<1>1. orders[o] \in Row /\ orders'[o] = [orders[o] EXCEPT !.status = "CONFIRMED"]
  BY DEF TypeOK, Confirms
<1>2. /\ orders'[o].items = orders[o].items /\ orders'[o].start = orders[o].start
      /\ orders'[o].blockedEnd = orders[o].blockedEnd
  BY <1>1 DEF Row
<1>3. \A q \in Order \ {o} : Blocks(q)' => Unchanged(q)
  BY OldOrWritten
<1> DEFINE lines(p) == LinesFor(orders[o].items, p)
           taken(p) == {f[b] : b \in BookedLines(p, o, orders[o].start, orders[o].blockedEnd)}
           Fits(g, p) == /\ g \in [lines(p) -> AssignableAssets(p) \ taken(p)]
                         /\ \A l, m \in lines(p) : g[l] = g[m] => l = m
           place(p) == CHOOSE g : Fits(g, p)
           unit(l) == place(l.product)[l]
<1>4. \A p \in ProductsOf(orders[o].items) : \E g : Fits(g, p)
  BY RoomForConfirmed
<1>5. \A p \in ProductsOf(orders[o].items) : Fits(place(p), p)
  <2> HIDE DEF Fits
  <2> QED
    BY <1>4
<1> HIDE DEF place
<1>6. \A l \in orders[o].items : l.product \in ProductsOf(orders[o].items) /\ l \in lines(l.product)
  BY DEF ProductsOf, LinesFor
<1>7. \A l \in orders[o].items : unit(l) \in AssignableAssets(l.product) \ taken(l.product)
  <2> SUFFICES ASSUME NEW l \in orders[o].items
               PROVE  unit(l) \in AssignableAssets(l.product) \ taken(l.product)
    OBVIOUS
  <2> HIDE DEF lines, taken
  <2> QED
    BY <1>5, <1>6
<1>8. \A l, m \in orders[o].items : unit(l) = unit(m) /\ l.product = m.product => l = m
  <2> SUFFICES ASSUME NEW l \in orders[o].items, NEW m \in orders[o].items,
                      unit(l) = unit(m), l.product = m.product
               PROVE  l = m
    OBVIOUS
  <2> HIDE DEF lines, taken
  <2>1. l \in lines(l.product) /\ m \in lines(l.product)
    BY <1>6
  <2> QED
    BY <1>5, <1>6, <2>1
<1> DEFINE g == [b \in BookedPairs' |-> IF b[1] = o THEN unit(b[2]) ELSE f[b]]
<1>9. \A b \in BookedPairs' : /\ b[1] \in Order /\ Blocks(b[1])' /\ b = <<b[1], b[2]>>
                              /\ b[2] \in orders'[b[1]].items
  BY DEF BookedPairs
<1>10. \A b \in BookedPairs' : b[1] # o => b \in BookedPairs
  BY <1>3, <1>9, BookedPair DEF Unchanged
<1>11. \A b \in BookedPairs' : b[1] = o => b[2] \in orders[o].items
  BY <1>2, <1>9
<1> HIDE DEF unit, Fits, lines
<1>12. ASSUME NEW b \in BookedPairs'
       PROVE  /\ g[b] \in Asset /\ ProductOf[g[b]] = b[2].product
              /\ b[1] = o => g[b] = unit(b[2])
              /\ b[1] # o => g[b] = f[b]
  <2>1. CASE b[1] = o
    <3>1. g[b] = unit(b[2])
      BY <2>1
    <3>2. unit(b[2]) \in AssignableAssets(b[2].product)
      BY <1>7, <1>11, <2>1
    <3> QED
      BY <2>1, <3>1, <3>2 DEF AssignableAssets
  <2>2. CASE b[1] # o
    BY <1>10, <2>2 DEF Serves
  <2> QED
    BY <2>1, <2>2
<1>13. g \in [BookedPairs' -> Asset]
  BY <1>12
<1> HIDE DEF g
<1>14. \A q \in Order : Blocks(q)' =>
         orders'[q].start = orders[q].start /\ orders'[q].blockedEnd = orders[q].blockedEnd
  BY <1>2, <1>3 DEF Unchanged
<1>15. \A b, c \in BookedPairs' : Overlap(b[1], c[1])' <=> Overlap(b[1], c[1])
  BY <1>9, <1>14 DEF Overlap
\* No unit that serves o serves another order in its window.
<1>16. ASSUME NEW b \in BookedPairs', NEW c \in BookedPairs', b[1] = o, c[1] # o, g[b] = g[c]
       PROVE  ~Overlap(b[1], c[1]) /\ ~Overlap(c[1], b[1])
  <2>1. c \in BookedPairs /\ g[c] = f[c] /\ c[2].product = b[2].product
    BY <1>10, <1>12, <1>16
  <2>2. ASSUME Overlap(o, c[1]) \/ Overlap(c[1], o) PROVE FALSE
    <3>1. c[1] \in BlockingOrders(o, orders[o].start, orders[o].blockedEnd)
      <4>1. c[1] \in Order \ {o} /\ Blocks(c[1])
        BY <1>16, <2>1, BookedPair
      <4>2. /\ orders[c[1]].start \in Nat /\ orders[c[1]].blockedEnd \in Nat
            /\ orders[o].start \in Nat /\ orders[o].blockedEnd \in Nat
        BY <1>1, <4>1 DEF TypeOK, Row
      <4> QED
        BY <2>2, <4>1, <4>2 DEF Overlap, BlockingOrders
    <3>2. c \in BookedLines(b[2].product, o, orders[o].start, orders[o].blockedEnd)
      <4>1. c[2] \in LinesFor(orders[c[1]].items, b[2].product) /\ c = <<c[1], c[2]>>
        BY <2>1, BookedPair DEF LinesFor
      <4> QED
        BY <3>1, <4>1 DEF BookedLines
    <3>3. f[c] \in taken(b[2].product)
      BY <3>2
    <3>4. f[c] = unit(b[2]) /\ unit(b[2]) \notin taken(b[2].product)
      BY <1>7, <1>11, <1>12, <1>16, <2>1
    <3> QED
      BY <3>3, <3>4
  <2> QED
    BY <1>16, <2>2
<1>17. ASSUME NEW b \in BookedPairs', NEW c \in BookedPairs', b # c, g[b] = g[c]
       PROVE  b[1] # c[1] /\ ~Overlap(b[1], c[1])
  <2>1. CASE b[1] = o /\ c[1] = o
    <3>1. unit(b[2]) = unit(c[2]) /\ b[2].product = c[2].product
      BY <1>12, <1>17, <2>1
    <3>2. b[2] = c[2]
      BY <1>8, <1>11, <2>1, <3>1
    <3> QED
      BY <1>9, <1>17, <2>1, <3>2
  <2>2. CASE b[1] = o /\ c[1] # o
    BY <1>16, <1>17, <2>2
  <2>3. CASE b[1] # o /\ c[1] = o
    BY <1>16, <1>17, <2>3
  <2>4. CASE b[1] # o /\ c[1] # o
    BY <1>10, <1>12, <1>17, <2>4 DEF Serves
  <2> QED
    BY <2>1, <2>2, <2>3, <2>4
<1> QED
  BY <1>12, <1>13, <1>15, <1>17, ServedNext

\* Every confirmed line can be given a unit of its product so that no unit is
\* out twice at a time, although confirm only compares two counts.
THEOREM LinesCanBeServed ==
  ASSUME "update" \notin Ops
  PROVE  Spec => []EveryLineCanBeServed
<1>1. Init => EveryLineCanBeServed
  <2> SUFFICES ASSUME Init PROVE \E f : Serves(f)
    BY ServedIfServing
  <2>1. BookedPairs = {}
    BY DEF Init, BookedPairs, Blocks, BlankRow, BLOCKING_ORDER_STATUSES
  <2>2. Serves([b \in BookedPairs |-> None])
    BY <2>1 DEF Serves
  <2> QED
    BY <2>2
<1>2. BookingInv /\ EveryLineCanBeServed /\ [Next]_vars => EveryLineCanBeServed'
  <2> SUFFICES ASSUME BookingInv, EveryLineCanBeServed, [Next]_vars
               PROVE  EveryLineCanBeServed'
    OBVIOUS
  <2>1. PICK f : Serves(f)
    BY ServedIfServing
  <2>2. ASSUME \A o \in Order : Blocks(o)' => Unchanged(o) PROVE EveryLineCanBeServed'
    <3>1. Serves([b \in BookedPairs |-> f[b]])'
      BY <2>1, <2>2, FewerAreServed
    <3> QED
      BY <3>1 DEF EveryLineCanBeServed, Serves, BookedPairs
  <2>3. CASE Quiet
    BY <2>2, <2>3 DEF Quiet, Blocks, Unchanged
  <2>4. ASSUME NEW r \in Request, Step(r) PROVE EveryLineCanBeServed'
    <3>1. ASSUME NEW o \in Order, o = target[r], Writes(r), Blocks(o)'
          PROVE  EveryLineCanBeServed'
      <4>1. CASE Confirms(r)
        BY <2>1, <2>4, <3>1, <4>1, ConfirmedAreServed
      <4>2. CASE Reassigns(r)
        BY <2>1, <2>4, <3>1, <4>2, ReassignedAreServed
      <4> QED
        BY <3>1, <4>1, <4>2 DEF Writes
    <3>2. CASE \A o \in Order : Blocks(o)' => ~(Writes(r) /\ o = target[r])
      <4>1. \A o \in Order : Blocks(o)' => Unchanged(o)
        BY <2>4, <3>2, OldOrWritten
      <4> QED
        BY <2>2, <4>1
    <3> QED
      BY <3>1, <3>2
  <2> QED
    BY <2>3, <2>4, StepOrQuiet
<1> QED
  BY <1>1, <1>2, BookingInvHolds, PTL DEF Spec

-----------------------------------------------------------------------------
(* The availability pages.                                                 *)

LEMMA PositivePart ==
  ASSUME NEW x \in Int
  PROVE  Max({x, 0}) = IF x > 0 THEN x ELSE 0
<1>1. \E m \in {x, 0} : \A y \in {x, 0} : m >= y
  OBVIOUS
<1>2. Max({x, 0}) \in {x, 0} /\ \A y \in {x, 0} : Max({x, 0}) >= y
  BY <1>1, Zenon DEF Max
<1> QED
  BY <1>2

\* The asset page shows a unit free exactly if no order books it in the window.
LEMMA FreeIsUnbooked ==
  ASSUME NEW p, NEW start, NEW end, NEW turnaround, NEW o
  PROVE  FreeUnits(p, start, end, turnaround, o)
           = AssignableAssets(p) \ BookedAssets(o, start, end + turnaround)
<1>1. ASSUME NEW a
      PROVE  UnitState(a, start, end, turnaround, o).state = "AVAILABLE"
               <=> a \notin BookedAssets(o, start, end + turnaround)
  <2>1. UnitState(a, start, end, turnaround, o).state = "AVAILABLE"
          <=> BookedUntil(a, start, end, turnaround, o) = {}
    BY DEF UnitState
  <2>2. BookedUntil(a, start, end, turnaround, o) = {}
          <=> a \notin BookedAssets(o, start, end + turnaround)
    BY DEF BookedUntil, BookedAssets
  <2> QED
    BY <2>1, <2>2
<1> QED
  BY <1>1 DEF FreeUnits

LEMMA CountsAreNumbers ==
  ASSUME TypeOK, NEW p, NEW o, NEW start, NEW blockedEnd
  PROVE  /\ Cardinality(AssignableAssets(p)) \in Nat
         /\ Cardinality(BookedLines(p, o, start, blockedEnd)) \in Nat
<1>1. IsFiniteSet(AssignableAssets(p))
  BY SetsAssumption, FS_Subset DEF AssignableAssets
<1> QED
  BY <1>1, BookedLinesFinite, FS_CardinalityType

\* The check of a cart of one line, in terms of units and counts.
LEMMA OneLineCheck ==
  ASSUME TypeOK, NEW p \in Product, NEW start \in Nat, NEW end \in Nat, start < end,
         NEW turnaround \in Nat, NEW i \in Item, NEW a \in Asset \cup {None}
  PROVE  Available(None, Quoted(BlankRow, start, end, turnaround,
                                {[id |-> i, product |-> p, asset |-> a]}))
           <=> /\ a # None => a \in FreeUnits(p, start, end, turnaround, None)
               /\ AvailableQuantity(p, start, end, turnaround, None) > 0
<1> DEFINE line == [id |-> i, product |-> p, asset |-> a]
           w == Quoted(BlankRow, start, end, turnaround, {line})
           booked == BookedLines(p, None, start, end + turnaround)
           units == AssignableAssets(p)
<1>1. /\ w.start = start /\ w.end = end /\ w.turnaround = turnaround
      /\ w.items = {line}
  BY DEF Quoted, BlankRow
<1>2. line.product = p /\ line.asset = a
  OBVIOUS
<1> HIDE DEF w, line
<1>3. SerialsFit(w.items) <=> (a # None => a \in units)
  BY <1>1, <1>2 DEF SerialsFit, AssignableAssets
<1>4. SerialsFree(None, w)
        <=> (a # None => a \notin BookedAssets(None, start, end + turnaround))
  BY <1>1, <1>2 DEF SerialsFree, AssetsOf
<1>5. StockLeft(None, w) <=> Cardinality(booked) < Cardinality(units)
  <2>1. ProductsOf(w.items) = {p} /\ LinesFor(w.items, p) = {line}
    BY <1>1, <1>2 DEF ProductsOf, LinesFor
  <2>2. Cardinality({line}) = 1
    BY FS_Singleton
  <2>3. Cardinality(booked) \in Nat /\ Cardinality(units) \in Nat
    BY CountsAreNumbers
  <2>4. units = {} => Cardinality(units) = 0
    BY FS_EmptySet
  <2> HIDE DEF booked, units
  <2>5. StockLeft(None, w) <=> /\ units # {}
                               /\ Cardinality(booked) + 1 <= Cardinality(units)
    BY <1>1, <2>1, <2>2 DEF StockLeft, booked, units
  <2> QED
    BY <2>3, <2>4, <2>5
<1>6. Available(None, w)
        <=> SerialsFit(w.items) /\ SerialsFree(None, w) /\ StockLeft(None, w)
  BY <1>1 DEF Available
<1>7. AvailableQuantity(p, start, end, turnaround, None) > 0
        <=> Cardinality(booked) < Cardinality(units)
  <2>1. Cardinality(booked) \in Nat /\ Cardinality(units) \in Nat
    BY CountsAreNumbers
  <2>2. AvailableQuantity(p, start, end, turnaround, None)
          = Max({Cardinality(units) - Cardinality(booked), 0})
    BY DEF AvailableQuantity, Counts
  <2> HIDE DEF booked, units
  <2> QED
    BY <2>1, <2>2, PositivePart
<1> HIDE DEF booked, units
<1>8. FreeUnits(p, start, end, turnaround, None)
        = units \ BookedAssets(None, start, end + turnaround)
  BY FreeIsUnbooked DEF units
<1>9. Available(None, w)
        <=> /\ a # None => a \in FreeUnits(p, start, end, turnaround, None)
            /\ AvailableQuantity(p, start, end, turnaround, None) > 0
  BY <1>3, <1>4, <1>5, <1>6, <1>7, <1>8
<1> QED
  BY <1>9 DEF w, line

\* Whatever the orders are, what the pages offer and what the check accepts are
\* the same.
THEOREM PagesShowWhatPasses == Spec => []PagesAgreeWithCheck
<1>1. TypeOK => PagesAgreeWithCheck
  <2> SUFFICES ASSUME TypeOK, NEW p \in Product, NEW w \in Windows,
                      NEW turnaround \in Turnarounds
               PROVE  LET free == FreeUnits(p, w[1], w[2], turnaround, None)
                          Passes(a) ==
                            \E i \in Item :
                              Available(None, Quoted(BlankRow, w[1], w[2], turnaround,
                                        {[id |-> i, product |-> p, asset |-> a]}))
                      IN  IF AvailableQuantity(p, w[1], w[2], turnaround, None) > 0
                          THEN \A a \in Asset \cup {None} : Passes(a) <=> a \in free \cup {None}
                          ELSE \A a \in Asset \cup {None} : ~Passes(a)
    BY DEF PagesAgreeWithCheck
  <2>1. w[1] \in Nat /\ w[2] \in Nat /\ w[1] < w[2] /\ turnaround \in Nat
    BY SetsAssumption DEF Windows
  <2>2. \A a \in Asset \cup {None}, i \in Item :
          Available(None, Quoted(BlankRow, w[1], w[2], turnaround,
                                 {[id |-> i, product |-> p, asset |-> a]}))
            <=> /\ a # None => a \in FreeUnits(p, w[1], w[2], turnaround, None)
                /\ AvailableQuantity(p, w[1], w[2], turnaround, None) > 0
    BY <2>1, OneLineCheck
  <2>3. None \notin Asset /\ Item # {}
    BY SetsAssumption, ItemAssumption
  <2>4. FreeUnits(p, w[1], w[2], turnaround, None) \subseteq Asset
    BY DEF FreeUnits, AssignableAssets
  <2> QED
    BY <2>2, <2>3, <2>4
<1> QED
  BY <1>1, TypeCorrect, PTL

\* The units booked in a window are no more than the lines booked in it: each
\* serial sits on a line of its own product.
LEMMA FreeCoversLeft ==
  ASSUME TypeOK, RowsWellFormed, NEW p, NEW o, NEW start, NEW end, NEW turnaround
  PROVE  AvailableQuantity(p, start, end, turnaround, o)
           <= Cardinality(FreeUnits(p, start, end, turnaround, o))
<1> DEFINE until == end + turnaround
           units == AssignableAssets(p)
           lines == BookedLines(p, o, start, until)
           named == {b \in lines : b[2].asset # None}
           serial == [b \in named |-> b[2].asset]
           taken == {b[2].asset : b \in named}
<1>1. IsFiniteSet(units) /\ IsFiniteSet(lines)
  BY SetsAssumption, FS_Subset, BookedLinesFinite DEF AssignableAssets
<1>2. named \in SUBSET lines
  OBVIOUS
<1>3. serial \in Surjection(named, taken)
  BY DEF Surjection
<1>4. units \ taken = FreeUnits(p, start, end, turnaround, o)
  <2>1. ASSUME NEW a \in units, a \in BookedAssets(o, start, until)
        PROVE  a \in taken
    <3>1. PICK q \in BlockingOrders(o, start, until) : a \in AssetsOf(orders[q].items)
      BY <2>1 DEF BookedAssets
    <3>2. PICK l \in orders[q].items : l.asset = a
      BY <3>1 DEF AssetsOf
    <3>3. q \in Order /\ a # None /\ ProductOf[a] = p
      BY <2>1, <3>1, SetsAssumption DEF BlockingOrders, AssignableAssets
    <3>4. l.product = p
      BY <3>2, <3>3 DEF RowsWellFormed, WellFormed, SerialsFit
    <3>5. <<q, l>> \in lines
      BY <3>1, <3>2, <3>4 DEF BookedLines, LinesFor
    <3> HIDE DEF lines
    <3> QED
      BY <3>2, <3>3, <3>5
  <2>2. ASSUME NEW b \in named PROVE b[2].asset \in BookedAssets(o, start, until)
    BY DEF BookedLines, BookedAssets, LinesFor, AssetsOf
  <2>3. FreeUnits(p, start, end, turnaround, o) = units \ BookedAssets(o, start, until)
    BY FreeIsUnbooked
  <2> HIDE DEF units, named, until
  <2> QED
    BY <2>1, <2>2, <2>3
<1>5. AvailableQuantity(p, start, end, turnaround, o)
        = Max({Cardinality(units) - Cardinality(lines), 0})
  BY DEF AvailableQuantity, Counts
<1> HIDE DEF units, lines, named, serial, taken
<1>6. IsFiniteSet(named) /\ Cardinality(named) <= Cardinality(lines)
  BY <1>1, <1>2, FS_Subset
<1>7. /\ Cardinality(units \ taken) \in Nat /\ Cardinality(units) \in Nat
      /\ Cardinality(named) \in Nat
      /\ Cardinality(units) - Cardinality(named) <= Cardinality(units \ taken)
  BY <1>1, <1>3, <1>6, LeftOver
<1>8. Cardinality(lines) \in Nat
  BY <1>1, FS_CardinalityType
<1>9. Max({Cardinality(units) - Cardinality(lines), 0}) <= Cardinality(units \ taken)
  BY <1>6, <1>7, <1>8, PositivePart
<1> QED
  BY <1>4, <1>5, <1>9

\* The limit on a selection comes from counts of lines, the units on offer from
\* serials: there are always units enough on offer to reach the limit.
THEOREM LimitCanBeReached ==
  ASSUME "update" \notin Ops
  PROVE  Spec => []LimitIsSelectable
<1>1. BookingInv => LimitIsSelectable
  BY FreeCoversLeft DEF BookingInv, LockInv, ProtocolInv, LimitIsSelectable
<1> QED
  BY <1>1, BookingInvHolds, PTL

\* What is booked at one instant takes a unit for each line: the blocks on the
\* timelines are of different lines with a serial, and the others take units too.
LEMMA RoomAtInstant ==
  ASSUME TypeOK, RowsWellFormed, NEW f, Serves(f), NEW p \in Product,
         NEW w \in Windows, NEW t \in w[1] .. w[2] - 1
  PROVE  LET blocks == UNION {TimelineBlocks(a, w[1], w[2]) : a \in AssignableAssets(p)}
             out    == {b \in blocks : b.start <= t /\ t < b.until}
             blank  == {b \in BookedLines(p, None, t, t + 1) : b[2].asset = None}
         IN  Cardinality(out) + Cardinality(blank) <= Cardinality(AssignableAssets(p))
<1> DEFINE units  == AssignableAssets(p)
           lines  == BookedLines(p, None, t, t + 1)
           blocks == UNION {TimelineBlocks(a, w[1], w[2]) : a \in units}
           out    == {b \in blocks : b.start <= t /\ t < b.until}
           blank  == {b \in lines : b[2].asset = None}
           named  == lines \ blank
           block(b) == [order |-> b[1], item |-> b[2].id, start |-> orders[b[1]].start,
                        until |-> orders[b[1]].blockedEnd]
           shows == [b \in named |-> block(b)]
           takes == [b \in lines |-> f[b]]
<1>1. w[1] \in Nat /\ w[2] \in Nat /\ t \in Nat /\ w[1] <= t /\ t < w[2]
  <2>1. w[1] \in Nat /\ w[2] \in Nat
    BY SetsAssumption DEF Windows
  <2> QED
    BY <2>1
<1>2. \A q \in Order : orders[q].start \in Nat /\ orders[q].blockedEnd \in Nat
  BY DEF TypeOK, Row
\* The lines booked at the instant are of orders that are out then.
<1>3. \A b \in lines : /\ b[1] \in Order /\ Blocks(b[1]) /\ b = <<b[1], b[2]>>
                       /\ b[2] \in orders[b[1]].items /\ b[2].product = p
                       /\ orders[b[1]].start <= t /\ t < orders[b[1]].blockedEnd
  BY <1>1, <1>2 DEF BookedLines, LinesFor, BlockingOrders
<1>4. \A b, c \in lines : Overlap(b[1], c[1])
  <2> SUFFICES ASSUME NEW b \in lines, NEW c \in lines PROVE Overlap(b[1], c[1])
    OBVIOUS
  <2> HIDE DEF lines
  <2>1. b[1] \in Order /\ c[1] \in Order
    BY <1>3
  <2> QED
    BY <1>1, <1>2, <1>3, <2>1 DEF Overlap
<1>5. takes \in Injection(lines, units)
  <2>1. \A b \in lines : b \in BookedPairs
    <3> HIDE DEF lines
    <3> QED
      BY <1>3, BookedPair
  <2>2. \A b \in lines : takes[b] = f[b] /\ f[b] \in units
    <3> HIDE DEF lines
    <3> QED
      BY <1>3, <2>1 DEF Serves, AssignableAssets
  <2> HIDE DEF lines, units
  <2>3. takes \in [lines -> units]
    BY <2>2
  <2> HIDE DEF takes
  <2>4. \A b, c \in lines : takes[b] = takes[c] => b = c
    BY <1>4, <2>1, <2>2 DEF Serves
  <2> QED
    BY <2>3, <2>4 DEF Injection, IsInjective
<1>6. shows \in Surjection(named, out)
  <2>1. ASSUME NEW b \in named PROVE block(b) \in out
    <3>1. b \in lines /\ b[2].asset # None
      OBVIOUS
    <3>2. /\ b[1] \in Order /\ Blocks(b[1]) /\ b = <<b[1], b[2]>>
          /\ b[2] \in orders[b[1]].items /\ b[2].product = p
          /\ orders[b[1]].start <= t /\ t < orders[b[1]].blockedEnd
      BY <1>3, <3>1
    <3>3. b[2].asset \in units
      <4>1. b[2].asset \in Asset
        BY <3>1, <3>2 DEF TypeOK, Row, Line
      <4> QED
        BY <3>1, <3>2, <4>1 DEF AssignableAssets, RowsWellFormed, WellFormed, SerialsFit
    <3>4. b[1] \in BlockingOrders(None, w[1], w[2])
      BY <1>1, <1>2, <3>2, SetsAssumption DEF BlockingOrders
    <3>5. b \in LinesNaming(b[2].asset, BlockingOrders(None, w[1], w[2]))
      BY <3>2, <3>4 DEF LinesNaming
    <3>6. block(b) \in TimelineBlocks(b[2].asset, w[1], w[2])
      BY <3>5 DEF TimelineBlocks, BlocksOf
    <3>7. block(b) \in blocks
      <4> HIDE DEF block, units
      <4> QED
        BY <3>3, <3>6
    <3>8. block(b).start <= t /\ t < block(b).until
      BY <3>2
    <3> HIDE DEF block, blocks
    <3> QED
      BY <3>7, <3>8
  <2>2. ASSUME NEW k \in out PROVE \E b \in named : block(b) = k
    <3>1. PICK a \in units : k \in TimelineBlocks(a, w[1], w[2])
      <4> HIDE DEF units
      <4> QED
        OBVIOUS
    <3>2. PICK b \in LinesNaming(a, BlockingOrders(None, w[1], w[2])) : k = block(b)
      BY <3>1 DEF TimelineBlocks, BlocksOf
    <3>3. /\ b[1] \in BlockingOrders(None, w[1], w[2]) /\ b = <<b[1], b[2]>>
          /\ b[2] \in orders[b[1]].items /\ b[2].asset = a
      BY DEF LinesNaming
    <3>4. b[1] \in Order \ {None} /\ Blocks(b[1])
      BY <3>3 DEF BlockingOrders
    <3>5. orders[b[1]].start <= t /\ t < orders[b[1]].blockedEnd
      <4>1. k.start <= t /\ t < k.until
        OBVIOUS
      <4> QED
        BY <3>2, <4>1
    <3>6. b[1] \in BlockingOrders(None, t, t + 1)
      BY <1>1, <1>2, <3>4, <3>5 DEF BlockingOrders
    <3>7. a \in Asset /\ ProductOf[a] = p /\ a # None
      BY <3>1, SetsAssumption DEF AssignableAssets
    <3>8. b[2].product = p
      BY <3>3, <3>4, <3>7 DEF RowsWellFormed, WellFormed, SerialsFit
    <3>9. b \in lines
      BY <3>3, <3>6, <3>8 DEF BookedLines, LinesFor
    <3> HIDE DEF lines, block
    <3> QED
      BY <3>2, <3>3, <3>7, <3>9
  <2> HIDE DEF block, named, out
  <2> QED
    BY <2>1, <2>2 DEF Surjection
<1>7. IsFiniteSet(units) /\ IsFiniteSet(lines)
  BY SetsAssumption, FS_Subset, BookedLinesFinite DEF AssignableAssets
<1>8. blank \in SUBSET lines
  OBVIOUS
<1> HIDE DEF units, lines, out, blank, shows, takes
<1>9. Cardinality(lines) <= Cardinality(units)
  BY <1>5, <1>7, FS_Injection
<1>10. lines \cap blank = blank
  BY <1>8
<1>11. IsFiniteSet(named) /\ Cardinality(named) = Cardinality(lines) - Cardinality(blank)
  BY <1>7, <1>10, FS_Difference
<1> HIDE DEF named
<1>12. IsFiniteSet(out) /\ Cardinality(out) <= Cardinality(named)
  BY <1>6, <1>11, FS_Surjection
<1>13. IsFiniteSet(blank)
  BY <1>7, <1>8, FS_Subset
<1>14. /\ Cardinality(units) \in Nat /\ Cardinality(lines) \in Nat
       /\ Cardinality(blank) \in Nat /\ Cardinality(named) \in Nat /\ Cardinality(out) \in Nat
  BY <1>7, <1>11, <1>12, <1>13, FS_CardinalityType
<1>15. Cardinality(out) + Cardinality(blank) <= Cardinality(units)
  BY <1>9, <1>11, <1>12, <1>14
<1> QED
  BY <1>15 DEF units, blank, lines, out

\* Without updates, the timelines of a product's units always leave a unit for
\* each booked line that still waits for its serial, at every instant.
THEOREM TimelineKeepsRoom ==
  ASSUME "update" \notin Ops
  PROVE  Spec => []TimelineLeavesRoom
<1>1. BookingInv /\ EveryLineCanBeServed => TimelineLeavesRoom
  <2> SUFFICES ASSUME BookingInv, EveryLineCanBeServed PROVE TimelineLeavesRoom
    OBVIOUS
  <2>1. PICK f : Serves(f)
    BY ServedIfServing
  <2>2. TypeOK /\ RowsWellFormed
    BY DEF BookingInv, LockInv, ProtocolInv
  <2> QED
    BY <2>1, <2>2, RoomAtInstant DEF TimelineLeavesRoom
<1> QED
  BY <1>1, BookingInvHolds, LinesCanBeServed, PTL
=============================================================================
