------------------------------ MODULE Directory ------------------------------
(***************************************************************************)
(* The tables whose rows are read, changed and written back: users,        *)
(* customers, asset units, store closures, and what orders share with them, *)
(* a code and a search text.  A handler reads a row, looks whether a value  *)
(* is taken, and writes the columns it was given with a search text made of *)
(* the row it read: one statement each, and nothing holds the row between.  *)
(*                                                                         *)
(* Requests on two tables never meet, so a behaviour is about one table.   *)
(* Of columns that are treated alike one stands for all: phone for the     *)
(* other texts of users and customers, status for condition and isActive.  *)
(* Values are normalised; a search text is the values it was joined from.  *)
(***************************************************************************)
EXTENDS Integers, FiniteSets

CONSTANTS
  Table,     \* the tables to look at
  RowsOf,    \* RowsOf[t]: ids of the rows of t, in the order of their creation
  Request,   \* HTTP calls that may be in progress at once
  None,      \* null
  Absent,    \* a field a call does not give
  Value,     \* e-mails, phones, names, serials, notes
  Product,   \* products a unit may belong to
  Status,    \* statuses of a customer or a unit
  Date,      \* instants a closure may begin or end at
  CodeLimit  \* the greatest number with as many digits as codes are padded to

ASSUME DirectoryAssumption ==
  /\ Table \subseteq {"users", "customers", "assets", "closures", "orders"}
  /\ \A t \in Table : RowsOf[t] \subseteq Nat /\ IsFiniteSet(RowsOf[t])
  /\ CodeLimit \in Nat /\ Date \subseteq Nat
  /\ None \notin Nat /\ Absent \notin Nat \cup Value \cup {None}

VARIABLES
  table,    \* the table of this behaviour
  rows,     \* its committed rows
  pc,       \* where each request stands
  req,      \* what each request remembers
  unheard,  \* products whose units changed since the clients last heard of it
  moved     \* products a unit left while a request had it elsewhere

vars == <<table, rows, pc, req, unheard, moved>>
heard == <<unheard, moved>>

Row == RowsOf[table]

\* Codes are numbers, closures have two dates, every other column is text that may
\* be null, a product or a status.
Columns == [users     |-> {"email", "phone"},
            customers |-> {"code", "phone", "status"},
            assets    |-> {"serialNumber", "productId", "status"},
            closures  |-> {"startDate", "endDate"},
            orders    |-> {"code", "note", "cancelReason", "status"}]

\* build...SearchText
Searched == [users     |-> {"email", "phone"},
             customers |-> {"code", "phone"},
             assets    |-> {"serialNumber", "productId", "status"},
             closures  |-> {},
             orders    |-> {"code", "note", "cancelReason"}]

\* null is not a row.
Cell == Value \cup Product \cup Status \cup Nat \cup {None, Absent, "DRAFT", "CANCELLED"}
RowOf(t) ==
  [cols : [Columns[t] -> Cell], text : [Searched[t] -> Cell], deleted : BOOLEAN,
   stale : BOOLEAN, twin : BOOLEAN, omitted : SUBSET {"email", "phone"}]
ASSUME NoRowAssumption == \A t \in Table : None \notin RowOf(t)

Text(cols, omitted) ==
  [c \in Searched[table] |-> IF c \in omitted THEN None ELSE cols[c]]

\* stale: the text or the check of the last write was of a row that had changed
\* since.  twin: another request wrote the phone after this one had checked it.
\* omitted: columns the last text left out.  No code reads these three.
NewRow(cols, twin) ==
  [cols |-> cols, text |-> Text(cols, {}), deleted |-> FALSE,
   stale |-> FALSE, twin |-> twin, omitted |-> {}]

\* row or ids, read: the rows a request is about, the columns as they were read;
\* key: the value it found free; code: the next one; clash: the key was taken
\* since; products: to announce.
NoReq == [row |-> None, ids |-> {}, read |-> None, key |-> Absent, code |-> 0,
          clash |-> FALSE, products |-> {}]

Init ==
  /\ table \in Table
  /\ rows = [i \in Row |-> None]
  /\ pc = [r \in Request |-> "idle"]
  /\ req = [r \in Request |-> NoReq]
  /\ unheard = {} /\ moved = {}

-----------------------------------------------------------------------------
(* Queries.                                                                *)

Exists(i) == rows[i] # None
\* findExisting...
Live(i) == Exists(i) /\ ~rows[i].deleted

Holders(c, v) == {i \in Row : Exists(i) /\ rows[i].cols[c] = v}

\* contains; the rows with a text when one is searched for
Contains(i, v) == \E c \in DOMAIN rows[i].text : rows[i].text[c] = v
WithText(q) == {i \in Row : Live(i) /\ (q.search # Absent => Contains(i, q.search))}

\* A filter on a column, if the query gives one.
With(c, v, S) == {i \in S : v \in {Absent, rows[i].cols[c]}}

\* orderBy the column by, then the id; skip and take.
Page(found, q) ==
  LET Before(i) == {j \in found : q.by[j] < q.by[i] \/ (q.by[j] = q.by[i] /\ j < i)}
      skip == (q.page - 1) * q.perPage
  IN {i \in found : Cardinality(Before(i)) \in skip .. skip + q.perPage - 1}

\* The lists, but for filters on roles, on a user's status and an order's dates.
getAllUsers(q)        == Page(WithText(q), q)
getAllCustomers(q)    == Page(With("status", q.status, WithText(q)), q)
getAllAssetUnits(q)   == Page(With("productId", q.product,
                                With("status", q.status, WithText(q))), q)
getAllRentalOrders(q) == Page(With("status", q.status, WithText(q)), q)
getAllStoreClosures(q) ==
  Page({i \in Row : /\ Live(i)
                    /\ q.to # Absent => rows[i].cols.startDate < q.to
                    /\ q.from # Absent => rows[i].cols.endDate > q.from}, q)

GetAll(q) ==
  IF table = "users" THEN getAllUsers(q)
  ELSE IF table = "customers" THEN getAllCustomers(q)
  ELSE IF table = "assets" THEN getAllAssetUnits(q)
  ELSE IF table = "orders" THEN getAllRentalOrders(q)
  ELSE getAllStoreClosures(q)

Codes == {rows[i].cols.code : i \in {j \in Row : Exists(j)}}
Greatest(S) == IF S = {} THEN 0 ELSE CHOOSE n \in S : \A m \in S : m <= n

\* Mutant: deleted rows are skipped.
LatestLiveCode ==
  Greatest({rows[i].cols.code : i \in {j \in Row : Live(j)}} \cap 1 .. CodeLimit)

\* The greatest code as text: a code with one digit more sorts before it.
LatestCode == Greatest(Codes \cap 1 .. CodeLimit)
NextCode == LatestCode + 1

-----------------------------------------------------------------------------
(* What the handlers do with rows and requests.                            *)

Goto(r, from, to) == pc[r] = from /\ pc' = [pc EXCEPT ![r] = to]

Keep(r, rec) == req' = [req EXCEPT ![r] = rec]

\* A refused call, or one that has nothing more to do.
End(r) == pc' = [pc EXCEPT ![r] = "idle"] /\ Keep(r, NoReq)
Refuse(r) == End(r) /\ UNCHANGED <<table, rows, heard>>

\* The last statement of request r gives live row i the phone v: others that had
\* found v free for another row have not looked again.
Written(r, i, v, to, rec) ==
  /\ pc' = [pc EXCEPT ![r] = to]
  /\ req' = [q \in Request |->
       IF q = r THEN rec
       ELSE IF table = "customers" /\ v \in Value /\ req[q].key = v /\ i \in {None} \cup (Row \ {req[q].row})
            THEN [req[q] EXCEPT !.clash = TRUE] ELSE req[q]]

\* What is used of a row that was read.
Seen(i) == [c \in (Searched[table] \cup {"startDate", "endDate"}) \cap Columns[table]
              |-> rows[i].cols[c]]

\* findExisting...: a live row, read with its columns.
Read(r, to) ==
  \E i \in Row :
    /\ Live(i)
    /\ Goto(r, "idle", to)
    /\ Keep(r, [NoReq EXCEPT !.row = i, !.read = Seen(i)])
    /\ UNCHANGED <<table, rows, heard>>

\* The columns after a statement that sets the given ones.
Set(cur, given) == [c \in DOMAIN cur |-> IF given[c] = Absent THEN cur[c]
                                                           ELSE given[c]]

\* Mutant: read ?? given.
MergedReadFirst(read, given) ==
  [c \in DOMAIN read |-> IF read[c] = None THEN given[c] ELSE read[c]]

\* given ?? read, of which the search text is made: a null keeps the old value there.
Merged(read, given) ==
  [c \in DOMAIN read |-> IF given[c] \in {Absent, None} THEN read[c] ELSE given[c]]
Given(fields) == [c \in Columns[table] |-> IF c \in DOMAIN fields THEN fields[c]
                                                                 ELSE Absent]
\* A column that was not given has changed since it was read.
Overtaken(r, given) ==
  \E c \in DOMAIN req[r].read :
    given[c] = Absent /\ req[r].read[c] # rows[req[r].row].cols[c]

\* update where id: text is what the search text is made of.
Update(r, given, text, omitted) ==
  LET old == rows[req[r].row] IN
  rows' = [rows EXCEPT ![req[r].row] =
    [old EXCEPT !.cols = Set(old.cols, given),
                !.text = Text(text, omitted), !.omitted = omitted,
                !.stale = Overtaken(r, given),
                !.twin = IF "phone" \in DOMAIN given /\ given.phone # Absent
                         THEN req[r].clash ELSE old.twin]]

\* The next row, with columns cols.
Insert(r, cols) ==
  \E i \in Row :
    /\ ~Exists(i) /\ \A j \in Row : j < i => Exists(j)
    /\ rows' = [rows EXCEPT ![i] = NewRow(cols, req[r].clash)]

Taken(c, v, i) == v \in Value /\ Holders(c, v) \ {i} # {}

Delete(S) == rows' = [i \in Row |-> IF i \in S /\ Exists(i)
                                    THEN [rows[i] EXCEPT !.deleted = TRUE] ELSE rows[i]]

-----------------------------------------------------------------------------
(* UsersService, AuthService.updateMe.                                     *)

CreateUserCheck(r) ==
  \E v \in Value :
    /\ table = "users" /\ Goto(r, "idle", "user.insert")
    /\ Holders("email", v) = {}
    /\ Keep(r, [NoReq EXCEPT !.key = v])
    /\ UNCHANGED <<table, rows, heard>>

CreateUser(r) ==
  /\ pc[r] = "user.insert"
  /\ IF Holders("email", req[r].key) # {} THEN Refuse(r)
     ELSE \E phone \in Value \cup {None} :
            /\ Insert(r, [email |-> req[r].key, phone |-> phone])
            /\ End(r) /\ UNCHANGED <<table, heard>>

UpdateUserRead(r) == table = "users" /\ Read(r, "user.check")

\* ensureEmailAvailable, if an address is given
UpdateUserCheck(r) ==
  /\ pc[r] = "user.check"
  /\ \E v \in Value \cup {Absent} :
       IF Taken("email", v, req[r].row) THEN Refuse(r)
       ELSE /\ Goto(r, "user.check", "user.write")
            /\ Keep(r, [req[r] EXCEPT !.key = v])
            /\ UNCHANGED <<table, rows, heard>>

UpdateUserWrite(r) ==
  /\ pc[r] = "user.write"
  /\ IF Taken("email", req[r].key, req[r].row) THEN Refuse(r)
     ELSE \E phone \in Value \cup {None, Absent} :
            LET given == Given([email |-> req[r].key, phone |-> phone])
            IN /\ Update(r, given, Merged(req[r].read, given), {})
               /\ End(r) /\ UNCHANGED <<table, heard>>

MeRead(r) == table = "users" /\ Read(r, "me.write")

\* The text is made without the e-mail address, and what was read is written.
MeWrite(r) ==
  /\ pc[r] = "me.write"
  /\ \E phone \in Value \cup {Absent} :
       LET next == Merged(req[r].read, Given([phone |-> phone]))
       IN Update(r, Given([phone |-> next.phone]), next, {"email"})
  /\ End(r) /\ UNCHANGED <<table, heard>>

\* seedDefaultAdmin: an upsert by e-mail address, its text without the phone.
SeedAdmin(r) ==
  /\ table = "users" /\ pc[r] = "idle"
  /\ \E v \in Value :
       \/ Holders("email", v) = {} /\ Insert(r, [email |-> v, phone |-> None])
       \/ \E i \in Holders("email", v) :
            rows' = [rows EXCEPT ![i] =
              [@ EXCEPT !.text = Text(rows[i].cols, {"phone"}),
                        !.stale = FALSE, !.omitted = {"phone"}]]
  /\ UNCHANGED <<table, pc, req, heard>>

\* deleteUsers, deleteCustomers, deleteStoreClosures
DeleteRows(r) ==
  \E S \in SUBSET Row \ {{}} :
    /\ table \in {"users", "customers", "closures"} /\ pc[r] = "idle"
    /\ Delete(S)
    /\ UNCHANGED <<table, pc, req, heard>>

-----------------------------------------------------------------------------
(* CustomersService.                                                       *)

\* Mutant: an update does not check.
PhoneTakenOnCreate(v, i) ==
  i = None /\ v \in Value /\ \E j \in Holders("phone", v) : Live(j)

PhoneTaken(v, i) == v \in Value /\ \E j \in Holders("phone", v) \ {i} : Live(j)

CreateCustomerCheck(r) ==
  \E v \in Value \cup {None} :
    /\ table = "customers" /\ Goto(r, "idle", "customer.code")
    /\ ~PhoneTaken(v, None)
    /\ Keep(r, [NoReq EXCEPT !.key = v])
    /\ UNCHANGED <<table, rows, heard>>

\* generateCustomerCode, generateOrderCode: the first statement of the transaction
CustomerCode(r) ==
  /\ Goto(r, "customer.code", "customer.insert")
  /\ Keep(r, [req[r] EXCEPT !.code = NextCode])
  /\ UNCHANGED <<table, rows, heard>>

CreateCustomer(r) ==
  /\ pc[r] = "customer.insert"
  /\ IF req[r].code \in Codes THEN Refuse(r)
     ELSE \E s \in Status :
            /\ Insert(r, [code |-> req[r].code, phone |-> req[r].key, status |-> s])
            /\ Written(r, None, req[r].key, "idle", NoReq)
            /\ UNCHANGED <<table, heard>>

UpdateCustomerRead(r) == table = "customers" /\ Read(r, "customer.check")

UpdateCustomerCheck(r) ==
  /\ pc[r] = "customer.check"
  /\ \E v \in Value \cup {None, Absent} :
       IF PhoneTaken(v, req[r].row) THEN Refuse(r)
       ELSE /\ Goto(r, "customer.check", "customer.write")
            /\ Keep(r, [req[r] EXCEPT !.key = v])
            /\ UNCHANGED <<table, rows, heard>>

CustomerStatusRead(r) == table = "customers" /\ Read(r, "customer.status")

CustomerStatusWrite(r) ==
  /\ pc[r] = "customer.status"
  /\ \E s \in Status : rows' = [rows EXCEPT ![req[r].row].cols.status = s]
  /\ End(r) /\ UNCHANGED <<table, heard>>

UpdateCustomerWrite(r) ==
  /\ pc[r] = "customer.write"
  /\ LET given == Given([phone |-> req[r].key])
     IN Update(r, given, Merged(req[r].read, given), {})
  /\ Written(r, req[r].row, req[r].key, "idle", NoReq)
  /\ UNCHANGED <<table, heard>>

-----------------------------------------------------------------------------
(* AssetUnitsService.                                                      *)

\* Units that were or are of products P were written by a request that knows of
\* the products known; it has yet to announce S.
Moved(r, P, known, S) ==
  /\ unheard' = unheard \cup P
  /\ moved' = moved \cup (P \ known)
  /\ pc' = [pc EXCEPT ![r] = "emit"]
  /\ Keep(r, [NoReq EXCEPT !.products = S])

CreateUnitCheck(r) ==
  \E v \in Value :
    /\ table = "assets" /\ Goto(r, "idle", "unit.insert")
    /\ ~Taken("serialNumber", v, None)
    /\ Keep(r, [NoReq EXCEPT !.key = v])
    /\ UNCHANGED <<table, rows, heard>>

CreateUnit(r) ==
  /\ pc[r] = "unit.insert"
  /\ IF Taken("serialNumber", req[r].key, None) THEN Refuse(r)
     ELSE \E p \in Product, s \in Status :
            /\ Insert(r, [serialNumber |-> req[r].key, productId |-> p, status |-> s])
            /\ Moved(r, {p}, {p}, {p}) /\ UNCHANGED table

UpdateUnitRead(r) == table = "assets" /\ Read(r, "unit.check")

UpdateUnitCheck(r) ==
  /\ pc[r] = "unit.check"
  /\ \E v \in Value \cup {Absent} :
       IF Taken("serialNumber", v, req[r].row) THEN Refuse(r)
       ELSE /\ Goto(r, "unit.check", "unit.write")
            /\ Keep(r, [req[r] EXCEPT !.key = v])
            /\ UNCHANGED <<table, rows, heard>>

UnitWritten(r, S) ==
  LET i   == req[r].row
      new == rows'[i].cols.productId
  IN Moved(r, {rows[i].cols.productId, new}, {req[r].read.productId, new}, S)

\* Mutant: the product the unit came from is not announced.
AnnouncedNewOnly(r) == {rows'[req[r].row].cols.productId}
Announced(r) == {req[r].read.productId, rows'[req[r].row].cols.productId}

UpdateUnitWrite(r) ==
  /\ pc[r] = "unit.write"
  /\ IF Taken("serialNumber", req[r].key, req[r].row) THEN Refuse(r)
     ELSE \E p \in Product \cup {Absent}, s \in Status \cup {Absent} :
            LET given == Given([serialNumber |-> req[r].key, productId |-> p,
                                status |-> s])
            IN /\ Update(r, given, Merged(req[r].read, given), {})
               /\ UnitWritten(r, Announced(r)) /\ UNCHANGED table

UnitStatusRead(r) == table = "assets" /\ Read(r, "unit.status")

UnitStatusWrite(r) ==
  /\ pc[r] = "unit.status"
  /\ \E s \in Status :
       LET given == Given([status |-> s])
       IN Update(r, given, Merged(req[r].read, given), {})
  /\ UnitWritten(r, {rows'[req[r].row].cols.productId}) /\ UNCHANGED table

DeleteUnitsRead(r) ==
  \E S \in SUBSET Row \ {{}} :
    /\ table = "assets" /\ Goto(r, "idle", "unit.delete")
    /\ Keep(r, [NoReq EXCEPT !.ids = S,
                !.products = {rows[i].cols.productId : i \in {j \in S : Live(j)}}])
    /\ UNCHANGED <<table, rows, heard>>

DeleteUnits(r) ==
  LET S == req[r].ids IN
  /\ pc[r] = "unit.delete"
  /\ Delete(S)
  /\ Moved(r, {rows[i].cols.productId : i \in {j \in S : Live(j)}},
           req[r].products, req[r].products)
  /\ UNCHANGED table

\* broadcastToAdmins
EmitAvailabilityChanged(r) ==
  /\ pc[r] = "emit"
  /\ unheard' = unheard \ req[r].products /\ moved' = moved \ req[r].products
  /\ End(r) /\ UNCHANGED <<table, rows>>

-----------------------------------------------------------------------------
(* StoreClosureService.                                                    *)

CreateClosure(r) ==
  \E s, e \in Date :
    /\ table = "closures" /\ pc[r] = "idle"
    /\ s < e
    /\ Insert(r, [startDate |-> s, endDate |-> e])
    /\ UNCHANGED <<table, pc, req, heard>>

UpdateClosureRead(r) == table = "closures" /\ Read(r, "closure.write")

\* validateClosureTime looks at the merged dates, the statement sets the given ones.
UpdateClosureWrite(r) ==
  /\ pc[r] = "closure.write"
  /\ \E s, e \in Date \cup {Absent} :
       LET given == Given([startDate |-> s, endDate |-> e])
           next == Merged(req[r].read, given)
       IN IF next.startDate >= next.endDate THEN Refuse(r)
          ELSE /\ Update(r, given, next, {})
               /\ End(r) /\ UNCHANGED <<table, heard>>

\* Mutant: bounds that touch overlap.
NoClosureTouches(s, e) ==
  ~\E i \in Row : Live(i) /\ rows[i].cols.startDate <= e /\ rows[i].cols.endDate >= s

\* assertNoClosureOverlap
NoClosureOverlap(s, e) ==
  ~\E i \in Row : Live(i) /\ rows[i].cols.startDate < e /\ rows[i].cols.endDate > s

-----------------------------------------------------------------------------
(* RentalOrdersService: the columns a search looks at.                     *)

OrderCode(r) ==
  /\ table = "orders" /\ Goto(r, "idle", "order.insert")
  /\ Keep(r, [NoReq EXCEPT !.code = NextCode])
  /\ UNCHANGED <<table, rows, heard>>

CreateOrder(r) ==
  /\ pc[r] = "order.insert"
  /\ IF req[r].code \in Codes THEN Refuse(r)
     ELSE \E note \in Value \cup {None} :
            /\ Insert(r, [code |-> req[r].code, note |-> note,
                          cancelReason |-> None, status |-> "DRAFT"])
            /\ End(r) /\ UNCHANGED <<table, heard>>

UpdateOrderRead(r) ==
  /\ table = "orders" /\ Read(r, "order.write")
  /\ rows[req'[r].row].cols.status = "DRAFT"

\* hasOwn: a note that is not given is written back as it was read; in a build
\* whose classes define their fields (target ES2023) it is found all the same, and
\* null is written.
UpdateOrderWrite(r) ==
  /\ pc[r] = "order.write"
  /\ \E note \in Value \cup {None, Absent} :
       LET next == [req[r].read EXCEPT !.note = IF note = Absent THEN @ ELSE note]
       IN Update(r, Given([note |-> next.note]), next, {})
  /\ End(r) /\ UNCHANGED <<table, heard>>

CancelOrderRead(r) ==
  /\ table = "orders" /\ Read(r, "order.cancel")
  /\ rows[req'[r].row].cols.status = "DRAFT"

CancelOrderWrite(r) ==
  /\ pc[r] = "order.cancel"
  /\ \E reason \in Value :
       LET given == Given([cancelReason |-> reason, status |-> "CANCELLED"])
       IN Update(r, given, Merged(req[r].read, given), {})
  /\ End(r) /\ UNCHANGED <<table, heard>>

\* Drafts and cancelled orders may both be deleted.
DeleteOrdersRead(r) ==
  \E S \in SUBSET Row \ {{}} :
    /\ table = "orders" /\ Goto(r, "idle", "order.delete")
    /\ Keep(r, [NoReq EXCEPT !.ids = S])
    /\ UNCHANGED <<table, rows, heard>>

DeleteOrders(r) ==
  /\ pc[r] = "order.delete"
  /\ Delete(req[r].ids)
  /\ End(r) /\ UNCHANGED <<table, heard>>

-----------------------------------------------------------------------------
Next ==
  \E r \in Request :
    \/ CreateUserCheck(r) \/ CreateUser(r) \/ UpdateUserRead(r)
    \/ UpdateUserCheck(r) \/ UpdateUserWrite(r) \/ MeRead(r) \/ MeWrite(r)
    \/ SeedAdmin(r) \/ DeleteRows(r)
    \/ CreateCustomerCheck(r) \/ CustomerCode(r) \/ CreateCustomer(r)
    \/ UpdateCustomerRead(r) \/ UpdateCustomerCheck(r) \/ UpdateCustomerWrite(r)
    \/ CustomerStatusRead(r) \/ CustomerStatusWrite(r)
    \/ CreateUnitCheck(r) \/ CreateUnit(r) \/ UpdateUnitRead(r)
    \/ UpdateUnitCheck(r) \/ UpdateUnitWrite(r) \/ UnitStatusRead(r)
    \/ UnitStatusWrite(r) \/ DeleteUnitsRead(r) \/ DeleteUnits(r)
    \/ EmitAvailabilityChanged(r)
    \/ CreateClosure(r) \/ UpdateClosureRead(r) \/ UpdateClosureWrite(r)
    \/ OrderCode(r) \/ CreateOrder(r) \/ UpdateOrderRead(r)
    \/ UpdateOrderWrite(r) \/ CancelOrderRead(r) \/ CancelOrderWrite(r)
    \/ DeleteOrdersRead(r) \/ DeleteOrders(r)

Spec == Init /\ [][Next]_vars

-----------------------------------------------------------------------------
(* Properties.                                                             *)

\* Queries for v that the columns of row i satisfy: every order to list by, with
\* ties that the id breaks, and every page of both sizes.
Finding(i, v) ==
  [search : {v}, from : {Absent}, to : {Absent},
   status : IF "status" \in Columns[table] THEN {Absent, rows[i].cols.status} ELSE {Absent},
   product : IF table = "assets" THEN {Absent, rows[i].cols.productId} ELSE {Absent},
   by : {[j \in Row |-> 0], [j \in Row |-> -j]},
   page : {1}, perPage : 1 .. 2]

OnOnePage(i, q) ==
  Cardinality({p \in 1 .. Cardinality(Row) : i \in GetAll([q EXCEPT !.page = p])}) = 1

\* A live row is found by every value it is searched by, on exactly one page of
\* the list, under the filters it satisfies: the text kept beside the columns
\* follows them through every partial update.  Not promised: a row whose last
\* text was made of a read that another request had overtaken, and what
\* updateMe (the e-mail address) and the seeder (the phone) leave out of it.
SearchFindsRow ==
  \A i \in Row : Live(i) /\ ~rows[i].stale =>
    \A c \in Searched[table] :
      \/ rows[i].cols[c] = None
      \/ c \in rows[i].omitted
      \/ \A q \in Finding(i, rows[i].cols[c]) : OnOnePage(i, q)

\* What the schema and the conventions promise: the e-mail address of a user is
\* always among what the account is found by.
EmailsAreSearchable ==
  table = "users" =>
    \A i \in Row : Live(i) /\ ~rows[i].stale => Contains(i, rows[i].cols.email)

\* Two live customers have one phone number only if two requests both found it
\* free before either wrote it.
PhonesAreUnshared ==
  table = "customers" =>
    \A i, j \in Row :
      i # j /\ Live(i) /\ Live(j) /\ rows[i].cols.phone = rows[j].cols.phone =>
        rows[i].cols.phone = None \/ rows[i].twin \/ rows[j].twin

\* As long as codes have as many digits as they are padded to, the next code is
\* free, whichever rows were deleted: a create is refused only for a code that
\* another create took since.
CodesKeepComing ==
  "code" \in Columns[table] /\ LatestCode < CodeLimit => NextCode \notin Codes

\* The check that refuses a rental and the list of closures agree with each other
\* and with the calendar: half-open windows have an instant in common.  Not
\* promised while a closure is live whose dates two updates wrote, one each.
ClosureBlocksItsDays ==
  table = "closures" /\ (\A i \in Row : Live(i) => ~rows[i].stale) =>
    \A s, e \in Date : s < e =>
      LET shared == {i \in Row : Live(i) /\ \E t \in s .. e - 1 :
                       rows[i].cols.startDate <= t /\ t < rows[i].cols.endDate}
          q == [search |-> Absent, status |-> Absent, product |-> Absent,
                from |-> s, to |-> e, by |-> [j \in Row |-> 0],
                page |-> 1, perPage |-> Cardinality(Row)]
      IN /\ NoClosureOverlap(s, e) <=> shared = {}
         /\ shared = getAllStoreClosures(q)

\* The clients have heard of every product whose units changed, or a request is
\* about to tell them, or the unit had been moved since that request read it.
UnitsAnnounced ==
  unheard \ moved \subseteq
    UNION {req[r].products : r \in {q \in Request : pc[q] = "emit"}}
=============================================================================
