-------------------------- MODULE DirectoryProofs --------------------------
(***************************************************************************)
(* Proofs about Directory: what a request remembers of a row, the text kept *)
(* beside the columns, shared phones, announcements, codes and closures.   *)
(***************************************************************************)
EXTENDS Directory, FiniteSetTheorems, WellFoundedInduction, TLAPS

(* What a request remembers, and where it is in which table.               *)

UserLabel     == {"user.insert", "user.check", "user.write", "me.write"}
CustomerLabel == {"customer.code", "customer.insert", "customer.check",
                  "customer.write", "customer.status"}
UnitLabel     == {"unit.insert", "unit.check", "unit.write", "unit.status",
                  "unit.delete", "emit"}
ClosureLabel  == {"closure.write"}
OrderLabel    == {"order.insert", "order.write", "order.cancel", "order.delete"}
Label == {"idle"} \cup UserLabel \cup CustomerLabel \cup UnitLabel
         \cup ClosureLabel \cup OrderLabel

\* Between the read of a row and its write.
Holding == {"user.check", "user.write", "me.write", "customer.check", "customer.write",
            "customer.status", "unit.check", "unit.write", "unit.status",
            "closure.write", "order.write", "order.cancel"}

RowRec   == RowOf(table)
ReadCols == (Searched[table] \cup {"startDate", "endDate"}) \cap Columns[table]
\* The dates of a closure are dates.
Reads    == {d \in [ReadCols -> Cell] :
               table = "closures" => d.startDate \in Nat /\ d.endDate \in Nat}
ReqRec   == [row : Row \cup {None}, ids : SUBSET Row, read : Reads \cup {None},
             key : Value \cup {None, Absent}, code : Nat, clash : BOOLEAN,
             products : SUBSET Cell]

Fits(l) ==
  /\ l \in UserLabel => table = "users"
  /\ l \in CustomerLabel => table = "customers"
  /\ l \in UnitLabel => table = "assets"
  /\ l \in ClosureLabel => table = "closures"
  /\ l \in OrderLabel => table = "orders"

Working(r) ==
  /\ Fits(pc[r])
  /\ pc[r] \in Holding =>
       req[r].row \in Row /\ Exists(req[r].row) /\ req[r].read \in Reads

\* The text has what the columns have, a closure ends after it begins, unless the
\* last write was of a read that had been overtaken.
Follows(x) ==
  /\ ~x.stale =>
       \A c \in Searched[table] \ x.omitted : x.cols[c] = None \/ x.text[c] = x.cols[c]
  /\ table = "closures" =>
       /\ x.cols.startDate \in Nat /\ x.cols.endDate \in Nat
       /\ ~x.stale => x.cols.startDate < x.cols.endDate

RowsInv ==
  /\ table \in Table
  /\ rows \in [Row -> RowRec \cup {None}]
  /\ \A i \in Row : Exists(i) => Follows(rows[i])
  /\ pc \in [Request -> Label]
  /\ req \in [Request -> ReqRec]
  /\ \A r \in Request : Working(r)

\* Who found a phone free knows when another has written it since.
Checked(r) ==
  pc[r] \in {"customer.code", "customer.insert", "customer.write"} =>
    /\ pc[r] # "customer.write" => req[r].row = None /\ req[r].key # Absent
    /\ req[r].key \in Value /\ ~req[r].clash =>
         \A i \in Row \ {req[r].row} : Live(i) => rows[i].cols.phone # req[r].key

PhonesInv ==
  /\ PhonesAreUnshared
  /\ table = "customers" => \A r \in Request : Checked(r)

DirectoryInv == RowsInv /\ PhonesInv /\ UnitsAnnounced

-----------------------------------------------------------------------------
(* Facts about the tables.                                                 *)

LEMMA UserCols ==
  ASSUME table = "users"
  PROVE  /\ Columns[table] = {"email", "phone"} /\ Searched[table] = {"email", "phone"}
         /\ ReadCols = {"email", "phone"}
  BY DEF Columns, Searched, ReadCols

LEMMA CustomerCols ==
  ASSUME table = "customers"
  PROVE  /\ Columns[table] = {"code", "phone", "status"} /\ Searched[table] = {"code", "phone"}
         /\ ReadCols = {"code", "phone"}
  BY DEF Columns, Searched, ReadCols

LEMMA UnitCols ==
  ASSUME table = "assets"
  PROVE  /\ Columns[table] = {"serialNumber", "productId", "status"}
         /\ Searched[table] = {"serialNumber", "productId", "status"}
         /\ ReadCols = {"serialNumber", "productId", "status"}
  BY DEF Columns, Searched, ReadCols

LEMMA ClosureCols ==
  ASSUME table = "closures"
  PROVE  /\ Columns[table] = {"startDate", "endDate"} /\ Searched[table] = {}
         /\ ReadCols = {"startDate", "endDate"}
  BY DEF Columns, Searched, ReadCols

LEMMA OrderCols ==
  ASSUME table = "orders"
  PROVE  /\ Columns[table] = {"code", "note", "cancelReason", "status"}
         /\ Searched[table] = {"code", "note", "cancelReason"}
         /\ ReadCols = {"code", "note", "cancelReason"}
  BY DEF Columns, Searched, ReadCols

LEMMA ColsNested ==
  ASSUME table \in Table
  PROVE  /\ table \in {"users", "customers", "assets", "closures", "orders"}
         /\ Searched[table] \subseteq ReadCols /\ ReadCols \subseteq Columns[table]
         /\ table = "closures" => {"startDate", "endDate"} \subseteq ReadCols
  BY UserCols, CustomerCols, UnitCols, ClosureCols, OrderCols, DirectoryAssumption

\* A set of numbers up to a limit has a greatest.
LEMMA GreatestIsMax ==
  ASSUME NEW m \in Nat, NEW S \in SUBSET (1 .. m)
  PROVE  /\ Greatest(S) \in Nat
         /\ \A n \in S : n <= Greatest(S)
         /\ S # {} => Greatest(S) \in S
<1>1. CASE S = {}
  BY <1>1 DEF Greatest
<1>2. CASE S # {}
  <2> DEFINE T == {m - n : n \in S}
             less == OpToRel(<, Nat)
  <2>1. T \subseteq Nat /\ T # {}
    BY <1>2, \A n \in 1 .. m : m - n \in Nat
  <2>2. PICK k \in T : \A l \in T : <<l, k>> \notin less
    <3> HIDE DEF T
    <3>1. IsWellFoundedOn(less, Nat)
      BY NatLessThanWellFounded
    <3> HIDE DEF less
    <3> QED
      BY <2>1, <3>1, WFMin
  <2>3. PICK top \in S : k = m - top
    OBVIOUS
  <2>4. ASSUME NEW n \in S PROVE n <= top
    <3>1. m - n \in T
      OBVIOUS
    <3>2. <<m - n, k>> \notin less /\ m - n \in Nat /\ k \in Nat
      BY <2>1, <2>2, <3>1
    <3>3. ~(m - n < k)
      BY <3>2 DEF OpToRel
    <3> QED
      BY <2>3, <3>3
  <2>5. Greatest(S) \in S /\ \A l \in S : l <= Greatest(S)
    BY <1>2, <2>4, Zenon DEF Greatest
  <2>6. Greatest(S) \in 1 .. m
    BY ONLY <2>5, S \in SUBSET (1 .. m)
  <2>7. Greatest(S) \in Nat
    BY ONLY <2>6, m \in Nat
  <2> QED
    BY ONLY <2>5, <2>7
<1> QED
  BY <1>1, <1>2

LEMMA NextCodeIsFree ==
  /\ NextCode \in Nat
  /\ LatestCode < CodeLimit => NextCode \notin Codes
<1>1. CodeLimit \in Nat
  BY DirectoryAssumption
<1>2. Codes \cap 1 .. CodeLimit \in SUBSET (1 .. CodeLimit)
  OBVIOUS
<1>3. /\ LatestCode \in Nat
      /\ \A n \in Codes \cap 1 .. CodeLimit : n <= LatestCode
  BY <1>1, <1>2, GreatestIsMax DEF LatestCode
<1>4. ASSUME LatestCode < CodeLimit, LatestCode + 1 \in Codes PROVE FALSE
  <2>1. LatestCode + 1 \in Codes \cap 1 .. CodeLimit
    BY <1>1, <1>3, <1>4
  <2> QED
    BY <1>3, <2>1
<1> QED
  BY <1>3, <1>4 DEF NextCode

-----------------------------------------------------------------------------
(* A step in the frame of all tables: types, texts, and who holds a row.   *)

LEMMA RowsStep ==
  ASSUME RowsInv, NEW r \in Request, NEW l \in Label,
         table' = table, pc' = [pc EXCEPT ![r] = l],
         rows' \in [Row -> RowRec \cup {None}],
         \A i \in Row : Exists(i) => Exists(i)',
         \A i \in Row : Exists(i)' => rows'[i] = rows[i] \/ Follows(rows[i])',
         req' \in [Request -> ReqRec],
         \A q \in Request \ {r} : req'[q].row = req[q].row /\ req'[q].read = req[q].read,
         Working(r)'
  PROVE  RowsInv'
<1>1. /\ Row' = Row /\ RowRec' = RowRec /\ ReqRec' = ReqRec /\ Reads' = Reads
  BY DEF Row, RowRec, RowOf, ReqRec, Reads, ReadCols
<1>2. pc' \in [Request -> Label]
  BY DEF RowsInv
<1>3. ASSUME NEW q \in Request PROVE Working(q)'
  <2>1. CASE q = r
    BY <2>1
  <2>2. CASE q # r
    <3>1. /\ pc'[q] = pc[q] /\ Working(q)
          /\ req'[q].row = req[q].row /\ req'[q].read = req[q].read
      BY <2>2 DEF RowsInv
    <3> QED
      BY <1>1, <3>1 DEF Working, Fits
  <2> QED
    BY <2>1, <2>2
<1>4. ASSUME NEW i \in Row, Exists(i)' PROVE Follows(rows[i])'
  <2>1. CASE rows'[i] = rows[i]
    <3>1. Follows(rows[i])
      BY <1>4, <2>1 DEF RowsInv, Exists
    <3> QED
      BY <2>1, <3>1 DEF Follows
  <2>2. CASE Follows(rows[i])'
    BY <2>2
  <2> QED
    BY <1>4, <2>1, <2>2
<1> QED
  BY <1>1, <1>2, <1>3, <1>4 DEF RowsInv

\* A request reads or checks, and remembers.
LEMMA KeepStep ==
  ASSUME RowsInv, NEW r \in Request, NEW l \in Label, NEW rec \in ReqRec,
         UNCHANGED <<table, rows>>, pc' = [pc EXCEPT ![r] = l], Keep(r, rec), Fits(l),
         l \in Holding => rec.row \in Row /\ Exists(rec.row) /\ rec.read \in Reads
  PROVE  RowsInv'
<1>1. req \in [Request -> ReqRec] /\ pc \in [Request -> Label]
  BY DEF RowsInv
<1>2. req' = [req EXCEPT ![r] = rec]
  BY DEF Keep
<1>3. /\ req' \in [Request -> ReqRec] /\ req'[r] = rec /\ pc'[r] = l
      /\ \A q \in Request \ {r} : req'[q] = req[q]
  BY <1>1, <1>2
<1>4. Row' = Row /\ Reads' = Reads /\ (Fits(pc[r])' <=> Fits(l))
  BY <1>3 DEF Row, Reads, ReadCols, Fits
<1>5. Working(r)'
  BY <1>3, <1>4 DEF Working, Exists
<1>6. rows' \in [Row -> RowRec \cup {None}]
  BY DEF RowsInv
<1> QED
  BY <1>3, <1>5, <1>6, RowsStep DEF Exists

LEMMA NoReqIsReq == NoReq \in ReqRec
  BY DEF NoReq, ReqRec

LEMMA FitsIdle == Fits("idle") /\ "idle" \in Label /\ "idle" \notin Holding
  BY DEF Fits, Label, Holding, UserLabel, CustomerLabel, UnitLabel, ClosureLabel, OrderLabel

LEMMA RefuseStep ==
  ASSUME RowsInv, NEW r \in Request, Refuse(r) PROVE RowsInv'
  BY KeepStep, NoReqIsReq, FitsIdle DEF Refuse, End

\* What is read of a row is typed.
LEMMA SeenIsRead ==
  ASSUME RowsInv, NEW i \in Row, Exists(i)
  PROVE  /\ rows[i] \in RowRec /\ Follows(rows[i]) /\ Seen(i) \in Reads
         /\ rows[i].cols \in [Columns[table] -> Cell]
         /\ rows[i].text \in [Searched[table] -> Cell]
<1>1. rows[i] \in RowRec /\ Follows(rows[i])
  BY DEF RowsInv, Exists
<1>2. rows[i].cols \in [Columns[table] -> Cell] /\ rows[i].text \in [Searched[table] -> Cell]
  BY <1>1 DEF RowRec, RowOf
<1>3. Seen(i) \in Reads
  <2>1. Seen(i) \in [ReadCols -> Cell] /\ \A c \in ReadCols : Seen(i)[c] = rows[i].cols[c]
    BY <1>2 DEF Seen, ReadCols
  <2>2. table = "closures" => Seen(i).startDate \in Nat /\ Seen(i).endDate \in Nat
    BY <1>1, <2>1, ClosureCols DEF Follows
  <2> QED
    BY <2>1, <2>2 DEF Reads
<1> QED
  BY <1>1, <1>2, <1>3

LEMMA SetRowAndRead ==
  ASSUME NEW i \in Row, NEW d \in Reads
  PROVE  LET rec == [NoReq EXCEPT !.row = i, !.read = d]
         IN rec \in ReqRec /\ rec.row = i /\ rec.read = d
<1>1. ASSUME NEW q \in ReqRec
      PROVE  LET rec == [q EXCEPT !.row = i, !.read = d]
             IN rec \in ReqRec /\ rec.row = i /\ rec.read = d
  BY DEF ReqRec
<1> QED
  BY <1>1, NoReqIsReq

LEMMA ReadStep ==
  ASSUME RowsInv, NEW r \in Request, NEW to \in Label, Fits(to), Read(r, to)
  PROVE  RowsInv'
<1>1. PICK i \in Row :
        /\ Live(i) /\ pc' = [pc EXCEPT ![r] = to]
        /\ Keep(r, [NoReq EXCEPT !.row = i, !.read = Seen(i)])
        /\ UNCHANGED <<table, rows>>
  BY DEF Read, Goto
<1>2. Exists(i) /\ Seen(i) \in Reads
  BY <1>1, SeenIsRead DEF Live
<1> DEFINE rec == [NoReq EXCEPT !.row = i, !.read = Seen(i)]
<1>3. rec \in ReqRec /\ rec.row = i /\ rec.read = Seen(i)
  BY <1>2, SetRowAndRead
<1> HIDE DEF rec
<1> QED
  BY <1>1, <1>2, <1>3, KeepStep DEF rec

\* One row is written, by a request that holds none afterwards.
LEMMA WriteStep ==
  ASSUME RowsInv, NEW r \in Request, NEW l \in Label \ Holding, Fits(l),
         NEW i \in Row, NEW x \in RowRec, Follows(x),
         table' = table, rows' = [rows EXCEPT ![i] = x], pc' = [pc EXCEPT ![r] = l],
         req' \in [Request -> ReqRec],
         \A q \in Request \ {r} : req'[q].row = req[q].row /\ req'[q].read = req[q].read
  PROVE  RowsInv'
<1>1. table \in Table /\ rows \in [Row -> RowRec \cup {None}] /\ pc \in [Request -> Label]
  BY DEF RowsInv
<1>2. x # None
  BY <1>1, NoRowAssumption DEF RowRec
<1>3. /\ rows' \in [Row -> RowRec \cup {None}] /\ rows'[i] = x
      /\ \A j \in Row \ {i} : rows'[j] = rows[j]
  BY <1>1
<1>4. \A j \in Row : Exists(j) => Exists(j)'
  BY <1>2, <1>3 DEF Exists
<1>5. Follows(rows[i])'
  BY <1>3 DEF Follows
<1>6. pc'[r] = l
  BY <1>1
<1>7. Working(r)'
  BY <1>6 DEF Working, Fits
<1> QED
  BY <1>3, <1>4, <1>5, <1>7, RowsStep

\* The columns of a statement: given, or null, or left as they are.
Statement == {g \in [Columns[table] -> Cell] :
                table = "closures" => {g.startDate, g.endDate} \subseteq Nat \cup {None, Absent}}

LEMMA GivenIsStatement ==
  ASSUME table # "closures", NEW S \in SUBSET Columns[table], NEW fields \in [S -> Cell]
  PROVE  /\ Given(fields) \in Statement
         /\ \A c \in Columns[table] :
              Given(fields)[c] = IF c \in S THEN fields[c] ELSE Absent
  BY DEF Given, Statement, Cell

\* What the next text is made of has, for every column that may be searched, what
\* the columns will have, if nothing that was not given changed since the read.
LEMMA MergedFollows ==
  ASSUME RowsInv, NEW r \in Request, pc[r] \in Holding, NEW given \in Statement
  PROVE  LET new  == Set(rows[req[r].row].cols, given)
             next == Merged(req[r].read, given)
         IN /\ next \in Reads
            /\ ~Overtaken(r, given) =>
                 \A c \in ReadCols : new[c] = None \/ next[c] = new[c]
<1> DEFINE i == req[r].row
           cols == rows[i].cols
<1>1. i \in Row /\ Exists(i) /\ req[r].read \in Reads /\ table \in Table
  BY DEF RowsInv, Working
<1>2. cols \in [Columns[table] -> Cell]
  BY <1>1, SeenIsRead
<1>3. ReadCols \subseteq Columns[table]
  BY <1>1, ColsNested
<1>4. Merged(req[r].read, given) \in Reads
  <2> DEFINE next == Merged(req[r].read, given)
  <2>1. next \in [ReadCols -> Cell]
    BY <1>1, <1>3 DEF Merged, Reads, Statement
  <2>2. table = "closures" => next.startDate \in Nat /\ next.endDate \in Nat
    BY <1>1, ClosureCols DEF Merged, Reads, Statement
  <2> QED
    BY <2>1, <2>2 DEF Reads
<1>5. ASSUME ~Overtaken(r, given), NEW c \in ReadCols
      PROVE  Set(cols, given)[c] = None \/ Merged(req[r].read, given)[c] = Set(cols, given)[c]
  <2>1. given[c] = Absent => req[r].read[c] = cols[c]
    BY <1>1, <1>5 DEF Overtaken, Reads
  <2>2. Set(cols, given)[c] = IF given[c] = Absent THEN cols[c] ELSE given[c]
    BY <1>2, <1>3 DEF Set
  <2>3. Merged(req[r].read, given)[c] =
          IF given[c] \in {Absent, None} THEN req[r].read[c] ELSE given[c]
    BY <1>1 DEF Merged, Reads
  <2> QED
    BY <2>1, <2>2, <2>3
<1> QED
  BY <1>4, <1>5

RowSet(x, a, b, o, s, t) ==
  [x EXCEPT !.cols = a, !.text = b, !.omitted = o, !.stale = s, !.twin = t]

LEMMA SetRow ==
  ASSUME NEW x \in RowRec, NEW a \in [Columns[table] -> Cell], NEW b \in [Searched[table] -> Cell],
         NEW o \in SUBSET {"email", "phone"}, NEW s \in BOOLEAN, NEW t \in BOOLEAN
  PROVE  LET y == RowSet(x, a, b, o, s, t)
         IN /\ y \in RowRec /\ y.cols = a /\ y.text = b /\ y.omitted = o /\ y.stale = s
            /\ y.twin = t /\ y.deleted = x.deleted
  BY DEF RowRec, RowOf, RowSet

\* A row after a statement.
Written1(r, given, x) ==
  LET i == req[r].row IN
  /\ x \in RowRec /\ rows' = [rows EXCEPT ![i] = x]
  /\ x.cols = Set(rows[i].cols, given) /\ x.deleted = rows[i].deleted
  /\ x.twin = IF "phone" \in DOMAIN given /\ given.phone # Absent THEN req[r].clash
              ELSE rows[i].twin

LEMMA UpdateWrites ==
  ASSUME RowsInv, NEW r \in Request, pc[r] \in Holding, NEW given \in Statement,
         NEW text \in Reads, NEW omitted \in SUBSET {"email", "phone"},
         LET new == Set(rows[req[r].row].cols, given)
         IN /\ ~Overtaken(r, given) =>
                 \A c \in Searched[table] \ omitted : new[c] = None \/ text[c] = new[c]
            /\ table = "closures" =>
                 /\ new.startDate \in Nat /\ new.endDate \in Nat
                 /\ ~Overtaken(r, given) => new.startDate < new.endDate,
         Update(r, given, text, omitted)
  PROVE  \E x : Written1(r, given, x) /\ Follows(x)
<1> DEFINE i == req[r].row
           a == Set(rows[i].cols, given)
           b == Text(text, omitted)
           s == Overtaken(r, given)
           t == IF "phone" \in DOMAIN given /\ given.phone # Absent
                THEN req[r].clash ELSE rows[i].twin
           x == RowSet(rows[i], a, b, omitted, s, t)
<1>1. i \in Row /\ Exists(i) /\ table \in Table /\ req \in [Request -> ReqRec]
      /\ rows \in [Row -> RowRec \cup {None}]
  BY DEF RowsInv, Working
<1>2. rows[i] \in RowRec /\ rows[i].cols \in [Columns[table] -> Cell]
  BY <1>1, SeenIsRead
<1>3. a \in [Columns[table] -> Cell]
  BY <1>2 DEF Set, Statement
<1>4. Searched[table] \subseteq ReadCols
  BY <1>1, ColsNested
<1>5. b \in [Searched[table] -> Cell]
      /\ \A c \in Searched[table] \ omitted : b[c] = text[c]
  BY <1>4 DEF Text, Reads, Cell
<1>6. s \in BOOLEAN /\ t \in BOOLEAN
  BY <1>1, <1>2 DEF Overtaken, ReqRec, RowRec, RowOf
<1>7. rows' = [rows EXCEPT ![i] = x]
  BY <1>1 DEF Update, RowSet
<1> HIDE DEF a, b, s, t
<1>8. x \in RowRec /\ x.cols = a /\ x.text = b /\ x.omitted = omitted /\ x.stale = s
      /\ x.twin = t /\ x.deleted = rows[i].deleted
  BY <1>2, <1>3, <1>5, <1>6, SetRow
<1> HIDE DEF x
<1>9. Follows(x)
  BY <1>5, <1>8 DEF Follows, a, s
<1>10. Written1(r, given, x)
  BY <1>7, <1>8 DEF Written1, a, t
<1> QED
  BY <1>9, <1>10

\* A new row, with its text.
LEMMA InsertWrites ==
  ASSUME RowsInv, NEW r \in Request, NEW cols \in [Columns[table] -> Cell],
         table = "closures" =>
           /\ cols.startDate \in Nat /\ cols.endDate \in Nat /\ cols.startDate < cols.endDate,
         Insert(r, cols)
  PROVE  \E i \in Row, x \in RowRec :
           /\ ~Exists(i) /\ rows' = [rows EXCEPT ![i] = x] /\ Follows(x)
           /\ x.cols = cols /\ x.twin = req[r].clash
<1> DEFINE x == NewRow(cols, req[r].clash)
<1>1. req \in [Request -> ReqRec] /\ table \in Table
  BY DEF RowsInv
<1>2. Searched[table] \subseteq Columns[table]
  BY <1>1, ColsNested
<1>3. Text(cols, {}) \in [Searched[table] -> Cell]
      /\ \A c \in Searched[table] : Text(cols, {})[c] = cols[c]
  BY <1>2 DEF Text
<1>4. req[r].clash \in BOOLEAN
  BY <1>1 DEF ReqRec
<1>5. x \in RowRec
  BY <1>3, <1>4 DEF NewRow, RowRec, RowOf
<1>6. x.cols = cols /\ x.twin = req[r].clash /\ x.text = Text(cols, {})
  BY DEF NewRow
<1> HIDE DEF x
<1>7. Follows(x)
  BY <1>3, <1>6 DEF Follows
<1>8. PICK i \in Row : ~Exists(i) /\ rows' = [rows EXCEPT ![i] = x]
  BY DEF Insert, x
<1> QED
  BY <1>5, <1>6, <1>7, <1>8

\* Deleting rows leaves what they hold.
\* A row that is as it was, or is now deleted.
Stays(i) ==
  /\ Exists(i) <=> Exists(i)'
  /\ Exists(i) => /\ rows'[i].cols = rows[i].cols /\ rows'[i].text = rows[i].text
                  /\ rows'[i].stale = rows[i].stale /\ rows'[i].twin = rows[i].twin
                  /\ rows'[i].omitted = rows[i].omitted
                  /\ rows[i].deleted => rows'[i].deleted

LEMMA DeleteWrites ==
  ASSUME RowsInv, NEW S \in SUBSET Row, Delete(S)
  PROVE  rows' \in [Row -> RowRec \cup {None}] /\ \A i \in Row : Stays(i)
<1>1. rows \in [Row -> RowRec \cup {None}] /\ table \in Table
  BY DEF RowsInv
<1>2. rows' = [i \in Row |-> IF i \in S /\ Exists(i)
                             THEN [rows[i] EXCEPT !.deleted = TRUE] ELSE rows[i]]
  BY DEF Delete
<1>3. None \notin RowRec
  BY <1>1, NoRowAssumption DEF RowRec
<1>4. ASSUME NEW i \in Row PROVE rows'[i] \in RowRec \cup {None} /\ Stays(i)
  <2>1. CASE i \in S /\ Exists(i)
    <3> DEFINE x == [rows[i] EXCEPT !.deleted = TRUE]
    <3>1. rows[i] \in RowRec
      BY <1>1, <2>1 DEF Exists
    <3>2. /\ x \in RowRec
          /\ x.cols = rows[i].cols /\ x.text = rows[i].text
          /\ x.stale = rows[i].stale /\ x.twin = rows[i].twin
          /\ x.omitted = rows[i].omitted /\ x.deleted
      BY <3>1 DEF RowRec, RowOf
    <3>3. rows'[i] = x
      BY <1>2, <2>1
    <3> HIDE DEF x
    <3> QED
      BY <1>3, <2>1, <3>2, <3>3 DEF Exists, Stays
  <2>2. CASE ~(i \in S /\ Exists(i))
    <3>1. rows'[i] = rows[i]
      BY <1>2, <2>2
    <3> QED
      BY <1>1, <3>1 DEF Exists, Stays
  <2> QED
    BY <2>1, <2>2
<1>5. rows' = [i \in Row |-> rows'[i]]
  BY <1>2
<1>6. rows' \in [Row -> RowRec \cup {None}]
  BY <1>4, <1>5
<1> QED
  BY <1>4, <1>6

-----------------------------------------------------------------------------
(* The rows after each action.                                             *)

LEMMA InitRows ==
  ASSUME Init PROVE RowsInv
<1>1. pc \in [Request -> Label] /\ req \in [Request -> ReqRec]
  BY NoReqIsReq, FitsIdle DEF Init
<1>2. \A r \in Request : Working(r)
  BY FitsIdle DEF Working, Init
<1>3. rows \in [Row -> RowRec \cup {None}] /\ \A i \in Row : ~Exists(i)
  BY DEF Init, Exists
<1> QED
  BY <1>1, <1>2, <1>3 DEF RowsInv, Init

LEMMA FitsHere ==
  ASSUME NEW l, \/ table = "users" /\ l \in UserLabel
                \/ table = "customers" /\ l \in CustomerLabel
                \/ table = "assets" /\ l \in UnitLabel
                \/ table = "closures" /\ l \in ClosureLabel
                \/ table = "orders" /\ l \in OrderLabel
  PROVE  Fits(l) /\ l \in Label
  BY DEF Fits, Label, UserLabel, CustomerLabel, UnitLabel, ClosureLabel, OrderLabel

LEMMA SetReq ==
  ASSUME NEW q \in ReqRec, NEW v \in Value \cup {None, Absent}, NEW n \in Nat,
         NEW S \in SUBSET Row, NEW P \in SUBSET Cell
  PROVE  /\ [q EXCEPT !.key = v] \in ReqRec /\ [q EXCEPT !.key = v].key = v
         /\ [q EXCEPT !.key = v].row = q.row /\ [q EXCEPT !.key = v].read = q.read
         /\ [q EXCEPT !.key = v].clash = q.clash
         /\ [q EXCEPT !.code = n] \in ReqRec /\ [q EXCEPT !.code = n].key = q.key
         /\ [q EXCEPT !.code = n].row = q.row /\ [q EXCEPT !.code = n].clash = q.clash
         /\ [q EXCEPT !.ids = S] \in ReqRec
         /\ [q EXCEPT !.ids = S, !.products = P] \in ReqRec
         /\ [q EXCEPT !.products = P] \in ReqRec /\ [q EXCEPT !.products = P].products = P
  BY DEF ReqRec

\* The nine reads of a row.
LEMMA ReadsKeepRows ==
  ASSUME RowsInv, NEW r \in Request,
         \/ UpdateUserRead(r) \/ MeRead(r)
         \/ UpdateCustomerRead(r) \/ CustomerStatusRead(r)
         \/ UpdateUnitRead(r) \/ UnitStatusRead(r)
         \/ UpdateClosureRead(r) \/ UpdateOrderRead(r) \/ CancelOrderRead(r)
  PROVE  RowsInv'
<1>1. PICK to : Read(r, to) /\
                \/ table = "users" /\ to \in UserLabel
                \/ table = "customers" /\ to \in CustomerLabel
                \/ table = "assets" /\ to \in UnitLabel
                \/ table = "closures" /\ to \in ClosureLabel
                \/ table = "orders" /\ to \in OrderLabel
  BY DEF UpdateUserRead, MeRead, UpdateCustomerRead, CustomerStatusRead, UpdateUnitRead,
         UnitStatusRead, UpdateClosureRead, UpdateOrderRead, CancelOrderRead,
         UserLabel, CustomerLabel, UnitLabel, ClosureLabel, OrderLabel
<1> QED
  BY <1>1, ReadStep, FitsHere

\* A value is found free for a row that is held.
LEMMA CheckStep ==
  ASSUME RowsInv, NEW r \in Request, NEW to \in Label, Fits(to), pc[r] \in Holding,
         NEW v \in Value \cup {None, Absent},
         pc' = [pc EXCEPT ![r] = to], Keep(r, [req[r] EXCEPT !.key = v]),
         UNCHANGED <<table, rows>>
  PROVE  RowsInv'
<1>1. req[r] \in ReqRec /\ req[r].row \in Row /\ Exists(req[r].row) /\ req[r].read \in Reads
  BY DEF RowsInv, Working
<1> DEFINE rec == [req[r] EXCEPT !.key = v]
<1>2. rec \in ReqRec /\ rec.row = req[r].row /\ rec.read = req[r].read
  BY <1>1, SetReq
<1> HIDE DEF rec
<1> QED
  BY <1>1, <1>2, KeepStep DEF rec

LEMMA ChecksKeepRows ==
  ASSUME RowsInv, NEW r \in Request,
         UpdateUserCheck(r) \/ UpdateCustomerCheck(r) \/ UpdateUnitCheck(r)
  PROVE  RowsInv'
<1>1. CASE Refuse(r)
  BY <1>1, RefuseStep
<1>2. CASE ~Refuse(r)
  <2>1. PICK to \in {"user.write", "customer.write", "unit.write"},
             v \in Value \cup {None, Absent} :
          /\ pc[r] \in Holding
          /\ \/ to \in UserLabel /\ pc[r] \in UserLabel
             \/ to \in CustomerLabel /\ pc[r] \in CustomerLabel
             \/ to \in UnitLabel /\ pc[r] \in UnitLabel
          /\ pc' = [pc EXCEPT ![r] = to] /\ Keep(r, [req[r] EXCEPT !.key = v])
          /\ UNCHANGED <<table, rows>>
    BY <1>2 DEF UpdateUserCheck, UpdateCustomerCheck, UpdateUnitCheck, Goto, Holding,
                UserLabel, CustomerLabel, UnitLabel
  <2>2. Fits(pc[r])
    BY DEF RowsInv, Working
  <2>3. Fits(to) /\ to \in Label
    BY <2>1, <2>2, FitsHere DEF Fits
  <2> QED
    BY <2>1, <2>3, CheckStep
<1> QED
  BY <1>1, <1>2

\* What a handler remembers without holding a row.
LEMMA NotesKeepRows ==
  ASSUME RowsInv, NEW r \in Request,
         \/ CreateUserCheck(r) \/ CreateCustomerCheck(r) \/ CustomerCode(r)
         \/ CreateUnitCheck(r) \/ DeleteUnitsRead(r) \/ OrderCode(r) \/ DeleteOrdersRead(r)
  PROVE  RowsInv'
<1> DEFINE To == {"user.insert", "customer.code", "customer.insert", "unit.insert",
                  "unit.delete", "order.insert", "order.delete"}
<1>0. req[r] \in ReqRec /\ NoReq \in ReqRec /\ Fits(pc[r])
  BY NoReqIsReq DEF RowsInv, Working
<1>1. ASSUME NEW to \in To, Fits(to), NEW rec \in ReqRec, pc' = [pc EXCEPT ![r] = to],
             Keep(r, rec), UNCHANGED <<table, rows>>
      PROVE  RowsInv'
  <2>1. to \in Label \ Holding
    BY DEF Label, Holding, UserLabel, CustomerLabel, UnitLabel, ClosureLabel, OrderLabel
  <2> QED
    BY <1>1, <2>1, KeepStep
<1>2. CASE CreateUserCheck(r)
  BY <1>0, <1>1, <1>2, SetReq, FitsHere DEF CreateUserCheck, Goto, UserLabel
<1>3. CASE CreateCustomerCheck(r)
  BY <1>0, <1>1, <1>3, SetReq, FitsHere DEF CreateCustomerCheck, Goto, CustomerLabel
<1>4. CASE CustomerCode(r)
  <2>1. NextCode \in Nat /\ table = "customers"
    BY <1>0, <1>4, NextCodeIsFree DEF CustomerCode, Goto, Fits, CustomerLabel
  <2> QED
    BY <1>0, <1>1, <1>4, <2>1, SetReq, FitsHere DEF CustomerCode, Goto, CustomerLabel
<1>5. CASE CreateUnitCheck(r)
  BY <1>0, <1>1, <1>5, SetReq, FitsHere DEF CreateUnitCheck, Goto, UnitLabel
<1>6. CASE DeleteUnitsRead(r)
  <2>1. PICK S \in SUBSET Row \ {{}} :
          /\ table = "assets" /\ pc' = [pc EXCEPT ![r] = "unit.delete"]
          /\ Keep(r, [NoReq EXCEPT !.ids = S,
                !.products = {rows[i].cols.productId : i \in {j \in S : Live(j)}}])
          /\ UNCHANGED <<table, rows>>
    BY <1>6 DEF DeleteUnitsRead, Goto
  <2> DEFINE P == {rows[i].cols.productId : i \in {j \in S : Live(j)}}
  <2>2. P \in SUBSET Cell
    BY <2>1, UnitCols, SeenIsRead DEF Live
  <2>3. Fits("unit.delete")
    BY <2>1, FitsHere DEF UnitLabel
  <2> HIDE DEF P
  <2>4. [NoReq EXCEPT !.ids = S, !.products = P] \in ReqRec
    BY <1>0, <2>2, SetReq
  <2> QED
    BY <1>1, <2>1, <2>3, <2>4 DEF P
<1>7. CASE OrderCode(r)
  <2>1. NextCode \in Nat
    BY NextCodeIsFree
  <2> QED
    BY <1>0, <1>1, <1>7, <2>1, SetReq, FitsHere DEF OrderCode, Goto, OrderLabel
<1>8. CASE DeleteOrdersRead(r)
  BY <1>0, <1>1, <1>8, SetReq, FitsHere DEF DeleteOrdersRead, Goto, OrderLabel
<1> QED
  BY <1>2, <1>3, <1>4, <1>5, <1>6, <1>7, <1>8

\* The request is done, or was one statement.
Done(r) ==
  \/ End(r)
  \/ \E i, v : Written(r, i, v, "idle", NoReq)
  \/ table = "assets" /\ \E P, known, S \in SUBSET Cell : Moved(r, P, known, S)
  \/ pc[r] = "idle" /\ UNCHANGED <<pc, req>>

\* What a finished request, a written phone and a written unit leave of the others.
LEMMA ReqAfterWrite ==
  ASSUME RowsInv, NEW r \in Request, Done(r)
  PROVE  /\ \E l \in Label \ Holding : Fits(l) /\ pc' = [pc EXCEPT ![r] = l]
         /\ req' \in [Request -> ReqRec]
         /\ \A q \in Request \ {r} : req'[q].row = req[q].row /\ req'[q].read = req[q].read
<1>1. req \in [Request -> ReqRec] /\ NoReq \in ReqRec
  BY NoReqIsReq DEF RowsInv
<1>2. CASE End(r)
  BY <1>1, <1>2, FitsIdle DEF End, Keep
<1>3. CASE \E i, v : Written(r, i, v, "idle", NoReq)
  <2>1. PICK i, v : Written(r, i, v, "idle", NoReq)
    BY <1>3
  <2>2. ASSUME NEW q \in Request
        PROVE  /\ req'[q] \in ReqRec
               /\ q # r => req'[q].row = req[q].row /\ req'[q].read = req[q].read
    <3>1. /\ [req[q] EXCEPT !.clash = TRUE] \in ReqRec
          /\ [req[q] EXCEPT !.clash = TRUE].row = req[q].row
          /\ [req[q] EXCEPT !.clash = TRUE].read = req[q].read
      <4>1. ASSUME NEW x \in ReqRec, NEW b \in BOOLEAN
            PROVE  LET y == [x EXCEPT !.clash = b]
                   IN y \in ReqRec /\ y.row = x.row /\ y.read = x.read
        BY DEF ReqRec
      <4> QED
        BY <1>1, <4>1
    <3>2. req'[q] \in {NoReq, req[q], [req[q] EXCEPT !.clash = TRUE]}
          /\ (q # r => req'[q] \in {req[q], [req[q] EXCEPT !.clash = TRUE]})
      BY <2>1 DEF Written
    <3> QED
      BY <1>1, <3>1, <3>2
  <2>3. req' = [q \in Request |-> req'[q]]
    BY <2>1 DEF Written
  <2>4. req' \in [Request -> ReqRec]
    BY <2>2, <2>3
  <2>5. pc' = [pc EXCEPT ![r] = "idle"]
    BY <2>1 DEF Written
  <2> QED
    BY <2>2, <2>4, <2>5, FitsIdle
<1>4. CASE table = "assets" /\ \E P, known, S \in SUBSET Cell : Moved(r, P, known, S)
  <2>1. PICK S \in SUBSET Cell : /\ req' = [req EXCEPT ![r] = [NoReq EXCEPT !.products = S]]
                                 /\ pc' = [pc EXCEPT ![r] = "emit"]
    BY <1>4 DEF Moved, Keep
  <2>2. [NoReq EXCEPT !.products = S] \in ReqRec
    BY <1>1, SetReq
  <2>3. "emit" \in Label \ Holding /\ Fits("emit")
    BY <1>4 DEF Fits, Label, Holding, UserLabel, CustomerLabel, UnitLabel, ClosureLabel,
                OrderLabel
  <2> QED
    BY <1>1, <2>1, <2>2, <2>3
<1>5. CASE pc[r] = "idle" /\ UNCHANGED <<pc, req>>
  <2>1. pc' = [pc EXCEPT ![r] = "idle"]
    BY <1>5 DEF RowsInv
  <2> QED
    BY <1>1, <1>5, <2>1, FitsIdle
<1> QED
  BY <1>2, <1>3, <1>4, <1>5 DEF Done

LEMMA RowWritten ==
  ASSUME RowsInv, NEW r \in Request, table' = table, Done(r),
         NEW i \in Row, NEW x \in RowRec, Follows(x), rows' = [rows EXCEPT ![i] = x]
  PROVE  RowsInv'
<1>1. PICK l \in Label \ Holding : Fits(l) /\ pc' = [pc EXCEPT ![r] = l]
  BY ReqAfterWrite
<1>2. /\ req' \in [Request -> ReqRec]
      /\ \A q \in Request \ {r} : req'[q].row = req[q].row /\ req'[q].read = req[q].read
  BY ReqAfterWrite
<1> QED
  BY <1>1, <1>2, WriteStep

LEMMA HeldRowWritten ==
  ASSUME RowsInv, NEW r \in Request, pc[r] \in Holding, table' = table, Done(r),
         NEW given, \E x : Written1(r, given, x) /\ Follows(x)
  PROVE  RowsInv'
<1>1. req[r].row \in Row
  BY DEF RowsInv, Working
<1> QED
  BY <1>1, RowWritten DEF Written1

LEMMA NewRowWritten ==
  ASSUME RowsInv, NEW r \in Request, NEW cols \in [Columns[table] -> Cell],
         table = "closures" =>
           /\ cols.startDate \in Nat /\ cols.endDate \in Nat /\ cols.startDate < cols.endDate,
         Insert(r, cols), table' = table, Done(r)
  PROVE  RowsInv'
  BY InsertWrites, RowWritten

LEMMA RowsDeleted ==
  ASSUME RowsInv, NEW r \in Request, NEW S \in SUBSET Row, Delete(S), table' = table, Done(r)
  PROVE  RowsInv'
<1>1. rows' \in [Row -> RowRec \cup {None}] /\ \A i \in Row : Stays(i)
  BY DeleteWrites
<1>2. PICK l \in Label \ Holding : Fits(l) /\ pc' = [pc EXCEPT ![r] = l]
  BY ReqAfterWrite
<1>3. /\ req' \in [Request -> ReqRec]
      /\ \A q \in Request \ {r} : req'[q].row = req[q].row /\ req'[q].read = req[q].read
  BY ReqAfterWrite
<1>4. pc'[r] = l
  BY <1>2 DEF RowsInv
<1>5. Working(r)'
  BY <1>2, <1>4 DEF Working, Fits
<1>6. ASSUME NEW i \in Row, Exists(i)' PROVE Follows(rows[i])'
  <2>1. Exists(i)
    BY <1>1, <1>6 DEF Stays
  <2>2. Follows(rows[i])
    BY <2>1 DEF RowsInv
  <2> QED
    BY <1>1, <2>1, <2>2 DEF Stays, Follows
<1>7. \A i \in Row : Exists(i) => Exists(i)'
  BY <1>1 DEF Stays
<1> QED
  BY <1>1, <1>2, <1>3, <1>5, <1>6, <1>7, RowsStep

\* An update whose text is made of the merged columns.
LEMMA MergedUpdate ==
  ASSUME RowsInv, NEW r \in Request, pc[r] \in Holding, NEW given \in Statement,
         table # "closures", Update(r, given, Merged(req[r].read, given), {})
  PROVE  \E x : Written1(r, given, x) /\ Follows(x)
<1>1. Searched[table] \subseteq ReadCols
  BY ColsNested DEF RowsInv
<1>2. /\ Merged(req[r].read, given) \in Reads
      /\ ~Overtaken(r, given) =>
           \A c \in ReadCols : \/ Set(rows[req[r].row].cols, given)[c] = None
                               \/ Merged(req[r].read, given)[c] =
                                    Set(rows[req[r].row].cols, given)[c]
  BY MergedFollows
<1> QED
  BY <1>1, <1>2, UpdateWrites

LEMMA UserUpdated ==
  ASSUME RowsInv, NEW r \in Request, UpdateUserWrite(r), ~Refuse(r)
  PROVE  \E given \in Statement : \E x : Written1(r, given, x) /\ Follows(x)
<1>1. pc[r] = "user.write" /\ Working(r) /\ req[r] \in ReqRec
  BY DEF RowsInv, UpdateUserWrite
<1>2. pc[r] \in Holding /\ table = "users"
  BY <1>1 DEF Holding, Working, Fits, UserLabel
<1>3. PICK phone \in Value \cup {None, Absent} :
        LET given == Given([email |-> req[r].key, phone |-> phone])
        IN Update(r, given, Merged(req[r].read, given), {})
  BY DEF UpdateUserWrite
<1> DEFINE f == [email |-> req[r].key, phone |-> phone]
<1>4. f \in [{"email", "phone"} -> Cell]
  BY <1>1 DEF ReqRec, Cell
<1>5. Given(f) \in Statement
  BY <1>2, <1>4, UserCols, GivenIsStatement
<1> HIDE DEF f
<1> QED
  BY <1>2, <1>3, <1>5, MergedUpdate DEF f

LEMMA MeUpdated ==
  ASSUME RowsInv, NEW r \in Request, MeWrite(r)
  PROVE  \E given \in Statement : \E x : Written1(r, given, x) /\ Follows(x)
<1>1. pc[r] = "me.write" /\ Working(r) /\ req[r] \in ReqRec
  BY DEF RowsInv, MeWrite
<1>2. pc[r] \in Holding /\ table = "users"
  BY <1>1 DEF Holding, Working, Fits, UserLabel
<1>3. PICK phone \in Value \cup {Absent} :
        LET next == Merged(req[r].read, Given([phone |-> phone]))
        IN Update(r, Given([phone |-> next.phone]), next, {"email"})
  BY DEF MeWrite
<1> DEFINE f == [phone |-> phone]
           next == Merged(req[r].read, Given(f))
           g == [phone |-> next.phone]
<1>4. f \in [{"phone"} -> Cell] /\ {"phone"} \subseteq Columns[table]
  BY <1>2, UserCols DEF Cell
<1>5. Given(f) \in Statement
  BY <1>2, <1>4, GivenIsStatement
<1>6. next \in Reads
  <2> HIDE DEF next
  <2> QED
    BY <1>2, <1>5, MergedFollows DEF next
<1> HIDE DEF next
<1>7. next.phone \in Cell
  BY <1>2, <1>6, UserCols DEF Reads
<1>8. g \in [{"phone"} -> Cell] /\ g["phone"] = next.phone
  BY <1>7
<1>9. Given(g) \in Statement /\ Given(g)["phone"] = next.phone
  <2> HIDE DEF g
  <2> QED
    BY <1>2, <1>4, <1>8, GivenIsStatement
<1>10. rows[req[r].row].cols \in [Columns[table] -> Cell]
  BY <1>1, <1>2, SeenIsRead DEF Working
<1>11. ~Overtaken(r, Given(g)) =>
          \A c \in Searched[table] \ {"email"} :
            \/ Set(rows[req[r].row].cols, Given(g))[c] = None
            \/ next[c] = Set(rows[req[r].row].cols, Given(g))[c]
  <2>1. Searched[table] \ {"email"} = {"phone"} /\ {"phone"} \subseteq Columns[table]
    BY <1>2, UserCols
  <2>2. next.phone # Absent => Set(rows[req[r].row].cols, Given(g))["phone"] = next.phone
    BY <1>9, <1>10, <2>1 DEF Set
  <2>3. next.phone = Absent => req[r].read.phone = Absent
    <3>1. next.phone = IF Given(f).phone \in {Absent, None} THEN req[r].read.phone
                       ELSE Given(f).phone
      BY <1>1, <1>2, UserCols DEF next, Merged, Reads, Working
    <3>2. Given(f)["phone"] = phone
      BY <1>2, <1>4, GivenIsStatement
    <3> QED
      BY <3>1, <3>2, DirectoryAssumption
  <2>4. CASE next.phone = Absent
    <3>1. ~Overtaken(r, Given(g)) => req[r].read["phone"] = rows[req[r].row].cols["phone"]
      BY <1>1, <1>2, <1>9, <2>4, UserCols DEF Overtaken, Working, Reads
    <3>2. Set(rows[req[r].row].cols, Given(g))["phone"] = rows[req[r].row].cols["phone"]
      BY <1>9, <1>10, <2>1, <2>4 DEF Set
    <3> QED
      BY <2>1, <2>3, <2>4, <3>1, <3>2
  <2> QED
    BY <2>1, <2>2, <2>4
<1> HIDE DEF g
<1> QED
  BY <1>2, <1>3, <1>6, <1>9, <1>11, UpdateWrites DEF f, g, next

LEMMA CustomerUpdated ==
  ASSUME RowsInv, NEW r \in Request, UpdateCustomerWrite(r)
  PROVE  /\ table = "customers" /\ pc[r] = "customer.write"
         /\ LET given == Given([phone |-> req[r].key])
            IN given \in Statement /\ given.phone = req[r].key
               /\ \E x : Written1(r, given, x) /\ Follows(x)
<1>1. pc[r] = "customer.write" /\ Working(r) /\ req[r] \in ReqRec
  BY DEF RowsInv, UpdateCustomerWrite
<1>2. pc[r] \in Holding /\ table = "customers"
  BY <1>1 DEF Holding, Working, Fits, CustomerLabel
<1> DEFINE f == [phone |-> req[r].key]
<1>3. f \in [{"phone"} -> Cell] /\ f["phone"] = req[r].key /\ {"phone"} \subseteq Columns[table]
  BY <1>1, <1>2, CustomerCols DEF ReqRec, Cell
<1>4. Update(r, Given(f), Merged(req[r].read, Given(f)), {})
  BY DEF UpdateCustomerWrite
<1> HIDE DEF f
<1>5. Given(f) \in Statement /\ Given(f)["phone"] = req[r].key
  BY <1>2, <1>3, GivenIsStatement
<1> QED
  BY <1>1, <1>2, <1>4, <1>5, MergedUpdate DEF f

\* The status of a customer, and nothing else.
LEMMA StatusWritten ==
  ASSUME RowsInv, NEW r \in Request, CustomerStatusWrite(r)
  PROVE  LET i == req[r].row
         IN /\ table = "customers" /\ pc[r] = "customer.status" /\ i \in Row /\ Exists(i)
            /\ \E x \in RowRec :
                 /\ rows' = [rows EXCEPT ![i] = x] /\ Follows(x)
                 /\ x.cols.phone = rows[i].cols.phone
                 /\ x.deleted = rows[i].deleted /\ x.twin = rows[i].twin
<1> DEFINE i == req[r].row
<1>1. /\ table = "customers" /\ pc[r] = "customer.status" /\ i \in Row /\ Exists(i)
      /\ rows \in [Row -> RowRec \cup {None}]
  BY DEF RowsInv, CustomerStatusWrite, Working, Holding, Fits, CustomerLabel
<1>2. rows[i] \in RowRec /\ Follows(rows[i]) /\ rows[i].cols \in [Columns[table] -> Cell]
  BY <1>1, SeenIsRead
<1>3. PICK s \in Status : rows' = [rows EXCEPT ![i].cols.status = s]
  BY DEF CustomerStatusWrite
<1> DEFINE a == [rows[i].cols EXCEPT !.status = s]
           x == [rows[i] EXCEPT !.cols = a]
<1>4. /\ a \in [Columns[table] -> Cell] /\ a.phone = rows[i].cols.phone
      /\ a.code = rows[i].cols.code
  BY <1>1, <1>2, CustomerCols DEF Cell
<1>5. rows' = [rows EXCEPT ![i] = x]
  BY <1>1, <1>3
<1> HIDE DEF a
<1>6. /\ x \in RowRec /\ x.cols = a /\ x.text = rows[i].text /\ x.stale = rows[i].stale
      /\ x.twin = rows[i].twin /\ x.deleted = rows[i].deleted /\ x.omitted = rows[i].omitted
  BY <1>2, <1>4 DEF RowRec, RowOf
<1> HIDE DEF x
<1>7. Follows(x)
  BY <1>1, <1>2, <1>4, <1>6, CustomerCols DEF Follows
<1> QED
  BY <1>1, <1>4, <1>5, <1>6, <1>7

LEMMA UnitUpdated ==
  ASSUME RowsInv, NEW r \in Request, UpdateUnitWrite(r), ~Refuse(r)
  PROVE  /\ \E given \in Statement : \E x : Written1(r, given, x) /\ Follows(x)
         /\ table = "assets" /\ pc[r] \in Holding
<1>1. pc[r] = "unit.write" /\ Working(r) /\ req[r] \in ReqRec
  BY DEF RowsInv, UpdateUnitWrite
<1>2. pc[r] \in Holding /\ table = "assets"
  BY <1>1 DEF Holding, Working, Fits, UnitLabel
<1>3. PICK p \in Product \cup {Absent}, s \in Status \cup {Absent} :
        LET given == Given([serialNumber |-> req[r].key, productId |-> p, status |-> s])
        IN Update(r, given, Merged(req[r].read, given), {})
  BY DEF UpdateUnitWrite
<1> DEFINE f == [serialNumber |-> req[r].key, productId |-> p, status |-> s]
<1>4. f \in [{"serialNumber", "productId", "status"} -> Cell]
  BY <1>1 DEF ReqRec, Cell
<1>5. Given(f) \in Statement
  BY <1>2, <1>4, UnitCols, GivenIsStatement
<1> HIDE DEF f
<1> QED
  BY <1>2, <1>3, <1>5, MergedUpdate DEF f

\* A status leaves the unit where it is.
LEMMA UnitStatusUpdated ==
  ASSUME RowsInv, NEW r \in Request, UnitStatusWrite(r)
  PROVE  /\ table = "assets" /\ pc[r] \in Holding
         /\ \E given \in Statement : \E x : Written1(r, given, x) /\ Follows(x)
         /\ rows'[req[r].row].cols.productId = rows[req[r].row].cols.productId
<1>1. /\ pc[r] = "unit.status" /\ Working(r) /\ rows \in [Row -> RowRec \cup {None}]
  BY DEF RowsInv, UnitStatusWrite
<1>2. pc[r] \in Holding /\ table = "assets"
  BY <1>1 DEF Holding, Working, Fits, UnitLabel
<1>3. PICK s \in Status :
        LET given == Given([status |-> s])
        IN Update(r, given, Merged(req[r].read, given), {})
  BY DEF UnitStatusWrite
<1> DEFINE f == [status |-> s]
<1>4. f \in [{"status"} -> Cell] /\ {"status"} \subseteq Columns[table]
      /\ "productId" \in Columns[table]
  BY <1>2, UnitCols DEF Cell
<1>5. Given(f) \in Statement /\ Given(f)["productId"] = Absent
  BY <1>2, <1>4, GivenIsStatement
<1> HIDE DEF f
<1>6. PICK x : Written1(r, Given(f), x) /\ Follows(x)
  BY <1>2, <1>3, <1>5, MergedUpdate DEF f
<1>7. /\ rows[req[r].row].cols \in [Columns[table] -> Cell] /\ req[r].row \in Row
  BY <1>1, <1>2, SeenIsRead DEF Working
<1>8. Set(rows[req[r].row].cols, Given(f))["productId"] = rows[req[r].row].cols["productId"]
  BY <1>4, <1>5, <1>7 DEF Set
<1>9. rows'[req[r].row] = x /\ x.cols = Set(rows[req[r].row].cols, Given(f))
  BY <1>1, <1>6, <1>7 DEF Written1
<1> QED
  BY <1>2, <1>5, <1>6, <1>8, <1>9

LEMMA OrderUpdated ==
  ASSUME RowsInv, NEW r \in Request, UpdateOrderWrite(r)
  PROVE  \E given \in Statement : \E x : Written1(r, given, x) /\ Follows(x)
<1>1. pc[r] = "order.write" /\ Working(r)
  BY DEF RowsInv, UpdateOrderWrite
<1>2. pc[r] \in Holding /\ table = "orders"
  BY <1>1 DEF Holding, Working, Fits, OrderLabel
<1>3. PICK note \in Value \cup {None, Absent} :
       LET next == [req[r].read EXCEPT !.note = IF note = Absent THEN @ ELSE note]
       IN Update(r, Given([note |-> next.note]), next, {})
  BY DEF UpdateOrderWrite
<1> DEFINE v == IF note = Absent THEN req[r].read.note ELSE note
           next == [req[r].read EXCEPT !.note = v]
           f == [note |-> next.note]
<1>4. req[r].read \in Reads /\ req[r].row \in Row /\ Exists(req[r].row)
  BY <1>1, <1>2 DEF Working
<1>5. v \in Cell
  BY <1>2, <1>4, OrderCols DEF Reads, Cell
<1>6. Update(r, Given(f), next, {})
  BY <1>3, <1>4
<1> HIDE DEF v
<1>7. next \in Reads /\ next.note = v
      /\ \A c \in {"code", "cancelReason"} : next[c] = req[r].read[c]
  BY <1>2, <1>4, <1>5, OrderCols DEF Reads
<1>8. f \in [{"note"} -> Cell] /\ f["note"] = v /\ {"note"} \subseteq Columns[table]
  BY <1>2, <1>5, <1>7, OrderCols
<1> HIDE DEF next, f
<1>9. Given(f) \in Statement /\ Given(f)["note"] = v
      /\ \A c \in {"code", "cancelReason"} : Given(f)[c] = Absent
  BY <1>2, <1>8, OrderCols, GivenIsStatement
<1>10. rows[req[r].row].cols \in [Columns[table] -> Cell]
  BY <1>4, SeenIsRead
<1>11. ASSUME ~Overtaken(r, Given(f)), NEW c \in Searched[table]
       PROVE  next[c] = Set(rows[req[r].row].cols, Given(f))[c]
  <2>1. Set(rows[req[r].row].cols, Given(f))[c] =
          IF Given(f)[c] = Absent THEN rows[req[r].row].cols[c] ELSE Given(f)[c]
    BY <1>2, <1>10, OrderCols DEF Set
  <2>2. Given(f)[c] = Absent => req[r].read[c] = rows[req[r].row].cols[c]
    BY <1>2, <1>4, <1>11, OrderCols DEF Overtaken, Reads
  <2>3. CASE c = "note"
    <3>1. v = Absent => req[r].read.note = Absent
      BY DEF v
    <3> QED
      BY <1>7, <1>9, <2>1, <2>2, <2>3, <3>1
  <2>4. CASE c # "note"
    BY <1>2, <1>7, <1>9, <2>1, <2>2, <2>4, OrderCols
  <2> QED
    BY <2>3, <2>4
<1> QED
  BY <1>2, <1>6, <1>7, <1>9, <1>11, UpdateWrites

LEMMA OrderCancelled ==
  ASSUME RowsInv, NEW r \in Request, CancelOrderWrite(r)
  PROVE  \E given \in Statement : \E x : Written1(r, given, x) /\ Follows(x)
<1>1. pc[r] = "order.cancel" /\ Working(r)
  BY DEF RowsInv, CancelOrderWrite
<1>2. pc[r] \in Holding /\ table = "orders"
  BY <1>1 DEF Holding, Working, Fits, OrderLabel
<1>3. PICK reason \in Value :
        LET given == Given([cancelReason |-> reason, status |-> "CANCELLED"])
        IN Update(r, given, Merged(req[r].read, given), {})
  BY DEF CancelOrderWrite
<1> DEFINE f == [cancelReason |-> reason, status |-> "CANCELLED"]
<1>4. f \in [{"cancelReason", "status"} -> Cell] /\ {"cancelReason", "status"} \subseteq Columns[table]
  BY <1>2, OrderCols DEF Cell
<1>5. Given(f) \in Statement
  BY <1>2, <1>4, GivenIsStatement
<1> HIDE DEF f
<1> QED
  BY <1>2, <1>3, <1>5, MergedUpdate DEF f

\* The dates that are checked are those the row will have, if it has not changed.
LEMMA ClosureUpdated ==
  ASSUME RowsInv, NEW r \in Request, UpdateClosureWrite(r), ~Refuse(r)
  PROVE  \E given \in Statement : \E x : Written1(r, given, x) /\ Follows(x)
<1>1. pc[r] = "closure.write" /\ Working(r)
  BY DEF RowsInv, UpdateClosureWrite
<1>2. pc[r] \in Holding /\ table = "closures"
  BY <1>1 DEF Holding, Working, Fits, ClosureLabel
<1>3. PICK s \in Date \cup {Absent}, e \in Date \cup {Absent} :
        LET given == Given([startDate |-> s, endDate |-> e])
            next == Merged(req[r].read, given)
        IN ~(next.startDate >= next.endDate) /\ Update(r, given, next, {})
  BY DEF UpdateClosureWrite
<1>4. /\ req[r].read \in Reads /\ req[r].row \in Row /\ Exists(req[r].row)
      /\ s \in Nat \cup {Absent} /\ e \in Nat \cup {Absent} /\ Absent \notin Nat /\ None \notin Nat
  BY <1>1, <1>2, DirectoryAssumption DEF Working
<1> DEFINE f == [startDate |-> s, endDate |-> e]
           cols == rows[req[r].row].cols
           new == Set(cols, Given(f))
           next == Merged(req[r].read, Given(f))
<1>5. Given(f) \in [{"startDate", "endDate"} -> Cell] /\ Given(f).startDate = s /\ Given(f).endDate = e
  BY <1>2, <1>4, ClosureCols DEF Given, Cell
<1>6. Given(f) \in Statement
  <2> HIDE DEF f
  <2> QED
    BY <1>2, <1>4, <1>5, ClosureCols DEF Statement
<1> HIDE DEF f
<1>7. next \in Reads
  BY <1>2, <1>6, MergedFollows
<1>8. /\ cols \in [Columns[table] -> Cell]
      /\ cols.startDate \in Nat /\ cols.endDate \in Nat
  BY <1>2, <1>4, SeenIsRead DEF Follows
<1>9. /\ new.startDate = IF s = Absent THEN cols.startDate ELSE s
      /\ new.endDate = IF e = Absent THEN cols.endDate ELSE e
  BY <1>2, <1>5, <1>8, ClosureCols DEF Set
<1>10. /\ next.startDate = IF s = Absent THEN req[r].read.startDate ELSE s
       /\ next.endDate = IF e = Absent THEN req[r].read.endDate ELSE e
  BY <1>2, <1>4, <1>5, ClosureCols DEF Merged, Reads
<1>11. ~Overtaken(r, Given(f)) => new.startDate = next.startDate /\ new.endDate = next.endDate
  <2>1. ~Overtaken(r, Given(f)) =>
          /\ s = Absent => req[r].read["startDate"] = cols["startDate"]
          /\ e = Absent => req[r].read["endDate"] = cols["endDate"]
    BY <1>2, <1>4, <1>5, ClosureCols DEF Overtaken, Reads
  <2> QED
    BY <1>9, <1>10, <2>1
<1>12. /\ ~(next.startDate >= next.endDate) /\ Update(r, Given(f), next, {})
  BY <1>3 DEF f
<1>13. next.startDate \in Nat /\ next.endDate \in Nat
  BY <1>2, <1>7 DEF Reads
<1>14. /\ new.startDate \in Nat /\ new.endDate \in Nat
       /\ ~Overtaken(r, Given(f)) => new.startDate < new.endDate
  BY <1>4, <1>8, <1>9, <1>11, <1>12, <1>13
<1>15. Searched[table] = {}
  BY <1>2, ClosureCols
<1> HIDE DEF new, next
<1> QED
  BY <1>2, <1>6, <1>7, <1>12, <1>14, <1>15, UpdateWrites DEF new

\* The five inserts.
LEMMA CreatesKeepRows ==
  ASSUME RowsInv, NEW r \in Request, table' = table, Done(r), ~Refuse(r),
         \/ CreateUser(r) \/ CreateCustomer(r) \/ CreateUnit(r)
         \/ CreateClosure(r) \/ CreateOrder(r)
  PROVE  RowsInv'
<1>1. pc[r] \in Label /\ Fits(pc[r]) /\ req[r] \in ReqRec
  BY DEF RowsInv, Working
<1>2. req[r].key \in Cell /\ req[r].code \in Cell
  BY <1>1 DEF ReqRec, Cell
<1>3. PICK cols \in [Columns[table] -> Cell] :
        /\ Insert(r, cols)
        /\ table = "closures" =>
             cols.startDate \in Nat /\ cols.endDate \in Nat /\ cols.startDate < cols.endDate
  <2>1. CASE CreateUser(r)
    <3>1. table = "users"
      BY <1>1, <2>1 DEF CreateUser, Fits, UserLabel
    <3>2. PICK phone \in Value \cup {None} : Insert(r, [email |-> req[r].key, phone |-> phone])
      BY <2>1 DEF CreateUser
    <3>3. [email |-> req[r].key, phone |-> phone] \in [Columns[table] -> Cell]
      BY <1>2, <3>1, UserCols DEF Cell
    <3> QED
      BY <3>1, <3>2, <3>3
  <2>2. CASE CreateCustomer(r)
    <3>1. table = "customers"
      BY <1>1, <2>2 DEF CreateCustomer, Fits, CustomerLabel
    <3>2. PICK s \in Status :
            Insert(r, [code |-> req[r].code, phone |-> req[r].key, status |-> s])
      BY <2>2 DEF CreateCustomer
    <3>3. [code |-> req[r].code, phone |-> req[r].key, status |-> s] \in [Columns[table] -> Cell]
      BY <1>2, <3>1, CustomerCols DEF Cell
    <3> QED
      BY <3>1, <3>2, <3>3
  <2>3. CASE CreateUnit(r)
    <3>1. table = "assets"
      BY <1>1, <2>3 DEF CreateUnit, Fits, UnitLabel
    <3>2. PICK p \in Product, s \in Status :
            Insert(r, [serialNumber |-> req[r].key, productId |-> p, status |-> s])
      BY <2>3 DEF CreateUnit
    <3>3. [serialNumber |-> req[r].key, productId |-> p, status |-> s]
            \in [Columns[table] -> Cell]
      BY <1>2, <3>1, UnitCols DEF Cell
    <3> QED
      BY <3>1, <3>2, <3>3
  <2>4. CASE CreateClosure(r)
    <3>1. PICK s \in Date, e \in Date :
            table = "closures" /\ s < e /\ Insert(r, [startDate |-> s, endDate |-> e])
      BY <2>4 DEF CreateClosure
    <3>2. s \in Nat /\ e \in Nat
      BY DirectoryAssumption
    <3>3. [startDate |-> s, endDate |-> e] \in [Columns[table] -> Cell]
      BY <3>1, <3>2, ClosureCols DEF Cell
    <3> QED
      BY <3>1, <3>2, <3>3
  <2>5. CASE CreateOrder(r)
    <3>1. table = "orders"
      BY <1>1, <2>5 DEF CreateOrder, Fits, OrderLabel
    <3>2. PICK note \in Value \cup {None} :
            Insert(r, [code |-> req[r].code, note |-> note, cancelReason |-> None,
                       status |-> "DRAFT"])
      BY <2>5 DEF CreateOrder
    <3>3. [code |-> req[r].code, note |-> note, cancelReason |-> None, status |-> "DRAFT"]
            \in [Columns[table] -> Cell]
      BY <1>2, <3>1, OrderCols DEF Cell
    <3> QED
      BY <3>1, <3>2, <3>3
  <2> QED
    BY <2>1, <2>2, <2>3, <2>4, <2>5
<1> QED
  BY <1>3, NewRowWritten

LEMMA SeedKeepsRows ==
  ASSUME RowsInv, NEW r \in Request, SeedAdmin(r)
  PROVE  RowsInv'
<1>1. /\ table = "users" /\ UNCHANGED table /\ Done(r)
      /\ rows \in [Row -> RowRec \cup {None}]
  BY DEF SeedAdmin, Done, RowsInv
<1>2. PICK v \in Value :
        \/ Insert(r, [email |-> v, phone |-> None])
        \/ \E i \in Holders("email", v) :
             rows' = [rows EXCEPT ![i] =
               [@ EXCEPT !.text = Text(rows[i].cols, {"phone"}),
                         !.stale = FALSE, !.omitted = {"phone"}]]
  BY DEF SeedAdmin
<1>3. CASE Insert(r, [email |-> v, phone |-> None])
  <2>1. [email |-> v, phone |-> None] \in [Columns[table] -> Cell]
    BY <1>1, UserCols DEF Cell
  <2> QED
    BY <1>1, <1>3, <2>1, NewRowWritten
<1>4. ASSUME NEW i \in Holders("email", v), NEW f \in BOOLEAN,
             rows' = [rows EXCEPT ![i] =
               [@ EXCEPT !.text = Text(rows[i].cols, {"phone"}),
                         !.stale = f, !.omitted = {"phone"}]]
      PROVE  RowsInv'
  <2>1. i \in Row /\ Exists(i)
    BY DEF Holders
  <2>2. rows[i] \in RowRec /\ rows[i].cols \in [Columns[table] -> Cell]
    BY <2>1, SeenIsRead
  <2> DEFINE b == Text(rows[i].cols, {"phone"})
             x == RowSet(rows[i], rows[i].cols, b, {"phone"}, f, rows[i].twin)
  <2>3. /\ b \in [Searched[table] -> Cell]
        /\ \A c \in Searched[table] \ {"phone"} : b[c] = rows[i].cols[c]
    BY <1>1, <2>2, UserCols DEF Text, Cell
  <2>4. rows[i].twin \in BOOLEAN
    BY <2>2 DEF RowRec, RowOf
  <2>5. rows' = [rows EXCEPT ![i] = x]
    <3> HIDE DEF b
    <3>1. ASSUME NEW y \in RowRec, NEW t, NEW o
          PROVE  [y EXCEPT !.text = t, !.stale = f, !.omitted = o]
                   = RowSet(y, y.cols, t, o, f, y.twin)
      BY DEF RowRec, RowOf, RowSet
    <3>2. rows' = [rows EXCEPT ![i] =
                    [@ EXCEPT !.text = b, !.stale = f, !.omitted = {"phone"}]]
      BY <1>4 DEF b
    <3>3. rows' = [rows EXCEPT ![i] =
                    [rows[i] EXCEPT !.text = b, !.stale = f, !.omitted = {"phone"}]]
      BY <1>1, <2>1, <3>2
    <3> QED
      BY <2>2, <3>1, <3>3
  <2> HIDE DEF b
  <2>6. /\ x \in RowRec /\ x.cols = rows[i].cols /\ x.text = b /\ x.omitted = {"phone"}
    BY <2>2, <2>3, <2>4, SetRow
  <2> HIDE DEF x
  <2>7. Follows(x)
    BY <1>1, <2>3, <2>6 DEF Follows
  <2> QED
    BY <1>1, <2>1, <2>5, <2>6, <2>7, RowWritten
<1> QED
  BY <1>2, <1>3, <1>4, Zenon

\* DELETE changes no column.
LEMMA DeletesKeepRows ==
  ASSUME RowsInv, NEW r \in Request, DeleteRows(r) \/ DeleteUnits(r) \/ DeleteOrders(r)
  PROVE  RowsInv'
<1>1. req[r] \in ReqRec
  BY DEF RowsInv
<1>2. CASE DeleteRows(r)
  <2>1. PICK S \in SUBSET Row : Delete(S)
    BY <1>2 DEF DeleteRows
  <2>2. Done(r) /\ table' = table
    BY <1>2 DEF DeleteRows, Done
  <2> QED
    BY <2>1, <2>2, RowsDeleted
<1>3. CASE DeleteOrders(r)
  <2>1. Delete(req[r].ids) /\ Done(r) /\ table' = table /\ req[r].ids \in SUBSET Row
    BY <1>1, <1>3 DEF DeleteOrders, Done, ReqRec
  <2> QED
    BY <2>1, RowsDeleted
<1>4. CASE DeleteUnits(r)
  <2> DEFINE P == {rows[i].cols.productId : i \in {j \in req[r].ids : Live(j)}}
  <2>1. /\ Delete(req[r].ids) /\ table' = table /\ req[r].ids \in SUBSET Row
        /\ Moved(r, P, req[r].products, req[r].products)
        /\ req[r].products \in SUBSET Cell /\ table = "assets"
    BY <1>1, <1>4 DEF DeleteUnits, ReqRec, RowsInv, Working, Fits, UnitLabel
  <2>2. P \in SUBSET Cell
    BY <2>1, UnitCols, SeenIsRead DEF Live
  <2> HIDE DEF P
  <2>3. Done(r)
    BY <2>1, <2>2 DEF Done
  <2> QED
    BY <2>1, <2>3, RowsDeleted
<1> QED
  BY <1>2, <1>3, <1>4

\* What a unit's write announces, and that it is products.
LEMMA UnitWrittenIsMoved ==
  ASSUME RowsInv, NEW r \in Request, table = "assets", pc[r] \in Holding,
         \E given \in Statement : \E x : Written1(r, given, x) /\ Follows(x)
  PROVE  /\ {rows[req[r].row].cols.productId, rows'[req[r].row].cols.productId} \in SUBSET Cell
         /\ Announced(r) \in SUBSET Cell
<1>1. /\ req[r].row \in Row /\ Exists(req[r].row) /\ req[r].read \in Reads
      /\ rows \in [Row -> RowRec \cup {None}]
  BY DEF RowsInv, Working
<1>2. PICK x \in RowRec : rows' = [rows EXCEPT ![req[r].row] = x]
  BY DEF Written1
<1>3. rows'[req[r].row] = x
  BY <1>1, <1>2
<1>4. x.cols \in [Columns[table] -> Cell]
  BY DEF RowRec, RowOf
<1>5. rows[req[r].row].cols \in [Columns[table] -> Cell]
  BY <1>1, SeenIsRead
<1>6. req[r].read.productId \in Cell
  BY <1>1, UnitCols DEF Reads
<1> QED
  BY <1>3, <1>4, <1>5, <1>6, UnitCols DEF Announced

LEMMA UpdatesKeepRows ==
  ASSUME RowsInv, NEW r \in Request,
         \/ UpdateUserWrite(r) \/ MeWrite(r) \/ UpdateCustomerWrite(r)
         \/ CustomerStatusWrite(r) \/ UpdateUnitWrite(r) \/ UnitStatusWrite(r)
         \/ UpdateClosureWrite(r) \/ UpdateOrderWrite(r) \/ CancelOrderWrite(r)
  PROVE  RowsInv'
<1>1. CASE Refuse(r)
  BY <1>1, RefuseStep
<1> SUFFICES ASSUME ~Refuse(r) PROVE RowsInv'
  BY <1>1
<1>2. CASE UpdateUserWrite(r)
  <2>1. table' = table /\ Done(r) /\ pc[r] \in Holding
    BY <1>2 DEF UpdateUserWrite, Done, Holding
  <2> QED
    BY <1>2, <2>1, UserUpdated, HeldRowWritten
<1>3. CASE MeWrite(r)
  <2>1. table' = table /\ Done(r) /\ pc[r] \in Holding
    BY <1>3 DEF MeWrite, Done, Holding
  <2> QED
    BY <1>3, <2>1, MeUpdated, HeldRowWritten
<1>4. CASE UpdateCustomerWrite(r)
  <2>1. table' = table /\ Done(r) /\ pc[r] \in Holding
    BY <1>4 DEF UpdateCustomerWrite, Done, Holding
  <2> QED
    BY <1>4, <2>1, CustomerUpdated, HeldRowWritten
<1>5. CASE CustomerStatusWrite(r)
  <2>1. table' = table /\ Done(r)
    BY <1>5 DEF CustomerStatusWrite, Done
  <2> QED
    BY <1>5, <2>1, StatusWritten, RowWritten
<1>6. CASE UpdateUnitWrite(r)
  <2>1. UnitWritten(r, Announced(r)) /\ table' = table
    BY <1>6 DEF UpdateUnitWrite
  <2>2. /\ table = "assets" /\ pc[r] \in Holding
        /\ \E given \in Statement : \E x : Written1(r, given, x) /\ Follows(x)
    BY <1>6, UnitUpdated
  <2>3. Done(r)
    BY <2>1, <2>2, UnitWrittenIsMoved DEF UnitWritten, Done, Announced
  <2> QED
    BY <2>1, <2>2, <2>3, HeldRowWritten
<1>7. CASE UnitStatusWrite(r)
  <2>1. UnitWritten(r, {rows'[req[r].row].cols.productId}) /\ table' = table
    BY <1>7 DEF UnitStatusWrite
  <2>2. /\ table = "assets" /\ pc[r] \in Holding
        /\ \E given \in Statement : \E x : Written1(r, given, x) /\ Follows(x)
    BY <1>7, UnitStatusUpdated
  <2>3. Done(r)
    BY <2>1, <2>2, UnitWrittenIsMoved DEF UnitWritten, Done, Announced
  <2> QED
    BY <2>1, <2>2, <2>3, HeldRowWritten
<1>8. CASE UpdateClosureWrite(r)
  <2>1. table' = table /\ Done(r) /\ pc[r] \in Holding
    BY <1>8 DEF UpdateClosureWrite, Done, Holding
  <2> QED
    BY <1>8, <2>1, ClosureUpdated, HeldRowWritten
<1>9. CASE UpdateOrderWrite(r)
  <2>1. table' = table /\ Done(r) /\ pc[r] \in Holding
    BY <1>9 DEF UpdateOrderWrite, Done, Holding
  <2> QED
    BY <1>9, <2>1, OrderUpdated, HeldRowWritten
<1>10. CASE CancelOrderWrite(r)
  <2>1. table' = table /\ Done(r) /\ pc[r] \in Holding
    BY <1>10 DEF CancelOrderWrite, Done, Holding
  <2> QED
    BY <1>10, <2>1, OrderCancelled, HeldRowWritten
<1> QED
  BY <1>2, <1>3, <1>4, <1>5, <1>6, <1>7, <1>8, <1>9, <1>10

LEMMA InsertsKeepRows ==
  ASSUME RowsInv, NEW r \in Request,
         \/ CreateUser(r) \/ CreateCustomer(r) \/ CreateUnit(r)
         \/ CreateClosure(r) \/ CreateOrder(r)
  PROVE  RowsInv'
<1>1. CASE Refuse(r)
  BY <1>1, RefuseStep
<1> SUFFICES ASSUME ~Refuse(r) PROVE RowsInv'
  BY <1>1
<1>2. CASE CreateUser(r)
  <2>1. table' = table /\ Done(r)
    BY <1>2 DEF CreateUser, Done
  <2> QED
    BY <1>2, <2>1, CreatesKeepRows
<1>3. CASE CreateCustomer(r)
  <2>1. table' = table /\ Done(r)
    BY <1>3 DEF CreateCustomer, Done
  <2> QED
    BY <1>3, <2>1, CreatesKeepRows
<1>4. CASE CreateUnit(r)
  <2>1. table' = table /\ \E p \in Product : Moved(r, {p}, {p}, {p})
    BY <1>4 DEF CreateUnit
  <2>2. table = "assets" /\ \A p \in Product : {p} \in SUBSET Cell
    BY <1>4 DEF CreateUnit, RowsInv, Working, Fits, UnitLabel, Cell
  <2>3. Done(r)
    BY <2>1, <2>2 DEF Done
  <2> QED
    BY <1>4, <2>1, <2>3, CreatesKeepRows
<1>5. CASE CreateClosure(r)
  <2>1. table' = table /\ Done(r)
    BY <1>5 DEF CreateClosure, Done
  <2> QED
    BY <1>5, <2>1, CreatesKeepRows
<1>6. CASE CreateOrder(r)
  <2>1. table' = table /\ Done(r)
    BY <1>6 DEF CreateOrder, Done
  <2> QED
    BY <1>6, <2>1, CreatesKeepRows
<1> QED
  BY <1>2, <1>3, <1>4, <1>5, <1>6

LEMMA EmitKeepsRows ==
  ASSUME RowsInv, NEW r \in Request, EmitAvailabilityChanged(r)
  PROVE  RowsInv'
  BY KeepStep, NoReqIsReq, FitsIdle DEF EmitAvailabilityChanged, End

LEMMA RowsNext ==
  ASSUME RowsInv, [Next]_vars
  PROVE  RowsInv'
<1>1. CASE UNCHANGED vars
  BY <1>1, ZenonT(60)
  DEF RowsInv, vars, RowRec, RowOf, Row, ReqRec, Reads, ReadCols, Exists, Follows, Working, Fits
<1>2. CASE Next
  <2>1. PICK r \in Request :
        \/ UpdateUserRead(r) \/ MeRead(r) \/ UpdateCustomerRead(r) \/ CustomerStatusRead(r)
        \/ UpdateUnitRead(r) \/ UnitStatusRead(r) \/ UpdateClosureRead(r)
        \/ UpdateOrderRead(r) \/ CancelOrderRead(r)
        \/ UpdateUserCheck(r) \/ UpdateCustomerCheck(r) \/ UpdateUnitCheck(r)
        \/ CreateUserCheck(r) \/ CreateCustomerCheck(r) \/ CustomerCode(r)
        \/ CreateUnitCheck(r) \/ DeleteUnitsRead(r) \/ OrderCode(r) \/ DeleteOrdersRead(r)
        \/ SeedAdmin(r) \/ DeleteRows(r) \/ DeleteUnits(r) \/ DeleteOrders(r)
        \/ UpdateUserWrite(r) \/ MeWrite(r) \/ UpdateCustomerWrite(r)
        \/ CustomerStatusWrite(r) \/ UpdateUnitWrite(r) \/ UnitStatusWrite(r)
        \/ UpdateClosureWrite(r) \/ UpdateOrderWrite(r) \/ CancelOrderWrite(r)
        \/ CreateUser(r) \/ CreateCustomer(r) \/ CreateUnit(r)
        \/ CreateClosure(r) \/ CreateOrder(r) \/ EmitAvailabilityChanged(r)
    BY <1>2 DEF Next
  <2> QED
    BY <2>1, ReadsKeepRows, ChecksKeepRows, NotesKeepRows, SeedKeepsRows, DeletesKeepRows,
       UpdatesKeepRows, InsertsKeepRows, EmitKeepsRows
<1> QED
  BY <1>1, <1>2

-----------------------------------------------------------------------------
(* What the clients have not heard of.                                     *)

\* The other requests stand where they stood and remember what they did.
Alone(r) == \A q \in Request \ {r} : pc'[q] = pc[q] /\ req'[q] = req[q]

LEMMA OneRequest ==
  ASSUME RowsInv, NEW r \in Request,
         \/ UNCHANGED <<pc, req>>
         \/ \E l, rec : pc' = [pc EXCEPT ![r] = l] /\ Keep(r, rec)
  PROVE  Alone(r)
  BY DEF RowsInv, Alone, Keep

LEMMA ReadsAlone ==
  ASSUME RowsInv, NEW r \in Request,
         \/ UpdateUserRead(r) \/ MeRead(r) \/ UpdateCustomerRead(r) \/ CustomerStatusRead(r)
         \/ UpdateUnitRead(r) \/ UnitStatusRead(r) \/ UpdateClosureRead(r)
         \/ UpdateOrderRead(r) \/ CancelOrderRead(r)
  PROVE  Alone(r) /\ pc[r] = "idle" /\ UNCHANGED <<table, rows, heard>>
<1>1. PICK to : Read(r, to)
  BY DEF UpdateUserRead, MeRead, UpdateCustomerRead, CustomerStatusRead, UpdateUnitRead,
         UnitStatusRead, UpdateClosureRead, UpdateOrderRead, CancelOrderRead
<1> QED
  BY <1>1, OneRequest DEF Read, Goto

LEMMA NotesAlone ==
  ASSUME RowsInv, NEW r \in Request,
         \/ UpdateUserCheck(r) \/ UpdateCustomerCheck(r) \/ UpdateUnitCheck(r)
         \/ CreateUserCheck(r) \/ CreateCustomerCheck(r) \/ CustomerCode(r)
         \/ CreateUnitCheck(r) \/ DeleteUnitsRead(r) \/ OrderCode(r) \/ DeleteOrdersRead(r)
  PROVE  Alone(r) /\ pc[r] # "emit" /\ UNCHANGED <<table, rows, heard>>
<1>1. CASE UpdateUserCheck(r) \/ UpdateCustomerCheck(r) \/ UpdateUnitCheck(r)
  BY <1>1, OneRequest DEF UpdateUserCheck, UpdateCustomerCheck, UpdateUnitCheck, Goto,
                          Refuse, End
<1>2. CASE \/ CreateUserCheck(r) \/ CreateCustomerCheck(r) \/ CustomerCode(r)
           \/ CreateUnitCheck(r) \/ OrderCode(r)
  BY <1>2, OneRequest DEF CreateUserCheck, CreateCustomerCheck, CustomerCode, CreateUnitCheck,
                          OrderCode, Goto
<1>3. CASE DeleteUnitsRead(r) \/ DeleteOrdersRead(r)
  BY <1>3, OneRequest DEF DeleteUnitsRead, DeleteOrdersRead, Goto
<1> QED
  BY <1>1, <1>2, <1>3

\* Writes that concern no unit, and no checked phone.
LEMMA WritesAlone ==
  ASSUME RowsInv, NEW r \in Request,
         \/ UpdateUserWrite(r) \/ MeWrite(r) \/ CreateUser(r) \/ SeedAdmin(r) \/ DeleteRows(r)
         \/ CustomerStatusWrite(r) \/ UpdateClosureWrite(r) \/ CreateClosure(r)
         \/ UpdateOrderWrite(r) \/ CancelOrderWrite(r) \/ CreateOrder(r) \/ DeleteOrders(r)
         \/ Refuse(r) /\ pc[r] # "emit"
  PROVE  Alone(r) /\ pc[r] # "emit" /\ UNCHANGED heard
<1>1. CASE UpdateUserWrite(r) \/ MeWrite(r) \/ CreateUser(r)
  BY <1>1, OneRequest DEF UpdateUserWrite, MeWrite, CreateUser, Refuse, End
<1>2. CASE SeedAdmin(r) \/ DeleteRows(r) \/ CreateClosure(r)
  BY <1>2, OneRequest DEF SeedAdmin, DeleteRows, CreateClosure
<1>3. CASE CustomerStatusWrite(r) \/ UpdateClosureWrite(r)
  BY <1>3, OneRequest DEF CustomerStatusWrite, UpdateClosureWrite, Refuse, End
<1>4. CASE UpdateOrderWrite(r) \/ CancelOrderWrite(r) \/ CreateOrder(r) \/ DeleteOrders(r)
  BY <1>4, OneRequest DEF UpdateOrderWrite, CancelOrderWrite, CreateOrder, DeleteOrders,
                          Refuse, End
<1>5. CASE Refuse(r) /\ pc[r] # "emit"
  BY <1>5, OneRequest DEF Refuse, End
<1> QED
  BY <1>1, <1>2, <1>3, <1>4, <1>5

\* A request that announces nothing writes no unit.
LEMMA QuietStep ==
  ASSUME UnitsAnnounced, NEW r \in Request, pc[r] # "emit", UNCHANGED heard,
         \A q \in Request \ {r} : pc'[q] = pc[q] /\ req'[q].products = req[q].products
  PROVE  UnitsAnnounced'
  BY DEF UnitsAnnounced, heard

LEMMA MovedStep ==
  ASSUME RowsInv, UnitsAnnounced, NEW r \in Request, pc[r] # "emit",
         NEW P, NEW known, NEW S, P \cap known \subseteq S, Moved(r, P, known, S)
  PROVE  UnitsAnnounced'
<1>1. /\ pc'[r] = "emit" /\ req'[r] = [NoReq EXCEPT !.products = S]
      /\ \A q \in Request \ {r} : pc'[q] = pc[q] /\ req'[q] = req[q]
  BY DEF RowsInv, Moved, Keep
<1>2. req'[r].products = S
  BY <1>1 DEF NoReq
<1>3. ASSUME NEW p \in unheard' \ moved'
      PROVE  \E q \in Request : pc'[q] = "emit" /\ p \in req'[q].products
  <2>1. CASE p \in S
    BY <1>1, <1>2, <2>1
  <2>2. CASE p \notin S
    <3>1. p \in unheard \ moved
      BY <1>3, <2>2 DEF Moved
    <3>2. PICK q \in Request : pc[q] = "emit" /\ p \in req[q].products
      BY <3>1 DEF UnitsAnnounced
    <3> QED
      BY <1>1, <3>2
  <2> QED
    BY <2>1, <2>2
<1> QED
  BY <1>3 DEF UnitsAnnounced

LEMMA UnitsStep ==
  ASSUME RowsInv, UnitsAnnounced, NEW r \in Request,
         \/ CreateUnit(r) \/ UpdateUnitWrite(r) \/ UnitStatusWrite(r) \/ DeleteUnits(r)
  PROVE  UnitsAnnounced'
<1>1. CASE Refuse(r)
  <2>1. pc[r] # "emit"
    BY DEF CreateUnit, UpdateUnitWrite, UnitStatusWrite, DeleteUnits
  <2>2. Alone(r) /\ UNCHANGED heard
    BY <1>1, <2>1, WritesAlone
  <2> QED
    BY <2>1, <2>2, QuietStep DEF Alone
<1> SUFFICES ASSUME ~Refuse(r) PROVE UnitsAnnounced'
  BY <1>1
<1>2. CASE CreateUnit(r)
  BY <1>2, MovedStep DEF CreateUnit
<1>3. CASE UpdateUnitWrite(r)
  BY <1>3, MovedStep DEF UpdateUnitWrite, UnitWritten, Announced
<1>4. CASE UnitStatusWrite(r)
  <2>1. rows'[req[r].row].cols.productId = rows[req[r].row].cols.productId
    BY <1>4, UnitStatusUpdated
  <2>2. UnitWritten(r, {rows'[req[r].row].cols.productId}) /\ pc[r] # "emit"
    BY <1>4 DEF UnitStatusWrite
  <2> QED
    BY <2>1, <2>2, MovedStep DEF UnitWritten
<1>5. CASE DeleteUnits(r)
  BY <1>5, MovedStep DEF DeleteUnits
<1> QED
  BY <1>2, <1>3, <1>4, <1>5

LEMMA EmitStep ==
  ASSUME RowsInv, UnitsAnnounced, NEW r \in Request, EmitAvailabilityChanged(r)
  PROVE  UnitsAnnounced'
<1>1. Alone(r)
  BY OneRequest DEF EmitAvailabilityChanged, End
<1>2. unheard' = unheard \ req[r].products /\ moved' = moved \ req[r].products
  BY DEF EmitAvailabilityChanged
<1>3. ASSUME NEW p \in unheard' \ moved'
      PROVE  \E q \in Request : pc'[q] = "emit" /\ p \in req'[q].products
  <2>1. p \in unheard \ moved /\ p \notin req[r].products
    BY <1>2, <1>3
  <2>2. PICK q \in Request : pc[q] = "emit" /\ p \in req[q].products
    BY <2>1 DEF UnitsAnnounced
  <2> QED
    BY <1>1, <2>1, <2>2 DEF Alone
<1> QED
  BY <1>3 DEF UnitsAnnounced

\* Phones of customers that were written tell other requests, but not of products.
LEMMA PhonesTell ==
  ASSUME RowsInv, NEW r \in Request, CreateCustomer(r) \/ UpdateCustomerWrite(r), ~Refuse(r)
  PROVE  /\ pc[r] # "emit" /\ UNCHANGED heard
         /\ \A q \in Request \ {r} : pc'[q] = pc[q] /\ req'[q].products = req[q].products
<1>1. PICK i, v : Written(r, i, v, "idle", NoReq)
  BY DEF CreateCustomer, UpdateCustomerWrite
<1>2. ASSUME NEW q \in Request \ {r}
      PROVE  pc'[q] = pc[q] /\ req'[q].products = req[q].products
  <2>1. req'[q] \in {req[q], [req[q] EXCEPT !.clash = TRUE]}
    BY <1>1 DEF Written
  <2>2. [req[q] EXCEPT !.clash = TRUE].products = req[q].products
    <3>1. ASSUME NEW x \in ReqRec, NEW b
          PROVE  [x EXCEPT !.clash = b].products = x.products
      BY DEF ReqRec
    <3> QED
      BY <3>1 DEF RowsInv
  <2>3. pc'[q] = pc[q]
    BY <1>1 DEF Written, RowsInv
  <2> QED
    BY <2>1, <2>2, <2>3
<1> QED
  BY <1>2 DEF CreateCustomer, UpdateCustomerWrite

LEMMA AnnouncedNext ==
  ASSUME RowsInv, UnitsAnnounced, [Next]_vars
  PROVE  UnitsAnnounced'
<1>1. CASE UNCHANGED vars
  BY <1>1 DEF vars, UnitsAnnounced
<1>2. CASE Next
  <2>1. PICK r \in Request :
        \/ UpdateUserRead(r) \/ MeRead(r) \/ UpdateCustomerRead(r) \/ CustomerStatusRead(r)
        \/ UpdateUnitRead(r) \/ UnitStatusRead(r) \/ UpdateClosureRead(r)
        \/ UpdateOrderRead(r) \/ CancelOrderRead(r)
        \/ UpdateUserCheck(r) \/ UpdateCustomerCheck(r) \/ UpdateUnitCheck(r)
        \/ CreateUserCheck(r) \/ CreateCustomerCheck(r) \/ CustomerCode(r)
        \/ CreateUnitCheck(r) \/ DeleteUnitsRead(r) \/ OrderCode(r) \/ DeleteOrdersRead(r)
        \/ UpdateUserWrite(r) \/ MeWrite(r) \/ CreateUser(r) \/ SeedAdmin(r) \/ DeleteRows(r)
        \/ CustomerStatusWrite(r) \/ UpdateClosureWrite(r) \/ CreateClosure(r)
        \/ UpdateOrderWrite(r) \/ CancelOrderWrite(r) \/ CreateOrder(r) \/ DeleteOrders(r)
        \/ CreateUnit(r) \/ UpdateUnitWrite(r) \/ UnitStatusWrite(r) \/ DeleteUnits(r)
        \/ EmitAvailabilityChanged(r)
        \/ CreateCustomer(r) \/ UpdateCustomerWrite(r)
    BY <1>2 DEF Next
  <2>2. CASE \/ CreateUnit(r) \/ UpdateUnitWrite(r) \/ UnitStatusWrite(r) \/ DeleteUnits(r)
             \/ EmitAvailabilityChanged(r)
    BY <2>2, UnitsStep, EmitStep
  <2>3. CASE CreateCustomer(r) \/ UpdateCustomerWrite(r)
    <3>1. pc[r] # "emit"
      BY <2>3 DEF CreateCustomer, UpdateCustomerWrite
    <3>2. CASE Refuse(r)
      BY <3>1, <3>2, WritesAlone, QuietStep DEF Alone
    <3>3. CASE ~Refuse(r)
      BY <2>3, <3>3, PhonesTell, QuietStep
    <3> QED
      BY <3>2, <3>3
  <2>4. CASE ~\/ CreateUnit(r) \/ UpdateUnitWrite(r) \/ UnitStatusWrite(r) \/ DeleteUnits(r)
              \/ EmitAvailabilityChanged(r) \/ CreateCustomer(r) \/ UpdateCustomerWrite(r)
    <3>1. Alone(r) /\ pc[r] # "emit" /\ UNCHANGED heard
      BY <2>1, <2>4, ReadsAlone, NotesAlone, WritesAlone
    <3> QED
      BY <3>1, QuietStep DEF Alone
  <2> QED
    BY <2>2, <2>3, <2>4
<1> QED
  BY <1>1, <1>2

-----------------------------------------------------------------------------
(* Phones of customers.                                                    *)

\* Rows are as they were, or deleted, or have another status; a request that
\* looks at a phone has found it free.
LEMMA PhonesStay ==
  ASSUME RowsInv, PhonesInv, NEW r \in Request, table' = table, Alone(r),
         \A i \in Row : Live(i)' =>
           /\ Live(i) /\ rows'[i].cols.phone = rows[i].cols.phone
           /\ rows'[i].twin = rows[i].twin,
         table = "customers" => Checked(r)'
  PROVE  PhonesInv'
<1>1. Row' = Row
  BY DEF Row
<1>2. PhonesAreUnshared'
  <2> SUFFICES ASSUME table = "customers", NEW i \in Row, NEW j \in Row, i # j,
                      Live(i)', Live(j)', rows'[i].cols.phone = rows'[j].cols.phone
               PROVE  rows'[i].cols.phone = None \/ rows'[i].twin \/ rows'[j].twin
    BY <1>1 DEF PhonesAreUnshared
  <2> QED
    BY DEF PhonesInv, PhonesAreUnshared
<1>3. ASSUME table = "customers", NEW q \in Request PROVE Checked(q)'
  <2>1. CASE q = r
    BY <1>3, <2>1
  <2>2. CASE q # r
    <3>1. pc'[q] = pc[q] /\ req'[q] = req[q] /\ Checked(q)
      BY <1>3, <2>2 DEF PhonesInv, Alone
    <3> QED
      BY <1>1, <3>1 DEF Checked
  <2> QED
    BY <2>1, <2>2
<1> QED
  BY <1>2, <1>3 DEF PhonesInv

\* Row i has phone v now, which request r had found free unless it was told.
LEMMA PhoneWritten ==
  ASSUME RowsInv, PhonesInv, table = "customers", table' = table,
         NEW r \in Request, Checked(r),
         pc[r] \in {"customer.insert", "customer.write"},
         NEW i \in Row, req[r].row \in {None, i}, NEW x \in RowRec,
         req[r].row = None => ~Exists(i),
         rows' = [rows EXCEPT ![i] = x],
         Live(i)' => \/ ~Exists(i) \/ Live(i),
         \/ /\ req[r].key # Absent
            /\ x.cols.phone = req[r].key /\ x.twin = req[r].clash
         \/ /\ req[r].key = Absent /\ Exists(i)
            /\ x.cols.phone = rows[i].cols.phone /\ x.twin = rows[i].twin,
         Written(r, req[r].row, req[r].key, "idle", NoReq)
  PROVE  PhonesInv'
<1>0. /\ rows \in [Row -> RowRec \cup {None}] /\ pc \in [Request -> Label]
      /\ None \notin Row /\ Absent \notin Value /\ Row' = Row
  BY DirectoryAssumption DEF RowsInv, Row
<1>1. /\ rows'[i] = x /\ \A k \in Row \ {i} : rows'[k] = rows[k] /\ (Live(k)' <=> Live(k))
  BY <1>0 DEF Live, Exists
<1>2. \/ /\ req[r].key # Absent
         /\ x.cols.phone = req[r].key /\ x.twin = req[r].clash
      \/ /\ req[r].key = Absent /\ (Live(i)' => Live(i))
         /\ x.cols.phone = rows[i].cols.phone /\ x.twin = rows[i].twin
  OBVIOUS
<1>3. ASSUME req[r].key \in Value, ~req[r].clash, NEW k \in Row \ {i}, Live(k)
      PROVE  rows[k].cols.phone # req[r].key
  BY <1>0, <1>3 DEF Checked
<1>4. ASSUME NEW k \in Row \ {i}, Live(k)', Live(i)', x.cols.phone = rows[k].cols.phone
      PROVE  x.cols.phone = None \/ x.twin \/ rows[k].twin
  <2>1. CASE req[r].key \notin Value
    <3>1. req[r].key \in {None, Absent}
      BY <2>1 DEF RowsInv, ReqRec
    <3>2. CASE req[r].key # Absent
      BY <1>2, <3>1, <3>2
    <3>3. CASE req[r].key = Absent
      <4>1. Live(i) /\ x.cols.phone = rows[i].cols.phone /\ x.twin = rows[i].twin
        BY <1>2, <1>4, <3>3
      <4> QED
        BY <1>1, <1>4, <4>1 DEF PhonesInv, PhonesAreUnshared
    <3> QED
      BY <3>2, <3>3
  <2>2. CASE req[r].key \in Value
    BY <1>0, <1>1, <1>2, <1>3, <1>4, <2>2
  <2> QED
    BY <2>1, <2>2
<1>5. PhonesAreUnshared'
  <2> SUFFICES ASSUME NEW j \in Row, NEW k \in Row, j # k,
                      Live(j)', Live(k)', rows'[j].cols.phone = rows'[k].cols.phone
               PROVE  rows'[j].cols.phone = None \/ rows'[j].twin \/ rows'[k].twin
    BY <1>0 DEF PhonesAreUnshared
  <2>1. CASE j # i /\ k # i
    BY <1>1, <2>1 DEF PhonesInv, PhonesAreUnshared
  <2>2. CASE j = i
    BY <1>1, <1>4, <2>2
  <2>3. CASE k = i
    BY <1>1, <1>4, <2>3
  <2> QED
    BY <2>1, <2>2, <2>3
<1>6. ASSUME NEW q \in Request PROVE Checked(q)'
  <2>1. CASE q = r
    <3>1. pc'[q] = "idle"
      BY <1>0, <2>1 DEF Written
    <3> QED
      BY <3>1 DEF Checked
  <2>2. CASE q # r
    <3> DEFINE told == /\ req[r].key \in Value /\ req[q].key = req[r].key
                       /\ req[r].row \in {None} \cup (Row \ {req[q].row})
    <3>1. /\ pc'[q] = pc[q]
          /\ req'[q] = IF told THEN [req[q] EXCEPT !.clash = TRUE] ELSE req[q]
      BY <1>0, <2>2 DEF Written
    <3>2. Checked(q) /\ req[q] \in ReqRec
      BY DEF PhonesInv, RowsInv
    <3>3. CASE told
      <4>1. ASSUME NEW y \in ReqRec, NEW b
            PROVE  LET z == [y EXCEPT !.clash = b]
                   IN z.clash = b /\ z.row = y.row /\ z.key = y.key
        BY DEF ReqRec
      <4>2. req'[q].clash = TRUE /\ req'[q].row = req[q].row /\ req'[q].key = req[q].key
        BY <3>1, <3>2, <3>3, <4>1
      <4> QED
        BY <3>1, <3>2, <4>2 DEF Checked
    <3>4. CASE ~told
      <4>1. req'[q] = req[q]
        BY <3>1, <3>4
      <4>2. ASSUME pc[q] \in {"customer.code", "customer.insert", "customer.write"},
                   req[q].key \in Value, ~req[q].clash,
                   NEW k \in Row \ {req[q].row}, Live(k)'
            PROVE  rows'[k].cols.phone # req[q].key
        <5>1. CASE k # i
          BY <1>1, <3>2, <4>2, <5>1 DEF Checked
        <5>2. CASE k = i /\ req[r].key # Absent
          BY <1>0, <1>1, <1>2, <3>4, <4>2, <5>2
        <5>3. CASE k = i /\ req[r].key = Absent
          BY <1>1, <1>2, <3>2, <4>2, <5>3 DEF Checked
        <5> QED
          BY <5>1, <5>2, <5>3
      <4> QED
        BY <1>0, <3>1, <3>2, <4>1, <4>2 DEF Checked
    <3> QED
      BY <3>3, <3>4
  <2> QED
    BY <2>1, <2>2
<1> QED
  BY <1>5, <1>6 DEF PhonesInv

\* What a create and an update of a customer write.
LEMMA CustomerInserted ==
  ASSUME RowsInv, PhonesInv, NEW r \in Request, CreateCustomer(r), ~Refuse(r)
  PROVE  PhonesInv'
<1>1. pc[r] = "customer.insert" /\ table = "customers" /\ table' = table
      /\ Written(r, None, req[r].key, "idle", NoReq)
  BY DEF CreateCustomer, RowsInv, Working, Fits, CustomerLabel
<1>2. Checked(r) /\ req[r].row = None /\ req[r].key # Absent /\ req[r] \in ReqRec
  BY <1>1 DEF PhonesInv, Checked, RowsInv
<1>3. PICK s \in Status :
        Insert(r, [code |-> req[r].code, phone |-> req[r].key, status |-> s])
  BY DEF CreateCustomer
<1> DEFINE cols == [code |-> req[r].code, phone |-> req[r].key, status |-> s]
<1>4. cols \in [Columns[table] -> Cell] /\ cols.phone = req[r].key
  BY <1>1, <1>2, CustomerCols DEF Cell, ReqRec
<1> HIDE DEF cols
<1>5. PICK i \in Row, x \in RowRec :
        /\ ~Exists(i) /\ rows' = [rows EXCEPT ![i] = x]
        /\ x.cols = cols /\ x.twin = req[r].clash
  BY <1>1, <1>3, <1>4, InsertWrites DEF cols
<1> QED
  BY <1>1, <1>2, <1>4, <1>5, PhoneWritten

LEMMA CustomerWritten ==
  ASSUME RowsInv, PhonesInv, NEW r \in Request, UpdateCustomerWrite(r)
  PROVE  PhonesInv'
<1> PICK i \in {req[r].row} : TRUE
  OBVIOUS
<1> DEFINE given == Given([phone |-> req[r].key])
<1>1. /\ pc[r] = "customer.write" /\ table = "customers" /\ table' = table
      /\ Written(r, i, req[r].key, "idle", NoReq)
  BY CustomerUpdated DEF UpdateCustomerWrite
<1>2. /\ Checked(r) /\ i \in Row /\ Exists(i)
      /\ rows \in [Row -> RowRec \cup {None}]
  BY <1>1 DEF PhonesInv, RowsInv, Working, Holding
<1>3. /\ given \in Statement /\ given.phone = req[r].key
  BY CustomerUpdated
<1>4. PICK x : Written1(r, given, x)
  BY CustomerUpdated
<1> HIDE DEF given
<1>5. rows[i].cols \in [Columns[table] -> Cell]
  BY <1>2, SeenIsRead
<1>6. /\ "phone" \in DOMAIN given
      /\ Set(rows[i].cols, given)["phone"] =
           IF req[r].key = Absent THEN rows[i].cols.phone ELSE req[r].key
  BY <1>1, <1>3, <1>5, CustomerCols DEF Set, Statement
<1>7. /\ x \in RowRec /\ rows' = [rows EXCEPT ![i] = x] /\ x.deleted = rows[i].deleted
      /\ x.cols.phone = IF req[r].key = Absent THEN rows[i].cols.phone ELSE req[r].key
      /\ x.twin = IF req[r].key = Absent THEN rows[i].twin ELSE req[r].clash
  BY <1>3, <1>4, <1>6 DEF Written1
<1>8. Live(i)' => Live(i)
  <2>1. rows'[i] = x
    BY <1>2, <1>7
  <2> QED
    BY <1>2, <1>7, <2>1 DEF Live
<1>9. i # None
  BY <1>2, DirectoryAssumption DEF RowsInv, Row
<1>10. \/ /\ req[r].key # Absent
          /\ x.cols.phone = req[r].key /\ x.twin = req[r].clash
       \/ /\ req[r].key = Absent /\ Exists(i)
          /\ x.cols.phone = rows[i].cols.phone /\ x.twin = rows[i].twin
  BY <1>2, <1>7
<1>11. x \in RowRec /\ rows' = [rows EXCEPT ![i] = x]
  BY <1>7
<1> QED
  BY <1>1, <1>2, <1>8, <1>9, <1>10, <1>11, PhoneWritten

\* The requests that only look.
LEMMA PhoneChecked ==
  ASSUME RowsInv, PhonesInv, NEW r \in Request, table = "customers",
         \/ CreateCustomerCheck(r) \/ CustomerCode(r) \/ UpdateCustomerRead(r)
         \/ UpdateCustomerCheck(r) \/ CustomerStatusRead(r)
         \/ Refuse(r) /\ pc[r] # "emit"
  PROVE  PhonesInv'
<1>1. Alone(r) /\ UNCHANGED <<table, rows>>
  BY ReadsAlone, NotesAlone, WritesAlone DEF Refuse
<1>2. pc \in [Request -> Label] /\ req \in [Request -> ReqRec]
      /\ None \notin Nat /\ Absent # None /\ Absent \notin Value
  BY DirectoryAssumption DEF RowsInv
<1>3. Checked(r)'
  <2>1. CASE \/ UpdateCustomerRead(r) \/ CustomerStatusRead(r)
             \/ Refuse(r) /\ pc[r] # "emit"
    <3>1. pc'[r] \in {"customer.check", "customer.status", "idle"}
      BY <1>2, <2>1 DEF UpdateCustomerRead, CustomerStatusRead, Read, Goto, Refuse, End
    <3> QED
      BY <3>1 DEF Checked
  <2>2. CASE CreateCustomerCheck(r)
    <3>1. PICK v \in Value \cup {None} :
            /\ pc' = [pc EXCEPT ![r] = "customer.code"]
            /\ ~PhoneTaken(v, None) /\ req' = [req EXCEPT ![r] = [NoReq EXCEPT !.key = v]]
      BY <2>2 DEF CreateCustomerCheck, Goto, Keep
    <3>2. /\ pc'[r] = "customer.code" /\ req'[r].row = None /\ req'[r].key = v
      BY <1>2, <3>1 DEF NoReq
    <3>3. v \in Value => \A i \in Row \ {None} : Live(i) => rows[i].cols.phone # v
      BY <3>1 DEF PhoneTaken, Holders, Live
    <3> QED
      BY <1>1, <1>2, <3>2, <3>3, ZenonT(60) DEF Checked, Row, Live, Exists
  <2>3. CASE CustomerCode(r)
    <3>1. /\ pc[r] = "customer.code" /\ pc' = [pc EXCEPT ![r] = "customer.insert"]
          /\ req' = [req EXCEPT ![r] = [req[r] EXCEPT !.code = NextCode]]
      BY <2>3 DEF CustomerCode, Goto, Keep
    <3>2. /\ pc'[r] = "customer.insert" /\ req'[r].row = req[r].row
          /\ req'[r].key = req[r].key /\ req'[r].clash = req[r].clash
      BY <1>2, <3>1, SetReq, NextCodeIsFree
    <3>3. Checked(r)
      BY DEF PhonesInv
    <3> QED
      BY <1>1, <3>1, <3>2, <3>3 DEF Checked, Row, Live, Exists
  <2>4. CASE UpdateCustomerCheck(r) /\ ~Refuse(r)
    <3>1. PICK v \in Value \cup {None, Absent} :
            /\ ~PhoneTaken(v, req[r].row) /\ pc' = [pc EXCEPT ![r] = "customer.write"]
            /\ req' = [req EXCEPT ![r] = [req[r] EXCEPT !.key = v]]
      BY <2>4 DEF UpdateCustomerCheck, Goto, Keep
    <3>2. /\ pc'[r] = "customer.write" /\ req'[r].row = req[r].row /\ req'[r].key = v
      <4>1. req[r] \in ReqRec
        BY <1>2
      <4> DEFINE rec == [req[r] EXCEPT !.key = v]
      <4>2. rec.row = req[r].row /\ rec.key = v
        BY <4>1, SetReq
      <4> HIDE DEF rec
      <4> QED
        BY <1>2, <3>1, <4>2 DEF rec
    <3>3. v \in Value => \A i \in Row \ {req[r].row} : Live(i) => rows[i].cols.phone # v
      BY <3>1 DEF PhoneTaken, Holders, Live
    <3> QED
      BY <1>1, <3>2, <3>3 DEF Checked, Row, Live, Exists
  <2>5. CASE UpdateCustomerCheck(r) /\ Refuse(r)
    <3>1. pc'[r] = "idle"
      BY <1>2, <2>5 DEF Refuse, End
    <3> QED
      BY <3>1 DEF Checked
  <2> QED
    BY <2>1, <2>2, <2>3, <2>4, <2>5, Zenon
<1>4. \A i \in Row : Live(i)' => /\ Live(i) /\ rows'[i].cols.phone = rows[i].cols.phone
                                 /\ rows'[i].twin = rows[i].twin
  BY <1>1 DEF Live, Exists
<1> QED
  BY <1>1, <1>3, <1>4, PhonesStay

LEMMA StatusPhones ==
  ASSUME RowsInv, PhonesInv, NEW r \in Request, CustomerStatusWrite(r)
  PROVE  PhonesInv'
<1>1. Alone(r)
  BY WritesAlone
<1>2. pc'[r] = "idle" /\ table' = table
  BY DEF CustomerStatusWrite, RowsInv, End
<1> DEFINE i == req[r].row
<1>3. PICK x \in RowRec : /\ rows' = [rows EXCEPT ![i] = x]
                          /\ x.cols.phone = rows[i].cols.phone
                          /\ x.deleted = rows[i].deleted /\ x.twin = rows[i].twin
  BY StatusWritten
<1>4. i \in Row /\ Exists(i) /\ rows \in [Row -> RowRec \cup {None}]
  BY StatusWritten DEF RowsInv
<1>5. \A j \in Row : Live(j)' => /\ Live(j) /\ rows'[j].cols.phone = rows[j].cols.phone
                                 /\ rows'[j].twin = rows[j].twin
  BY <1>3, <1>4 DEF Live, Exists
<1>6. Checked(r)'
  BY <1>2 DEF Checked
<1> QED
  BY <1>1, <1>2, <1>5, <1>6, PhonesStay

LEMMA DeletedPhones ==
  ASSUME RowsInv, PhonesInv, NEW r \in Request, DeleteRows(r)
  PROVE  PhonesInv'
<1>1. Alone(r) /\ table' = table /\ pc'[r] = "idle"
  BY WritesAlone DEF DeleteRows
<1>2. PICK S \in SUBSET Row : Delete(S)
  BY DEF DeleteRows
<1>3. \A i \in Row : Stays(i)
  BY <1>2, DeleteWrites
<1>4. \A i \in Row : rows'[i].deleted \in BOOLEAN \/ ~Exists(i)'
  <2>1. rows' \in [Row -> RowRec \cup {None}]
    BY <1>2, DeleteWrites
  <2> QED
    BY <2>1 DEF Exists, RowRec, RowOf
<1>5. \A i \in Row : Live(i)' => /\ Live(i) /\ rows'[i].cols.phone = rows[i].cols.phone
                                 /\ rows'[i].twin = rows[i].twin
  BY <1>3 DEF Stays, Live
<1>6. Checked(r)'
  BY <1>1 DEF Checked
<1> QED
  BY <1>1, <1>5, <1>6, PhonesStay

\* What may happen while the table is that of the customers.
LEMMA CustomersOnly ==
  ASSUME RowsInv, table = "customers", NEW r \in Request
  PROVE  /\ ~UpdateUserRead(r) /\ ~MeRead(r) /\ ~UpdateUnitRead(r) /\ ~UnitStatusRead(r)
         /\ ~UpdateClosureRead(r) /\ ~UpdateOrderRead(r) /\ ~CancelOrderRead(r)
         /\ ~UpdateUserCheck(r) /\ ~UpdateUnitCheck(r) /\ ~CreateUserCheck(r)
         /\ ~CreateUnitCheck(r) /\ ~DeleteUnitsRead(r) /\ ~OrderCode(r) /\ ~DeleteOrdersRead(r)
         /\ ~UpdateUserWrite(r) /\ ~MeWrite(r) /\ ~CreateUser(r) /\ ~SeedAdmin(r)
         /\ ~UpdateClosureWrite(r) /\ ~CreateClosure(r)
         /\ ~UpdateOrderWrite(r) /\ ~CancelOrderWrite(r) /\ ~CreateOrder(r) /\ ~DeleteOrders(r)
         /\ ~CreateUnit(r) /\ ~UpdateUnitWrite(r) /\ ~UnitStatusWrite(r) /\ ~DeleteUnits(r)
         /\ ~EmitAvailabilityChanged(r)
<1>1. pc[r] \notin UserLabel \cup UnitLabel \cup ClosureLabel \cup OrderLabel
  BY DEF RowsInv, Working, Fits
<1>2. /\ ~UpdateUserRead(r) /\ ~MeRead(r) /\ ~UpdateUnitRead(r) /\ ~UnitStatusRead(r)
      /\ ~UpdateClosureRead(r) /\ ~UpdateOrderRead(r) /\ ~CancelOrderRead(r)
      /\ ~CreateUserCheck(r) /\ ~CreateUnitCheck(r) /\ ~DeleteUnitsRead(r)
      /\ ~OrderCode(r) /\ ~DeleteOrdersRead(r) /\ ~SeedAdmin(r) /\ ~CreateClosure(r)
  BY DEF UpdateUserRead, MeRead, UpdateUnitRead, UnitStatusRead, UpdateClosureRead,
         UpdateOrderRead, CancelOrderRead, CreateUserCheck, CreateUnitCheck, DeleteUnitsRead,
         OrderCode, DeleteOrdersRead, SeedAdmin, CreateClosure
<1>3. /\ ~UpdateUserCheck(r) /\ ~UpdateUnitCheck(r)
      /\ ~UpdateUserWrite(r) /\ ~MeWrite(r) /\ ~CreateUser(r) /\ ~UpdateClosureWrite(r)
  BY <1>1 DEF UpdateUserCheck, UpdateUnitCheck, UpdateUserWrite, MeWrite, CreateUser,
              UpdateClosureWrite, UserLabel, UnitLabel, ClosureLabel
<1>4. /\ ~UpdateOrderWrite(r) /\ ~CancelOrderWrite(r) /\ ~CreateOrder(r) /\ ~DeleteOrders(r)
      /\ ~CreateUnit(r) /\ ~UpdateUnitWrite(r) /\ ~UnitStatusWrite(r) /\ ~DeleteUnits(r)
      /\ ~EmitAvailabilityChanged(r)
  BY <1>1 DEF UpdateOrderWrite, CancelOrderWrite, CreateOrder, DeleteOrders, CreateUnit,
              UpdateUnitWrite, UnitStatusWrite, DeleteUnits, EmitAvailabilityChanged,
              UnitLabel, OrderLabel
<1> QED
  BY <1>2, <1>3, <1>4

LEMMA TableStays ==
  ASSUME RowsInv, NEW r \in Request, table # "customers",
         \/ UpdateUserRead(r) \/ MeRead(r) \/ UpdateCustomerRead(r) \/ CustomerStatusRead(r)
         \/ UpdateUnitRead(r) \/ UnitStatusRead(r) \/ UpdateClosureRead(r)
         \/ UpdateOrderRead(r) \/ CancelOrderRead(r)
         \/ UpdateUserCheck(r) \/ UpdateCustomerCheck(r) \/ UpdateUnitCheck(r)
         \/ CreateUserCheck(r) \/ CreateCustomerCheck(r) \/ CustomerCode(r)
         \/ CreateUnitCheck(r) \/ DeleteUnitsRead(r) \/ OrderCode(r) \/ DeleteOrdersRead(r)
         \/ UpdateUserWrite(r) \/ MeWrite(r) \/ CreateUser(r) \/ SeedAdmin(r) \/ DeleteRows(r)
         \/ CustomerStatusWrite(r) \/ UpdateClosureWrite(r) \/ CreateClosure(r)
         \/ UpdateOrderWrite(r) \/ CancelOrderWrite(r) \/ CreateOrder(r) \/ DeleteOrders(r)
         \/ CreateUnit(r) \/ UpdateUnitWrite(r) \/ UnitStatusWrite(r) \/ DeleteUnits(r)
         \/ EmitAvailabilityChanged(r)
         \/ CreateCustomer(r) \/ UpdateCustomerWrite(r)
  PROVE  table' = table
<1>1. Refuse(r) => table' = table
  BY DEF Refuse
<1>2. CASE \/ UpdateUserWrite(r) \/ MeWrite(r) \/ CreateUser(r) \/ SeedAdmin(r) \/ DeleteRows(r)
           \/ CustomerStatusWrite(r) \/ UpdateClosureWrite(r) \/ CreateClosure(r)
           \/ UpdateOrderWrite(r) \/ CancelOrderWrite(r) \/ CreateOrder(r) \/ DeleteOrders(r)
  BY <1>1, <1>2 DEF UpdateUserWrite, MeWrite, CreateUser, SeedAdmin, DeleteRows,
       CustomerStatusWrite, UpdateClosureWrite, CreateClosure, UpdateOrderWrite,
       CancelOrderWrite, CreateOrder, DeleteOrders
<1>3. CASE \/ CreateUnit(r) \/ UpdateUnitWrite(r) \/ UnitStatusWrite(r) \/ DeleteUnits(r)
           \/ EmitAvailabilityChanged(r) \/ CreateCustomer(r) \/ UpdateCustomerWrite(r)
  BY <1>1, <1>3 DEF CreateUnit, UpdateUnitWrite, UnitStatusWrite, DeleteUnits,
       EmitAvailabilityChanged, CreateCustomer, UpdateCustomerWrite
<1>4. CASE ~\/ UpdateUserWrite(r) \/ MeWrite(r) \/ CreateUser(r) \/ SeedAdmin(r)
            \/ DeleteRows(r) \/ CustomerStatusWrite(r) \/ UpdateClosureWrite(r)
            \/ CreateClosure(r) \/ UpdateOrderWrite(r) \/ CancelOrderWrite(r)
            \/ CreateOrder(r) \/ DeleteOrders(r)
            \/ CreateUnit(r) \/ UpdateUnitWrite(r) \/ UnitStatusWrite(r) \/ DeleteUnits(r)
            \/ EmitAvailabilityChanged(r) \/ CreateCustomer(r) \/ UpdateCustomerWrite(r)
  BY <1>4, ReadsAlone, NotesAlone
<1> QED
  BY <1>2, <1>3, <1>4

LEMMA PhonesNext ==
  ASSUME RowsInv, PhonesInv, [Next]_vars
  PROVE  PhonesInv'
<1>1. CASE UNCHANGED vars
  BY <1>1 DEF vars, PhonesInv, PhonesAreUnshared, Checked, Row, Live, Exists
<1>2. CASE Next /\ table # "customers"
  <2>1. table' = table
    BY <1>2, TableStays DEF Next
  <2> QED
    BY <1>2, <2>1 DEF PhonesInv, PhonesAreUnshared
<1>3. CASE Next /\ table = "customers"
  <2>1. PICK r \in Request :
          \/ CreateCustomerCheck(r) \/ CustomerCode(r) \/ UpdateCustomerRead(r)
          \/ UpdateCustomerCheck(r) \/ CustomerStatusRead(r)
          \/ CreateCustomer(r) \/ UpdateCustomerWrite(r) \/ CustomerStatusWrite(r)
          \/ DeleteRows(r)
    BY <1>3, CustomersOnly DEF Next
  <2>2. CASE CreateCustomer(r) /\ Refuse(r)
    <3>1. pc[r] # "emit"
      BY <2>2 DEF CreateCustomer
    <3> QED
      BY <1>3, <2>2, <3>1, PhoneChecked
  <2>3. CASE CreateCustomer(r) /\ ~Refuse(r)
    BY <2>3, CustomerInserted
  <2>4. CASE UpdateCustomerWrite(r) \/ CustomerStatusWrite(r) \/ DeleteRows(r)
    BY <2>4, CustomerWritten, StatusPhones, DeletedPhones
  <2>5. CASE \/ CreateCustomerCheck(r) \/ CustomerCode(r) \/ UpdateCustomerRead(r)
             \/ UpdateCustomerCheck(r) \/ CustomerStatusRead(r)
    BY <1>3, <2>5, PhoneChecked
  <2> QED
    BY <2>1, <2>2, <2>3, <2>4, <2>5
<1> QED
  BY <1>1, <1>2, <1>3

-----------------------------------------------------------------------------
LEMMA DirectoryStarts == Init => DirectoryInv
<1> SUFFICES ASSUME Init PROVE DirectoryInv
  OBVIOUS
<1>1. \A i \in Row : ~Live(i)
  BY DEF Init, Live, Exists
<1>2. PhonesInv
  BY <1>1 DEF Init, PhonesInv, PhonesAreUnshared, Checked
<1>3. UnitsAnnounced
  BY DEF Init, UnitsAnnounced
<1> QED
  BY <1>2, <1>3, InitRows DEF DirectoryInv

LEMMA DirectoryContinues == DirectoryInv /\ [Next]_vars => DirectoryInv'
  BY RowsNext, PhonesNext, AnnouncedNext DEF DirectoryInv

\* The handlers of users, customers, units, closures and orders keep the types
\* of their tables and what their requests remember true, in every run.
THEOREM DirectoryHolds == Spec => []DirectoryInv
  BY DirectoryStarts, DirectoryContinues, PTL DEF Spec

\* Two customers share a phone only if two requests both found it free.
THEOREM PhonesUnshared == Spec => []PhonesAreUnshared
<1>1. DirectoryInv => PhonesAreUnshared
  BY DEF DirectoryInv, PhonesInv
<1> QED
  BY <1>1, DirectoryHolds, PTL

\* The clients are told of every product whose units changed.
THEOREM UnitsAreAnnounced == Spec => []UnitsAnnounced
<1>1. DirectoryInv => UnitsAnnounced
  BY DEF DirectoryInv
<1> QED
  BY <1>1, DirectoryHolds, PTL

\* The next code is free until codes outgrow their digits.
THEOREM CodesComing == Spec => []CodesKeepComing
<1>1. CodesKeepComing
  BY NextCodeIsFree DEF CodesKeepComing
<1> QED
  BY <1>1, PTL

-----------------------------------------------------------------------------
(* Lists.                                                                  *)

\* The rows before i, in the order of the query, are fewer than all rows.
LEMMA RankIsSmall ==
  ASSUME RowsInv, NEW i \in Row, NEW B \in SUBSET (Row \ {i})
  PROVE  Cardinality(Row) \in Nat /\ Cardinality(B) \in 0 .. Cardinality(Row) - 1
<1>1. IsFiniteSet(Row)
  BY DirectoryAssumption DEF RowsInv, Row
<1>2. Cardinality(Row) \in Nat /\ Cardinality(Row \ {i}) = Cardinality(Row) - 1
      /\ IsFiniteSet(Row \ {i})
  BY <1>1, FS_RemoveElement, FS_CardinalityType
<1>3. IsFiniteSet(B) /\ Cardinality(B) <= Cardinality(Row \ {i}) /\ Cardinality(B) \in Nat
  BY <1>2, FS_Subset, FS_CardinalityType
<1> QED
  BY ONLY <1>2, <1>3

\* A closure refuses a rental, is listed and covers an instant of it, together.
LEMMA ClosuresAgree == RowsInv => ClosureBlocksItsDays
<1> SUFFICES ASSUME RowsInv, table = "closures",
                    \A i \in Row : Live(i) => ~rows[i].stale,
                    NEW s \in Date, NEW e \in Date, s < e
             PROVE  LET shared == {i \in Row : Live(i) /\ \E t \in s .. e - 1 :
                                   rows[i].cols.startDate <= t /\ t < rows[i].cols.endDate}
                        q == [search |-> Absent, status |-> Absent, product |-> Absent,
                              from |-> s, to |-> e, by |-> [j \in Row |-> 0],
                              page |-> 1, perPage |-> Cardinality(Row)]
                    IN /\ NoClosureOverlap(s, e) <=> shared = {}
                       /\ shared = getAllStoreClosures(q)
  BY DEF ClosureBlocksItsDays
<1> DEFINE shared == {i \in Row : Live(i) /\ \E t \in s .. e - 1 :
                       rows[i].cols.startDate <= t /\ t < rows[i].cols.endDate}
           q == [search |-> Absent, status |-> Absent, product |-> Absent,
                 from |-> s, to |-> e, by |-> [j \in Row |-> 0],
                 page |-> 1, perPage |-> Cardinality(Row)]
           meet == {i \in Row : Live(i) /\ rows[i].cols.startDate < e
                                        /\ rows[i].cols.endDate > s}
<1>1. s \in Nat /\ e \in Nat /\ s # Absent /\ e # Absent
  BY DirectoryAssumption
<1>2. ASSUME NEW i \in Row, Live(i)
      PROVE  (\E t \in s .. e - 1 : rows[i].cols.startDate <= t /\ t < rows[i].cols.endDate)
               <=> (rows[i].cols.startDate < e /\ rows[i].cols.endDate > s)
  <2> DEFINE a == rows[i].cols.startDate
             b == rows[i].cols.endDate
  <2>1. a \in Nat /\ b \in Nat /\ a < b
    BY <1>2 DEF RowsInv, Follows, Live
  <2> HIDE DEF a, b
  <2>2. ASSUME a < e, b > s PROVE \E t \in s .. e - 1 : a <= t /\ t < b
    <3>1. CASE a <= s
      BY <1>1, <2>1, <2>2, <3>1
    <3>2. CASE ~(a <= s)
      BY <1>1, <2>1, <2>2, <3>2
    <3> QED
      BY <3>1, <3>2
  <2>3. ASSUME NEW t \in s .. e - 1, a <= t, t < b PROVE a < e /\ b > s
    BY <1>1, <2>1, <2>3
  <2>4. (\E t \in s .. e - 1 : a <= t /\ t < b) <=> (a < e /\ b > s)
    BY <2>2, <2>3
  <2> QED
    BY <2>4 DEF a, b
<1>3. shared = meet
  BY <1>2
<1>4. NoClosureOverlap(s, e) <=> meet = {}
  BY DEF NoClosureOverlap
<1>5. getAllStoreClosures(q) = Page(meet, q)
  <2>1. {i \in Row : /\ Live(i)
                     /\ q.to # Absent => rows[i].cols.startDate < q.to
                     /\ q.from # Absent => rows[i].cols.endDate > q.from} = meet
    BY <1>1
  <2> QED
    BY <2>1 DEF getAllStoreClosures
<1> HIDE DEF shared, meet
<1>6. meet \subseteq Row
  BY DEF meet
<1>7. ASSUME NEW F \in SUBSET Row PROVE Page(F, q) = F
  <2> DEFINE Before(i) == {j \in F : q.by[j] < q.by[i] \/ (q.by[j] = q.by[i] /\ j < i)}
  <2>1. ASSUME NEW i \in F PROVE Cardinality(Before(i)) \in 0 .. Cardinality(Row) - 1
    <3>1. i \in Nat
      BY <1>7, DirectoryAssumption DEF RowsInv, Row
    <3>2. i \in Row /\ q.by[i] = 0
      BY <1>7
    <3>3. i \notin Before(i)
      BY <3>1, <3>2
    <3>4. Before(i) \in SUBSET (Row \ {i})
      BY <3>3
    <3> HIDE DEF Before
    <3> QED
      BY <3>2, <3>4, RankIsSmall
  <2>2. (q.page - 1) * q.perPage = 0 /\ q.perPage = Cardinality(Row)
    <3>1. Cardinality(Row) \in Nat
      BY <1>1, RankIsSmall, FS_CardinalityType, DirectoryAssumption DEF RowsInv, Row
    <3> QED
      BY <3>1
  <2>3. Cardinality(Row) \in Nat
    BY FS_CardinalityType, DirectoryAssumption DEF RowsInv, Row
  <2> HIDE DEF Before, q
  <2>4. \A i \in F : Cardinality(Before(i)) \in
           (q.page - 1) * q.perPage .. (q.page - 1) * q.perPage + q.perPage - 1
    BY <2>1, <2>2, <2>3
  <2> QED
    BY <2>4 DEF Page, Before
<1> QED
  BY <1>3, <1>4, <1>5, <1>6, <1>7 DEF shared

\* The refusal, the list and the calendar agree on every closure.
THEOREM ClosuresBlock == Spec => []ClosureBlocksItsDays
<1>1. DirectoryInv => ClosureBlocksItsDays
  BY ClosuresAgree DEF DirectoryInv
<1> QED
  BY <1>1, DirectoryHolds, PTL

\* A row found, at some place of the order, is on one page.
LEMMA OnePage ==
  ASSUME NEW n \in Nat, NEW k \in 0 .. n - 1, NEW size \in 1 .. 2
  PROVE  Cardinality({p \in 1 .. n : k \in (p - 1) * size .. (p - 1) * size + size - 1}) = 1
<1> DEFINE On(p) == k \in (p - 1) * size .. (p - 1) * size + size - 1
<1>1. \E m \in 1 .. n : \A p \in 1 .. n : On(p) <=> p = m
  <2>1. CASE size = 1
    <3>1. k + 1 \in 1 .. n /\ \A p \in 1 .. n : On(p) <=> p = k + 1
      BY <2>1
    <3> QED
      BY <3>1
  <2>2. CASE size = 2
    <3>1. PICK h \in Nat : k = 2 * h \/ k = 2 * h + 1
      <4>1. k \div 2 \in Nat /\ k = 2 * (k \div 2) + (k % 2) /\ k % 2 \in 0 .. 1
        OBVIOUS
      <4> QED
        BY <4>1
    <3>2. h + 1 \in 1 .. n
      BY <3>1
    <3>3. ASSUME NEW p \in 1 .. n PROVE On(p) <=> p = h + 1
      BY <2>2, <3>1
    <3> QED
      BY <3>2, <3>3
  <2> QED
    BY <2>1, <2>2
<1>2. PICK m \in 1 .. n : \A p \in 1 .. n : On(p) <=> p = m
  BY <1>1
<1> HIDE DEF On
<1>3. {p \in 1 .. n : On(p)} = {m}
  BY <1>2
<1>4. Cardinality({m}) = 1
  BY FS_Singleton
<1> QED
  BY <1>3, <1>4 DEF On

\* What a page is cut from.
Found(q) ==
  IF table = "users" THEN WithText(q)
  ELSE IF table = "customers" THEN With("status", q.status, WithText(q))
  ELSE IF table = "assets"
       THEN With("productId", q.product, With("status", q.status, WithText(q)))
  ELSE With("status", q.status, WithText(q))

LEMMA SearchFinds == RowsInv => SearchFindsRow
<1> SUFFICES ASSUME RowsInv, NEW i \in Row, Live(i), ~rows[i].stale,
                    NEW c \in Searched[table], rows[i].cols[c] # None, c \notin rows[i].omitted,
                    NEW q \in Finding(i, rows[i].cols[c])
             PROVE  OnOnePage(i, q)
  BY DEF SearchFindsRow
<1>1. /\ q.search = rows[i].cols[c] /\ q.perPage \in 1 .. 2
      /\ "status" \in Columns[table] => q.status \in {Absent, rows[i].cols.status}
      /\ table = "assets" => q.product \in {Absent, rows[i].cols.productId}
  BY DEF Finding
<1>2. rows[i].text[c] = rows[i].cols[c] /\ c \in DOMAIN rows[i].text
  <2>1. Exists(i) /\ Follows(rows[i])
    BY DEF Live, RowsInv
  <2> QED
    BY <2>1, SeenIsRead DEF Follows
<1>3. i \in WithText(q)
  BY <1>1, <1>2 DEF WithText, Contains
<1>4. table \in {"users", "customers", "assets", "orders"}
  BY ColsNested, ClosureCols DEF RowsInv
<1>5. i \in Found(q) /\ Found(q) \subseteq Row
  BY <1>1, <1>3, <1>4, CustomerCols, UnitCols, OrderCols DEF Found, With, WithText
<1> DEFINE B == {j \in Found(q) : q.by[j] < q.by[i] \/ (q.by[j] = q.by[i] /\ j < i)}
<1>6. Cardinality(Row) \in Nat /\ Cardinality(B) \in 0 .. Cardinality(Row) - 1
  <2>1. i \in Nat /\ q.by[i] \in Int
    <3>1. Row \subseteq Nat
      BY DirectoryAssumption DEF RowsInv, Row
    <3>2. q.by \in {[j \in Row |-> 0], [j \in Row |-> -j]}
      BY DEF Finding
    <3> QED
      BY <3>1, <3>2
  <2>2. i \notin B
    BY <2>1
  <2>3. B \in SUBSET (Row \ {i})
    BY <1>5, <2>2
  <2> HIDE DEF B
  <2> QED
    BY <2>3, RankIsSmall
<1>7. ASSUME NEW p \in 1 .. Cardinality(Row)
      PROVE  i \in GetAll([q EXCEPT !.page = p]) <=>
             Cardinality(B) \in (p - 1) * q.perPage .. (p - 1) * q.perPage + q.perPage - 1
  <2> DEFINE r == [q EXCEPT !.page = p]
  <2>1. /\ r.search = q.search /\ r.status = q.status /\ r.product = q.product
        /\ r.by = q.by /\ r.perPage = q.perPage /\ r.page = p
    BY DEF Finding
  <2> HIDE DEF r
  <2>2. WithText(r) = WithText(q)
    BY <2>1 DEF WithText
  <2>3. Found(r) = Found(q)
    BY <2>1, <2>2 DEF Found
  <2>4. GetAll(r) = Page(Found(r), r)
    BY <1>4 DEF GetAll, Found, getAllUsers, getAllCustomers, getAllAssetUnits,
                getAllRentalOrders
  <2>5. i \in Page(Found(q), r) <=>
        Cardinality(B) \in (p - 1) * q.perPage .. (p - 1) * q.perPage + q.perPage - 1
    BY <1>5, <2>1 DEF Page
  <2> QED
    BY <2>3, <2>4, <2>5 DEF r
<1> HIDE DEF B
<1>8. {p \in 1 .. Cardinality(Row) : i \in GetAll([q EXCEPT !.page = p])} =
      {p \in 1 .. Cardinality(Row) :
         Cardinality(B) \in (p - 1) * q.perPage .. (p - 1) * q.perPage + q.perPage - 1}
  BY <1>7
<1> QED
  BY <1>1, <1>6, <1>8, OnePage DEF OnOnePage

\* A live row is found by every value it is searched by, on exactly one page,
\* unless its last text was made of a read that had been overtaken.
THEOREM SearchFinding == Spec => []SearchFindsRow
<1>1. DirectoryInv => SearchFindsRow
  BY SearchFinds DEF DirectoryInv
<1> QED
  BY <1>1, DirectoryHolds, PTL
=============================================================================
