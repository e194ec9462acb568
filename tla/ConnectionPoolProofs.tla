------------------------ MODULE ConnectionPoolProofs ------------------------
(* With fewer requests under way than connections the pool never stalls,   *)
(* and locks live in transactions, however many requests, connections,     *)
(* locks and parallel queries there are.                                   *)
EXTENDS ConnectionPool, FiniteSetTheorems, TLAPS

\* A request has one connection for its transaction, and only while it is in
\* one; it has connections for queries only while it checks.
ConnectionUse ==
  /\ \A c, d \in Conn :
       /\ conn[c] # None /\ conn[c].tx
       /\ conn[d] # None /\ conn[d].tx
       /\ conn[c].by = conn[d].by
       => c = d
  /\ \A c \in Conn : conn[c] # None =>
       IF conn[c].tx THEN pc[conn[c].by] \in {"lock", "check", "other"}
                     ELSE pc[conn[c].by] \in {"check", "doomed"}

LockUse == \A k \in Key : lock[k] # None => pc[lock[k]] = "check"

PoolInv == TypeOK /\ ConnectionUse /\ LockUse

LEMMA InitPoolInv == Init => PoolInv
  BY PoolAssumption DEF Init, PoolInv, TypeOK, ConnectionUse, LockUse, Label

\* A request that takes a connection, for which it is in the right place.
LEMMA TakeKeeps ==
  ASSUME PoolInv, NEW r \in Request, NEW tx \in BOOLEAN, Take(r, tx),
         tx => pc[r] = "idle"
  PROVE  /\ conn' \in [Conn -> Slot \cup {None}]
         /\ \E c \in Conn :
              /\ conn[c] = None /\ conn'[c] = [by |-> r, tx |-> tx]
              /\ \A d \in Conn \ {c} : conn'[d] = conn[d]
  BY PoolAssumption DEF PoolInv, TypeOK, Take, Free, Slot

\* A transaction that ends leaves no connection in transaction and no lock.
LEMMA EndKeeps ==
  ASSUME PoolInv, NEW r \in Request, EndTransaction(r)
  PROVE  /\ conn' \in [Conn -> Slot \cup {None}]
         /\ lock' \in [Key -> Request \cup {None}]
         /\ \A c \in Conn : conn'[c] \in {conn[c], None}
         /\ \A c \in Conn : conn'[c] # None => ~(conn[c].tx /\ conn[c].by = r)
         /\ \A k \in Key : lock'[k] # None => lock'[k] = lock[k] /\ lock[k] # r
  BY PoolAssumption DEF PoolInv, TypeOK, EndTransaction, Transacting, Slots

LEMMA NextPoolInv == PoolInv /\ [Next]_vars => PoolInv'
<1> SUFFICES ASSUME PoolInv, [Next]_vars PROVE PoolInv'
  OBVIOUS
<1> USE PoolAssumption DEF PoolInv
<1>a. \A c \in Conn : conn[c] # None => conn[c].by \in Request /\ conn[c].tx \in BOOLEAN
  BY DEF TypeOK, Slot
<1>1. ASSUME NEW r \in Request, Begin(r) PROVE PoolInv'
  <2>1. PICK c \in Conn : /\ conn[c] = None /\ conn'[c] = [by |-> r, tx |-> TRUE]
                          /\ \A d \in Conn \ {c} : conn'[d] = conn[d]
    BY <1>1, TakeKeeps DEF Begin
  <2>2. TypeOK'
    BY <1>1, TakeKeeps DEF Begin, TypeOK, Label
  <2>3. ConnectionUse'
    BY <1>1, <1>a, <2>1 DEF Begin, ConnectionUse, TypeOK
  <2>4. LockUse'
    BY <1>1 DEF Begin, LockUse, TypeOK
  <2> QED
    BY <2>2, <2>3, <2>4
<1>2. ASSUME NEW r \in Request, Lock(r) PROVE PoolInv'
  <2>1. TypeOK'
    BY <1>2 DEF Lock, TypeOK, Label
  <2>2. ConnectionUse'
    BY <1>2, <1>a DEF Lock, ConnectionUse, TypeOK
  <2>3. LockUse'
    BY <1>2 DEF Lock, LockUse, TypeOK
  <2> QED
    BY <2>1, <2>2, <2>3
<1>3. ASSUME NEW r \in Request, StartRead(r) PROVE PoolInv'
  <2>1. PICK c \in Conn : /\ conn[c] = None /\ conn'[c] = [by |-> r, tx |-> FALSE]
                          /\ \A d \in Conn \ {c} : conn'[d] = conn[d]
    BY <1>3, TakeKeeps DEF StartRead
  <2>2. TypeOK'
    <3>1. conn' \in [Conn -> Slot \cup {None}]
      BY <1>3, TakeKeeps DEF StartRead
    <3>2. todo[r] - 1 \in 0..Reads
      BY <1>3 DEF StartRead, TypeOK
    <3> QED
      BY <1>3, <3>1, <3>2 DEF StartRead, TypeOK
  <2>3. ConnectionUse'
    BY <1>3, <1>a, <2>1 DEF StartRead, ConnectionUse, TypeOK
  <2>4. LockUse'
    BY <1>3 DEF StartRead, LockUse
  <2> QED
    BY <2>2, <2>3, <2>4
<1>4. ASSUME NEW r \in Request, EndRead(r) PROVE PoolInv'
  <2>1. TypeOK'
    BY <1>4 DEF EndRead, TypeOK, Querying, Slots
  <2>2. ConnectionUse'
    BY <1>4, <1>a DEF EndRead, ConnectionUse, TypeOK, Querying, Slots
  <2>3. LockUse'
    BY <1>4 DEF EndRead, LockUse
  <2> QED
    BY <2>1, <2>2, <2>3
<1>5. ASSUME NEW r \in Request, Commit(r) \/ Timeout(r) \/ OtherEnd(r) PROVE PoolInv'
  <2>1. EndTransaction(r) /\ UNCHANGED <<key, todo>>
    BY <1>5 DEF Commit, Timeout, OtherEnd
  <2>2. /\ pc' \in [Request -> Label] /\ pc'[r] \in {"idle", "doomed"}
        /\ \A q \in Request \ {r} : pc'[q] = pc[q]
        /\ pc'[r] = "idle" => pc[r] = "lock" \/ pc[r] = "other" \/ Querying(r) = {}
    BY <1>5 DEF Commit, Timeout, OtherEnd, TypeOK, Label
  <2>3. TypeOK'
    BY <2>1, <2>2, EndKeeps DEF TypeOK
  <2>4. \A c \in Conn : conn'[c] # None => conn'[c] = conn[c] /\ conn[c] # None
    BY <2>1, EndKeeps
  <2>5. ConnectionUse'
    <3>1. ASSUME NEW c \in Conn, conn'[c] # None, conn[c].by = r
          PROVE  ~conn[c].tx /\ pc'[r] = "doomed"
      BY <1>a, <2>1, <2>2, <2>4, <3>1, EndKeeps
      DEF ConnectionUse, Querying, Slots
    <3> QED
      BY <1>a, <2>2, <2>4, <3>1 DEF ConnectionUse
  <2>6. LockUse'
    BY <2>1, <2>2, EndKeeps DEF LockUse, TypeOK
  <2> QED
    BY <2>3, <2>5, <2>6
<1>6. ASSUME NEW r \in Request, Fail(r) PROVE PoolInv'
  <2>1. TypeOK'
    BY <1>6 DEF Fail, TypeOK, Label
  <2>2. ConnectionUse'
    BY <1>6, <1>a DEF Fail, ConnectionUse, TypeOK, Querying, Slots
  <2>3. LockUse'
    BY <1>6 DEF Fail, LockUse, TypeOK
  <2> QED
    BY <2>1, <2>2, <2>3
<1>7. ASSUME NEW r \in Request, OtherBegin(r) PROVE PoolInv'
  <2>1. PICK c \in Conn : /\ conn[c] = None /\ conn'[c] = [by |-> r, tx |-> TRUE]
                          /\ \A d \in Conn \ {c} : conn'[d] = conn[d]
    BY <1>7, TakeKeeps DEF OtherBegin
  <2>2. TypeOK'
    BY <1>7, TakeKeeps DEF OtherBegin, TypeOK, Label
  <2>3. ConnectionUse'
    BY <1>7, <1>a, <2>1 DEF OtherBegin, ConnectionUse, TypeOK
  <2>4. LockUse'
    BY <1>7 DEF OtherBegin, LockUse, TypeOK
  <2> QED
    BY <2>2, <2>3, <2>4
<1>8. CASE UNCHANGED vars
  BY <1>8 DEF vars, TypeOK, ConnectionUse, LockUse
<1> QED
  BY <1>1, <1>2, <1>3, <1>4, <1>5, <1>6, <1>7, <1>8 DEF Next

\* If everybody waits, every connection is held by a transaction of a request
\* of its own: there are no more connections than requests under way.
LEMMA StallNeedsAllConnections ==
  ASSUME PoolInv, Busy # {}, \A q \in Busy : ~CanMove(q)
  PROVE  Cardinality(Conn) <= Cardinality(Busy)
<1>1. PICK r \in Request : pc[r] # "idle"
  BY DEF Busy
<1>2. \A q \in Request : pc[q] # "idle" => ~CanMove(q)
  BY DEF Busy
<1>3. PICK q \in Request : pc[q] \in {"check", "doomed"}
  <2>1. CASE pc[r] = "lock"
    <3>1. key[r] \in Key /\ lock[key[r]] # None
      BY <1>2, <2>1 DEF CanMove, PoolInv, TypeOK
    <3>2. lock[key[r]] \in Request /\ pc[lock[key[r]]] = "check"
      BY <3>1 DEF PoolInv, TypeOK, LockUse
    <3> QED
      BY <3>2
  <2> QED
    BY <1>1, <1>2, <2>1 DEF CanMove, PoolInv, TypeOK, Label
<1>4. Free = {}
  BY <1>2, <1>3 DEF CanMove
<1>5. \A c \in Conn : conn[c] # None /\ conn[c] \in Slot /\ conn[c].by \in Request
  BY <1>4 DEF Free, PoolInv, TypeOK, Slot
<1>6. \A c \in Conn : conn[c].tx
  <2> SUFFICES ASSUME NEW c \in Conn, ~conn[c].tx PROVE FALSE
    OBVIOUS
  <2>1. pc[conn[c].by] \in {"check", "doomed"}
    BY <1>5 DEF PoolInv, ConnectionUse
  <2>2. c \in Querying(conn[c].by)
    BY <1>5 DEF Querying, Slots
  <2> QED
    BY <1>2, <1>5, <2>1, <2>2 DEF CanMove
<1> DEFINE owner == [c \in Conn |-> conn[c].by]
<1>7. owner \in [Conn -> Busy]
  <2>1. \A c \in Conn : pc[conn[c].by] \in {"lock", "check", "other"}
    BY <1>5, <1>6 DEF PoolInv, ConnectionUse
  <2> QED
    BY <1>5, <2>1 DEF Busy
<1>8. \A c, d \in Conn : owner[c] = owner[d] => c = d
  BY <1>5, <1>6 DEF PoolInv, ConnectionUse
<1>9. owner \in Injection(Conn, Busy)
  BY <1>7, <1>8 DEF Injection, IsInjective
<1>10. IsFiniteSet(Busy)
  BY PoolAssumption, FS_Subset DEF Busy
<1> QED
  BY <1>9, <1>10, FS_Injection, PoolAssumption

\* However requests, locks and queries interleave and time out, while fewer
\* requests than connections are under way, one of them can go on by itself.
THEOREM PoolNeverStalls == Spec => []NoStall
<1>1. PoolInv => NoStall
  <2>1. IsFiniteSet(Busy)
    BY PoolAssumption, FS_Subset DEF Busy
  <2>2. Cardinality(Busy) \in Nat /\ Cardinality(Conn) \in Nat
    BY <2>1, PoolAssumption, FS_CardinalityType
  <2>3. ASSUME PoolInv, Busy # {}, \A q \in Busy : ~CanMove(q)
        PROVE  ~(Cardinality(Busy) < Cardinality(Conn))
    BY <2>2, <2>3, StallNeedsAllConnections
  <2> QED
    BY <2>3 DEF NoStall
<1> QED
  BY <1>1, InitPoolInv, NextPoolInv, PTL DEF Spec

\* Whoever is in a transaction has a connection for it.
HasConnection ==
  \A r \in Request : pc[r] \in {"lock", "check", "other"} => Transacting(r) # {}

\* A connection in transaction stays with its request until that one's
\* transaction ends.
LEMMA KeptConnection ==
  ASSUME NEW q \in Request, Transacting(q) # {},
         \A c \in Conn : conn[c] # None /\ conn[c].tx /\ conn[c].by = q => conn'[c] = conn[c]
  PROVE  Transacting(q)' # {}
  BY DEF Transacting, Slots

LEMMA NextHasConnection == PoolInv /\ HasConnection /\ [Next]_vars => HasConnection'
<1> SUFFICES ASSUME PoolInv, HasConnection, [Next]_vars,
                    NEW q \in Request, pc'[q] \in {"lock", "check", "other"}
             PROVE  Transacting(q)' # {}
  BY DEF HasConnection
<1>1. TypeOK /\ pc \in [Request -> Label]
  BY DEF PoolInv, TypeOK
<1>2. pc[q] \in {"lock", "check", "other"} => Transacting(q) # {}
  BY DEF HasConnection
<1>3. ASSUME NEW r \in Request, Begin(r) \/ OtherBegin(r) PROVE Transacting(q)' # {}
  <2>1. Take(r, TRUE) /\ pc[r] = "idle" /\ (q # r => pc'[q] = pc[q])
    BY <1>1, <1>3 DEF Begin, OtherBegin
  <2>2. PICK c \in Conn : /\ conn[c] = None /\ conn'[c] = [by |-> r, tx |-> TRUE]
                          /\ \A d \in Conn \ {c} : conn'[d] = conn[d]
    BY <2>1, TakeKeeps
  <2>3. CASE q = r
    <3>1. conn'[c] \in Slot
      BY <2>2 DEF Slot
    <3>2. conn'[c] # None
      BY <3>1, PoolAssumption
    <3>3. conn'[c].by = q /\ conn'[c].tx = TRUE
      BY <2>2, <2>3
    <3> QED
      BY <3>2, <3>3 DEF Transacting, Slots
  <2>4. CASE q # r
    BY <1>2, <2>1, <2>2, <2>4, KeptConnection
  <2> QED
    BY <2>3, <2>4
<1>4. ASSUME NEW r \in Request, Lock(r) PROVE Transacting(q)' # {}
  <2>1. conn' = conn /\ pc[q] \in {"lock", "check", "other"}
    BY <1>1, <1>4 DEF Lock
  <2> QED
    BY <1>2, <2>1, KeptConnection
<1>5. ASSUME NEW r \in Request, StartRead(r) PROVE Transacting(q)' # {}
  <2>1. Take(r, FALSE) /\ pc' = pc /\ pc[r] # "idle"
    BY <1>5 DEF StartRead
  <2>2. PICK c \in Conn : /\ conn[c] = None /\ conn'[c] = [by |-> r, tx |-> FALSE]
                          /\ \A d \in Conn \ {c} : conn'[d] = conn[d]
    BY <2>1, TakeKeeps
  <2> QED
    BY <1>2, <2>1, <2>2, KeptConnection
<1>6. ASSUME NEW r \in Request, EndRead(r) PROVE Transacting(q)' # {}
  <2>1. PICK c \in Querying(r) : conn' = [conn EXCEPT ![c] = None]
    BY <1>6 DEF EndRead
  <2>2. c \in Conn /\ ~conn[c].tx /\ conn \in [Conn -> Slot \cup {None}]
    BY <1>1, <2>1 DEF Querying, Slots, TypeOK
  <2>3. \A d \in Conn \ {c} : conn'[d] = conn[d]
    BY <2>1, <2>2
  <2>4. pc' = pc
    BY <1>6 DEF EndRead
  <2> QED
    BY <1>2, <2>2, <2>3, <2>4, KeptConnection
<1>7. ASSUME NEW r \in Request, Commit(r) \/ Timeout(r) \/ OtherEnd(r)
      PROVE  Transacting(q)' # {}
  <2>1. EndTransaction(r) /\ q # r /\ pc'[q] = pc[q]
    BY <1>1, <1>7 DEF Commit, Timeout, OtherEnd
  <2>2. \A c \in Conn : conn[c] # None /\ conn[c].tx /\ conn[c].by = q => conn'[c] = conn[c]
    BY <2>1 DEF EndTransaction, Transacting, Slots
  <2> QED
    BY <1>2, <2>1, <2>2, KeptConnection
<1>8. ASSUME NEW r \in Request, Fail(r) PROVE Transacting(q)' # {}
  <2>1. conn' = conn /\ pc'[q] = pc[q]
    BY <1>1, <1>8 DEF Fail
  <2> QED
    BY <1>2, <2>1, KeptConnection
<1>9. CASE UNCHANGED vars
  BY <1>2, <1>9, KeptConnection DEF vars
<1> QED
  BY <1>3, <1>4, <1>5, <1>6, <1>7, <1>8, <1>9 DEF Next

\* Locks and connections are given back together, on every way a transaction
\* of confirm, of assign-assets or of another handler can end.
THEOREM PoolLocksInTransactions == Spec => []LocksLiveInTransactions
<1>1. Init => HasConnection
  BY DEF Init, HasConnection
<1>2. PoolInv /\ HasConnection => LocksLiveInTransactions
  <2> SUFFICES ASSUME PoolInv, HasConnection PROVE LocksLiveInTransactions
    OBVIOUS
  <2>1. ASSUME NEW k \in Key, lock[k] # None
        PROVE  pc[lock[k]] = "check" /\ Transacting(lock[k]) # {}
    <3>1. lock[k] \in Request /\ pc[lock[k]] = "check"
      BY <2>1 DEF PoolInv, LockUse, TypeOK
    <3> QED
      BY <3>1 DEF HasConnection
  <2>2. ASSUME NEW r \in Request, pc[r] \in {"idle", "doomed"}, NEW c \in Transacting(r)
        PROVE  FALSE
    BY <2>2 DEF PoolInv, ConnectionUse, Transacting, Slots
  <2> QED
    BY <2>1, <2>2 DEF LocksLiveInTransactions
<1> QED
  BY <1>1, <1>2, InitPoolInv, NextPoolInv, NextHasConnection, PTL DEF Spec
=============================================================================
