--------------------------- MODULE ConnectionPool ---------------------------
(***************************************************************************)
(* The PostgreSQL connections of one API process, and what the order       *)
(* handlers do with them.  prisma.$transaction holds a connection from     *)
(* begin to commit.  Inside it, confirm and assign-assets wait for         *)
(* advisory locks and then read availability through PrismaService, which  *)
(* takes further connections of the same pool.                             *)
(*                                                                         *)
(* RentalOrders says what these transactions write; here only the order in *)
(* which they take and give back connections and locks matters.            *)
(***************************************************************************)
EXTENDS Integers, FiniteSets

CONSTANTS
  Request,  \* requests that may run at the same time
  Conn,     \* connections of the pool
  Key,      \* advisory locks; a transaction asks for one
  Reads,    \* queries of evaluateAvailability that may run side by side
  None      \* nobody

Slot == [by : Request, tx : BOOLEAN]

ASSUME PoolAssumption ==
  /\ IsFiniteSet(Request) /\ IsFiniteSet(Conn)
  /\ None \notin Request /\ None \notin Slot
  /\ Reads \in Nat \ {0}

VARIABLES
  conn,  \* who uses each connection, for a transaction or for one query
  lock,  \* who holds each advisory lock
  pc,    \* where each request stands
  key,   \* the lock a request asks for or holds
  todo   \* queries of its check it has not begun

vars == <<conn, lock, pc, key, todo>>

Label == {"idle", "lock", "check", "doomed", "other"}

TypeOK ==
  /\ conn \in [Conn -> Slot \cup {None}]
  /\ lock \in [Key -> Request \cup {None}]
  /\ pc \in [Request -> Label]
  /\ key \in [Request -> Key]
  /\ todo \in [Request -> 0..Reads]

Init ==
  /\ conn = [c \in Conn |-> None]
  /\ lock = [k \in Key |-> None]
  /\ pc = [r \in Request |-> "idle"]
  /\ key \in [Request -> Key]
  /\ todo = [r \in Request |-> 0]

Free == {c \in Conn : conn[c] = None}
Slots(r) == {c \in Conn : conn[c] # None /\ conn[c].by = r}
Querying(r) == {c \in Slots(r) : ~conn[c].tx}
Transacting(r) == {c \in Slots(r) : conn[c].tx}

\* A connection is taken from the free ones; which one makes no difference.
Take(r, tx) ==
  \E c \in Free : conn' = [conn EXCEPT ![c] = [by |-> r, tx |-> tx]]

\* Mutant: the lock outlives the transaction, as a session lock would.
EndTransactionKeepingLock(r) ==
  /\ conn' = [c \in Conn |-> IF c \in Transacting(r) THEN None ELSE conn[c]]
  /\ UNCHANGED lock

\* Commit or rollback: the connection and the advisory lock go back.
EndTransaction(r) ==
  /\ conn' = [c \in Conn |-> IF c \in Transacting(r) THEN None ELSE conn[c]]
  /\ lock' = [k \in Key |-> IF lock[k] = r THEN None ELSE lock[k]]

-----------------------------------------------------------------------------
\* confirm and assign-assets open a transaction and ask for their lock.
Begin(r) ==
  /\ pc[r] = "idle"
  /\ Take(r, TRUE)
  /\ pc' = [pc EXCEPT ![r] = "lock"]
  /\ \E k \in Key : key' = [key EXCEPT ![r] = k]
  /\ UNCHANGED <<lock, todo>>

\* The lock is granted; n queries follow, one in assign, more in confirm.
Lock(r) ==
  /\ pc[r] = "lock"
  /\ lock[key[r]] = None
  /\ lock' = [lock EXCEPT ![key[r]] = r]
  /\ pc' = [pc EXCEPT ![r] = "check"]
  /\ \E n \in 1..Reads : todo' = [todo EXCEPT ![r] = n]
  /\ UNCHANGED <<conn, key>>

\* A query of the check gets a connection of its own, and gives it back.
StartRead(r) ==
  /\ pc[r] \in {"check", "doomed"} /\ todo[r] > 0
  /\ Take(r, FALSE)
  /\ todo' = [todo EXCEPT ![r] = @ - 1]
  /\ UNCHANGED <<lock, pc, key>>

EndRead(r) ==
  /\ \E c \in Querying(r) : conn' = [conn EXCEPT ![c] = None]
  /\ UNCHANGED <<lock, pc, key, todo>>

\* All is read: write and commit.
Commit(r) ==
  /\ pc[r] = "check" /\ todo[r] = 0 /\ Querying(r) = {}
  /\ EndTransaction(r)
  /\ pc' = [pc EXCEPT ![r] = "idle"]
  /\ UNCHANGED <<key, todo>>

\* Mutant: the handler goes on, and its transaction is left open.
TimeoutWithoutRollback(r) ==
  /\ pc[r] \in {"lock", "check"}
  /\ pc' = [pc EXCEPT ![r] = IF @ = "lock" THEN "idle" ELSE "doomed"]
  /\ UNCHANGED <<conn, lock, key, todo>>

\* The transaction has been open too long and is rolled back.  Queries already
\* handed to the pool are still served; then the request fails.
Timeout(r) ==
  /\ pc[r] \in {"lock", "check"}
  /\ EndTransaction(r)
  /\ pc' = [pc EXCEPT ![r] = IF @ = "lock" THEN "idle" ELSE "doomed"]
  /\ UNCHANGED <<key, todo>>

Fail(r) ==
  /\ pc[r] = "doomed" /\ todo[r] = 0 /\ Querying(r) = {}
  /\ pc' = [pc EXCEPT ![r] = "idle"]
  /\ UNCHANGED <<conn, lock, key, todo>>

\* Any other handler: one transaction or query at a time, nothing to wait for.
OtherBegin(r) ==
  /\ pc[r] = "idle"
  /\ Take(r, TRUE)
  /\ pc' = [pc EXCEPT ![r] = "other"]
  /\ UNCHANGED <<lock, key, todo>>

OtherEnd(r) ==
  /\ pc[r] = "other"
  /\ EndTransaction(r)
  /\ pc' = [pc EXCEPT ![r] = "idle"]
  /\ UNCHANGED <<key, todo>>

Next == \E r \in Request :
  \/ Begin(r) \/ Lock(r) \/ StartRead(r) \/ EndRead(r) \/ Commit(r)
  \/ Timeout(r) \/ Fail(r) \/ OtherBegin(r) \/ OtherEnd(r)

Spec == Init /\ [][Next]_vars

\* PostgreSQL answers queries, timers fire, and the pool serves its waiters in
\* turn.  Nothing says that a lock is granted or a transaction gets to commit.
FairSpec ==
  /\ Spec
  /\ \A r \in Request : /\ WF_vars(EndRead(r)) /\ WF_vars(OtherEnd(r))
                        /\ WF_vars(Timeout(r)) /\ WF_vars(Fail(r))
                        /\ SF_vars(StartRead(r))

-----------------------------------------------------------------------------
(* Properties.                                                             *)

Busy == {r \in Request : pc[r] # "idle"}

\* What a request can do by itself, without any timeout.
CanMove(r) ==
  \/ pc[r] = "lock" /\ lock[key[r]] = None
  \/ /\ pc[r] \in {"check", "doomed"}
     /\ todo[r] > 0 => Free # {} \/ Querying(r) # {}
  \/ pc[r] = "other"

\* While fewer requests are under way than the pool has connections, they never
\* all wait for a connection that one of them holds, or for a lock whose holder
\* waits for a connection.
NoStall ==
  Busy # {} /\ Cardinality(Busy) < Cardinality(Conn)
    => \E r \in Busy : CanMove(r)

\* With as many requests as connections they do, and then only the timeout of
\* an open transaction gets them going again: every request ends.
EveryRequestEnds == \A r \in Request : pc[r] # "idle" ~> pc[r] = "idle"

\* A lock and a connection are given back together: who has a lock is in a
\* transaction, and nobody else uses a connection for one.
LocksLiveInTransactions ==
  /\ \A k \in Key : lock[k] # None =>
       pc[lock[k]] = "check" /\ Transacting(lock[k]) # {}
  /\ \A r \in Request : pc[r] \in {"idle", "doomed"} => Transacting(r) = {}
=============================================================================
