------------------------------- MODULE Roles -------------------------------
(***************************************************************************)
(* The role handlers of roles.service.ts as concurrent transactions over    *)
(* the join tables RolePermission and UserRole, and what the clients of     *)
(* the users concerned know of their permissions.                           *)
(*                                                                          *)
(* A handler is a plan: the statements it issues, in the order of the code. *)
(* The transactions run at READ COMMITTED, so a DELETE sees the rows that   *)
(* were committed when it began ("delete"), waits for the transactions that *)
(* are deleting one of them, and skips what they deleted ("sweep"); what    *)
(* was committed meanwhile it does not see.  INSERT ... ON CONFLICT DO      *)
(* NOTHING waits for the transactions that touch the same row.              *)
(*                                                                          *)
(* Left out: names, codes and descriptions of roles (an updateRole without  *)
(* a list of permissions changes nothing else), and changes of the users    *)
(* themselves, who are a fixed set here.                                    *)
(***************************************************************************)
EXTENDS Naturals, FiniteSets, Sequences

CONSTANTS Request,   \* HTTP calls that may be in progress at once
          User,
          Role,      \* ids of roles, those not yet created included
          System,    \* the seeded roles, which assertCustomRole protects
          Perm,
          NoOne      \* the holder of a role row that is not locked

ASSUME RolesAssumption ==
  /\ System \subseteq Role
  /\ NoOne \notin Request
  /\ User \cap Role = {} /\ User \cap Perm = {} /\ Role \cap Perm = {}

VARIABLES
  roles,     \* ids of the committed rows of Role
  unborn,    \* ids no role was created with: a uuid is never used twice
  rows,      \* committed rows of RolePermission and of UserRole
  lock,      \* the transaction that updated the row of a role
  todo,      \* the statements a request has still to issue
  call,      \* what a request was called with
  seen,      \* rows the DELETE in progress found
  deleted,   \* rows a transaction deleted and has not committed
  inserted,  \* rows a transaction inserted and has not committed
  told,      \* the users a request is about to send the event to
  known,     \* the grants a user's client last fetched
  notified,  \* users whose client got the event and has not fetched yet
  untold     \* users whose request ended between the commit and the event

db == <<roles, unborn, rows>>
tx == <<lock, seen, deleted, inserted>>
clients == <<known, notified, untold>>
vars == <<db, tx, todo, call, told, clients>>

Grants  == Role \X Perm
Members == User \X Role

\* userAuthInclude, toAuthUser: what a user may do, through which role.
PermissionsOf(u) == {g \in rows \cap Grants : <<u, g[1]>> \in rows}
Holders(r)       == {u \in User : <<u, r>> \in rows}

\* Mutant: updateRole with its statements in the order of updateRolePermissions.
PlanTouchLast(op) ==
  CASE op = "updateRole" ->
         <<"delete", "sweep", "insert", "touch", "commit", "ask", "tell">>
    [] op = "updateRolePermissions" ->
         <<"delete", "sweep", "insert", "touch", "commit", "ask", "tell">>
    [] op = "assign" -> <<"delete", "sweep", "insert", "commit", "tell">>
    [] op = "remove" -> <<"delete", "sweep", "commit", "tell">>

\* Mutant: the recipients are looked up before the transaction.
PlanAskFirst(op) ==
  CASE op = "updateRole" ->
         <<"ask", "touch", "delete", "sweep", "insert", "commit", "tell">>
    [] op = "updateRolePermissions" ->
         <<"ask", "delete", "sweep", "insert", "touch", "commit", "tell">>
    [] op = "assign" -> <<"delete", "sweep", "insert", "commit", "tell">>
    [] op = "remove" -> <<"delete", "sweep", "commit", "tell">>

\* What each handler does between Begin and its answer, in order.
Plan(op) ==
  CASE op = "updateRole" ->
         <<"touch", "delete", "sweep", "insert", "commit", "ask", "tell">>
    [] op = "updateRolePermissions" ->
         <<"delete", "sweep", "insert", "touch", "commit", "ask", "tell">>
    [] op = "assign" -> <<"delete", "sweep", "insert", "commit", "tell">>
    [] op = "remove" -> <<"delete", "sweep", "commit", "tell">>

Statement == {"touch", "delete", "sweep", "insert", "commit", "ask", "tell"}

\* The calls of each handler: a role and a list of permissions or of users.
\* Without users a call is refused for ADMIN and does nothing for the others.
Calls ==
  [op : {"updateRole"}, role : Role \ System, list : SUBSET Perm]
  \cup [op : {"updateRolePermissions"}, role : Role \ System,
        list : SUBSET Perm \ {{}}]
  \cup [op : {"assign", "remove"}, role : Role, list : SUBSET User \ {{}}]

NoCall == [op |-> "none", role |-> NoOne, list |-> {}]

\* The rows a call deletes, and those it inserts.
Scope(c) == IF c.op = "assign" THEN c.list \X Role
            ELSE IF c.op = "remove" THEN c.list \X {c.role}
            ELSE {c.role} \X Perm
Wanted(c) == IF c.op = "assign" THEN c.list \X {c.role}
             ELSE IF c.op = "remove" THEN {}
             ELSE {c.role} \X c.list

At(r, step) == todo[r] # << >> /\ Head(todo[r]) = step
Advance(r)  == todo' = [todo EXCEPT ![r] = Tail(@)]
End(r)      == /\ todo' = [todo EXCEPT ![r] = << >>]
               /\ call' = [call EXCEPT ![r] = NoCall]
Others(r)   == Request \ {r}

-----------------------------------------------------------------------------

\* The checks before the transaction: the role exists, and (by Calls) is not
\* protected where permissions change.
Begin(r, c) ==
  /\ todo[r] = << >>
  /\ c.role \in roles
  /\ todo' = [todo EXCEPT ![r] = Plan(c.op)]
  /\ call' = [call EXCEPT ![r] = c]
  /\ UNCHANGED <<db, tx, told, clients>>

\* A transaction that fails leaves no trace.
RollBack(r) ==
  /\ End(r)
  /\ lock' = [x \in Role |-> IF lock[x] = r THEN NoOne ELSE lock[x]]
  /\ seen' = [seen EXCEPT ![r] = {}]
  /\ deleted' = [deleted EXCEPT ![r] = {}]
  /\ inserted' = [inserted EXCEPT ![r] = {}]
  /\ UNCHANGED <<db, told, clients>>

\* UPDATE of the role's row: waits for its lock.
Touch(r) ==
  LET role == call[r].role IN
  /\ At(r, "touch")
  /\ lock[role] = NoOne
  /\ IF role \in roles
       THEN /\ lock' = [lock EXCEPT ![role] = r]
            /\ Advance(r)
            /\ UNCHANGED <<db, seen, deleted, inserted, call, told, clients>>
       ELSE RollBack(r)

\* DELETE begins: the rows it will visit are those committed now.
Delete(r) ==
  /\ At(r, "delete")
  /\ seen' = [seen EXCEPT ![r] = rows \cap Scope(call[r])]
  /\ Advance(r)
  /\ UNCHANGED <<db, lock, deleted, inserted, call, told, clients>>

\* DELETE ends, once no row it found is being deleted by another.
Sweep(r) ==
  /\ At(r, "sweep")
  /\ \A q \in Others(r) : seen[r] \cap deleted[q] = {}
  /\ deleted' = [deleted EXCEPT ![r] = seen[r]]
  /\ seen' = [seen EXCEPT ![r] = {}]
  /\ Advance(r)
  /\ UNCHANGED <<db, lock, inserted, call, told, clients>>

\* INSERT ... ON CONFLICT DO NOTHING; the foreign key needs the role.
Insert(r) ==
  LET wanted  == Wanted(call[r])
      missing == wanted \ (rows \ deleted[r]) IN
  /\ At(r, "insert")
  /\ \A q \in Others(r) : wanted \cap (deleted[q] \cup inserted[q]) = {}
  /\ IF missing = {} \/ call[r].role \in roles
       THEN /\ inserted' = [inserted EXCEPT ![r] = missing]
            /\ Advance(r)
            /\ UNCHANGED <<db, lock, seen, deleted, call, told, clients>>
       ELSE RollBack(r)

\* Rows that were deleted and committed are skipped by the DELETEs that had
\* found them, also when an equal row has been inserted since.
Forget(r, gone) ==
  seen' = [q \in Request |-> IF q = r THEN {} ELSE seen[q] \ gone]

\* assign and remove tell the users of their list.  A role that is gone by
\* now ends the call with NotFound, and tells nobody.
Commit(r) ==
  LET c == call[r] IN
  /\ At(r, "commit")
  /\ rows' = (rows \ deleted[r]) \cup inserted[r]
  /\ Forget(r, deleted[r])
  /\ deleted' = [deleted EXCEPT ![r] = {}]
  /\ inserted' = [inserted EXCEPT ![r] = {}]
  /\ lock' = [x \in Role |-> IF lock[x] = r THEN NoOne ELSE lock[x]]
  /\ IF c.role \in roles
       THEN /\ Advance(r)
            /\ told' = [told EXCEPT
                 ![r] = IF c.op \in {"assign", "remove"} THEN c.list ELSE @]
            /\ UNCHANGED <<call, untold>>
       ELSE /\ End(r)
            /\ untold' = untold \cup (c.list \cap User)
            /\ UNCHANGED told
  /\ UNCHANGED <<roles, unborn, known, notified>>

\* updateRole and updateRolePermissions look up who holds the role.
Ask(r) ==
  /\ At(r, "ask")
  /\ told' = [told EXCEPT ![r] = Holders(call[r].role)]
  /\ Advance(r)
  /\ UNCHANGED <<db, tx, call, clients>>

\* The event permissions:updated, to the room of each user.
Tell(r) ==
  /\ At(r, "tell")
  /\ notified' = notified \cup told[r]
  /\ told' = [told EXCEPT ![r] = {}]
  /\ End(r)
  /\ UNCHANGED <<db, tx, known, untold>>

\* The users a committed call still has to tell.
Audience(r) ==
  IF At(r, "ask") THEN Holders(call[r].role)
  ELSE IF At(r, "tell") THEN told[r]
  ELSE {}

\* A statement fails, a deadlock or a timeout ends the transaction, or the
\* process dies; after the commit this loses the event.
Fail(r) ==
  /\ todo[r] # << >>
  /\ IF At(r, "ask") \/ At(r, "tell")
       THEN /\ untold' = untold \cup Audience(r)
            /\ End(r)
            /\ told' = [told EXCEPT ![r] = {}]
            /\ UNCHANGED <<db, tx, known, notified>>
       ELSE RollBack(r)

-----------------------------------------------------------------------------

\* createRole: nobody can refer to the role before it is committed.
CreateRole(role, list) ==
  /\ role \in unborn
  /\ unborn' = unborn \ {role}
  /\ roles' = roles \cup {role}
  /\ rows' = rows \cup ({role} \X list)
  /\ UNCHANGED <<tx, todo, call, told, clients>>

\* multiDelete: waits for the transactions that hold the role or rows of it;
\* the rows go with the role, and nobody is told.
DeleteRole(role) ==
  LET gone == {x \in rows : x[1] = role \/ x[2] = role} IN
  /\ role \in roles \ System
  /\ lock[role] = NoOne
  /\ \A r \in Request : \A x \in deleted[r] \cup inserted[r] :
        x[1] # role /\ x[2] # role
  /\ roles' = roles \ {role}
  /\ rows' = rows \ gone
  /\ seen' = [r \in Request |-> seen[r] \ gone]
  /\ UNCHANGED <<unborn, lock, deleted, inserted, todo, call, told, clients>>

\* A client fetches /auth/me: on the event, or on loading a page.
Refetch(u) ==
  /\ known' = [known EXCEPT ![u] = PermissionsOf(u)]
  /\ notified' = notified \ {u}
  /\ untold' = untold \ {u}
  /\ UNCHANGED <<db, tx, todo, call, told>>

\* The seeded system: every user holds every system role, with all grants.
Init ==
  /\ roles = System
  /\ unborn = Role \ System
  /\ rows = (System \X Perm) \cup (User \X System)
  /\ lock = [x \in Role |-> NoOne]
  /\ todo = [r \in Request |-> << >>]
  /\ call = [r \in Request |-> NoCall]
  /\ seen = [r \in Request |-> {}]
  /\ deleted = [r \in Request |-> {}]
  /\ inserted = [r \in Request |-> {}]
  /\ told = [r \in Request |-> {}]
  /\ known = [u \in User |-> System \X Perm]
  /\ notified = {}
  /\ untold = {}

Step(r) ==
  \/ Touch(r) \/ Delete(r) \/ Sweep(r) \/ Insert(r)
  \/ Commit(r) \/ Ask(r) \/ Tell(r) \/ Fail(r)

Next ==
  \/ \E r \in Request : (\E c \in Calls : Begin(r, c)) \/ Step(r)
  \/ \E role \in Role :
        (\E list \in SUBSET Perm : CreateRole(role, list)) \/ DeleteRole(role)
  \/ \E u \in User : Refetch(u)

Spec == Init /\ [][Next]_vars

-----------------------------------------------------------------------------

\* Every variable has its type.
TypeOK ==
  /\ roles \subseteq Role /\ unborn \subseteq Role \ roles
  /\ rows \subseteq Grants \cup Members
  /\ lock \in [Role -> Request \cup {NoOne}]
  /\ todo \in [Request -> Seq(Statement)]
  /\ call \in [Request -> Calls \cup {NoCall}]
  /\ seen \in [Request -> SUBSET (Grants \cup Members)]
  /\ deleted \in [Request -> SUBSET (Grants \cup Members)]
  /\ inserted \in [Request -> SUBSET (Grants \cup Members)]
  /\ told \in [Request -> SUBSET User]
  /\ known \in [User -> SUBSET Grants]
  /\ notified \subseteq User /\ untold \subseteq User

\* What a client shows and what its user may do differ only in roles that
\* were deleted, or until an event on its way, or until the page is loaded
\* after a request ended without its event (the sendToUsers calls after each
\* transaction of roles.service.ts, whose recipients are read after it).
Stale(u) == {g \in known[u] : g[1] \in roles} # PermissionsOf(u)
StaleClientsWillHear ==
  \A u \in User : Stale(u) =>
    u \in notified \cup untold \cup UNION {Audience(r) : r \in Request}

\* updateRole leaves a role with exactly the permissions it was called with,
\* whatever else is writing them: it updates the role's row first, and so
\* holds it against every other update (roles.service.ts:125-147).
UpdateReplacesPermissions ==
  [][\A r \in Request : call[r].op = "updateRole" /\ Commit(r) =>
       rows' \cap ({call[r].role} \X Perm) = Wanted(call[r])]_vars

=============================================================================
