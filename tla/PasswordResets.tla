--------------------------- MODULE PasswordResets ---------------------------
(***************************************************************************)
(* Reset tokens: forgotPassword, verifyResetPasswordToken and              *)
(* resetPassword over PasswordResetTokenService, which keeps two Redis     *)
(* keys per token, one from the token to its user and one from the user to *)
(* the token in force.                                                     *)
(*                                                                         *)
(* A step of a request is one round trip to Redis or PostgreSQL; a MULTI   *)
(* is one step.  What a new password does to sessions is in AuthSessions.  *)
(***************************************************************************)
EXTENDS Integers

CONSTANTS
  User,        \* accounts
  Token,       \* tokens randomBytes may return
  Request,     \* HTTP requests that may run at the same time
  None,        \* no token, no key
  TTL,         \* RESET_PASSWORD_EXPIRES_IN_SECONDS
  MaxNow,      \* bound: the clock stops here
  MaxPassword, \* bound: how often a password may be written
  Faults       \* whether requests may die

VARIABLES
  now,       \* seconds
  tokenKey,  \* auth:password-reset:token:<hash>
  userKey,   \* auth:password-reset:user:<uid>
  mailed,    \* the tokens that were made
  password,  \* how many times each passwordHash was written
  deleted,   \* deletedAt is set
  pc,        \* where each request stands
  req        \* what each request remembers

keys == <<tokenKey, userKey>>
db   == <<password, deleted>>
vars == <<now, keys, mailed, db, pc, req>>

\* reset: the request goes on to set a password; old: the token that
\* createForUser found and will delete.
Req == [user : User \cup {None}, token : Token \cup {None},
        old : Token \cup {None}, reset : BOOLEAN]
NoReq == [user |-> None, token |-> None, old |-> None, reset |-> FALSE]

Label == {"idle", "forgot.set", "verify.user", "verify.del", "reset.find",
          "reset.write", "consume"}

TypeOK ==
  /\ now \in Nat
  /\ tokenKey \in [Token -> [user : User, expires : Nat] \cup {None}]
  /\ userKey \in [User -> [token : Token, expires : Nat] \cup {None}]
  /\ mailed \subseteq Token
  /\ password \in [User -> Nat] /\ deleted \in [User -> BOOLEAN]
  /\ pc \in [Request -> Label]
  /\ req \in [Request -> Req]
  /\ \A r \in Request :
       /\ pc[r] # "idle" => req[r].user \in User
       /\ pc[r] \notin {"idle", "forgot.set"} => req[r].token \in mailed

Init ==
  /\ now = 0
  /\ tokenKey = [t \in Token |-> None] /\ userKey = [u \in User |-> None]
  /\ mailed = {}
  /\ password = [u \in User |-> 0] /\ deleted = [u \in User |-> FALSE]
  /\ pc = [r \in Request |-> "idle"]
  /\ req = [r \in Request |-> NoReq]

InForce(u) == IF userKey[u] = None THEN None ELSE userKey[u].token

\* verify accepts the token.
Valid(t) == tokenKey[t] # None /\ InForce(tokenKey[t].user) = t

Goto(r, from, to) == pc[r] = from /\ pc' = [pc EXCEPT ![r] = to]

Finish(r) == /\ pc' = [pc EXCEPT ![r] = "idle"]
             /\ req' = [req EXCEPT ![r] = NoReq]

-----------------------------------------------------------------------------
(* forgotPassword: createForUser.                                          *)

ForgotGet(r) ==
  \E u \in User :
    /\ ~deleted[u]
    /\ Goto(r, "idle", "forgot.set")
    /\ req' = [req EXCEPT ![r] = [NoReq EXCEPT !.user = u, !.old = InForce(u)]]
    /\ UNCHANGED <<now, keys, mailed, db>>

NewKeys(r, t) ==
  LET u == req[r].user IN
  /\ tokenKey' = [k \in Token |->
       IF k = t THEN [user |-> u, expires |-> now + TTL]
       ELSE IF k = req[r].old THEN None ELSE tokenKey[k]]
  /\ userKey' = [userKey EXCEPT ![u] = [token |-> t, expires |-> now + TTL]]
  /\ mailed' = mailed \cup {t}

\* Mutant: a request that finds a token in force makes the same one again.
ForgotSetSameToken(r) ==
  /\ pc[r] = "forgot.set"
  /\ \E t \in Token :
       /\ IF req[r].old = None THEN t \notin mailed ELSE t = req[r].old
       /\ NewKeys(r, t)
  /\ Finish(r)
  /\ UNCHANGED <<now, db>>

\* The MULTI deletes the token that was found and sets both keys anew.
ForgotSet(r) ==
  /\ pc[r] = "forgot.set"
  /\ \E t \in Token \ mailed : NewKeys(r, t)
  /\ Finish(r)
  /\ UNCHANGED <<now, db>>

-----------------------------------------------------------------------------
(* verify, alone or as the first part of resetPassword.                    *)

VerifyToken(r) ==
  \E t \in mailed, reset \in BOOLEAN :
    /\ tokenKey[t] # None
    /\ Goto(r, "idle", "verify.user")
    /\ req' = [req EXCEPT ![r] = [NoReq EXCEPT !.user = tokenKey[t].user,
                                               !.token = t, !.reset = reset]]
    /\ UNCHANGED <<now, keys, mailed, db>>

VerifyUser(r) ==
  /\ pc[r] = "verify.user"
  /\ \/ /\ InForce(req[r].user) # req[r].token
        /\ pc' = [pc EXCEPT ![r] = "verify.del"] /\ UNCHANGED req
     \/ /\ InForce(req[r].user) = req[r].token /\ req[r].reset
        /\ pc' = [pc EXCEPT ![r] = "reset.find"] /\ UNCHANGED req
     \/ /\ InForce(req[r].user) = req[r].token /\ ~req[r].reset
        /\ Finish(r)
  /\ UNCHANGED <<now, keys, mailed, db>>

\* The token is taken for a replaced one and goes.
VerifyDel(r) ==
  /\ pc[r] = "verify.del"
  /\ tokenKey' = [tokenKey EXCEPT ![req[r].token] = None]
  /\ Finish(r)
  /\ UNCHANGED <<now, userKey, mailed, db>>

-----------------------------------------------------------------------------
(* resetPassword, once the token is verified.                              *)

\* The token of a deleted account is consumed without a password.
ResetFind(r) ==
  /\ Goto(r, "reset.find",
          IF deleted[req[r].user] THEN "consume" ELSE "reset.write")
  /\ UNCHANGED <<now, keys, mailed, db, req>>

ResetWrite(r) ==
  /\ Goto(r, "reset.write", "consume")
  /\ password[req[r].user] < MaxPassword
  /\ password' = [password EXCEPT ![req[r].user] = @ + 1]
  /\ UNCHANGED <<now, keys, mailed, deleted, req>>

\* Mutant: the user's key is left to expire.
ConsumeTokenOnly(r) ==
  /\ pc[r] = "consume"
  /\ tokenKey' = [tokenKey EXCEPT ![req[r].token] = None]
  /\ Finish(r)
  /\ UNCHANGED <<now, userKey, mailed, db>>

Consume(r) ==
  /\ pc[r] = "consume"
  /\ tokenKey' = [tokenKey EXCEPT ![req[r].token] = None]
  /\ userKey' = [userKey EXCEPT ![req[r].user] = None]
  /\ Finish(r)
  /\ UNCHANGED <<now, mailed, db>>

-----------------------------------------------------------------------------
DeleteUser ==
  \E u \in User :
    /\ deleted' = [deleted EXCEPT ![u] = TRUE]
    /\ UNCHANGED <<now, keys, mailed, password, pc, req>>

\* A second passes; Redis drops the keys whose time has come.
Alive(k) == IF k # None /\ k.expires <= now + 1 THEN None ELSE k
Tick ==
  /\ now < MaxNow
  /\ now' = now + 1
  /\ tokenKey' = [t \in Token |-> Alive(tokenKey[t])]
  /\ userKey' = [u \in User |-> Alive(userKey[u])]
  /\ UNCHANGED <<mailed, db, pc, req>>

Abort(r) == /\ Faults /\ pc[r] # "idle"
            /\ Finish(r)
            /\ UNCHANGED <<now, keys, mailed, db>>

Next == \/ \E r \in Request :
             \/ ForgotGet(r) \/ ForgotSet(r)
             \/ VerifyToken(r) \/ VerifyUser(r) \/ VerifyDel(r)
             \/ ResetFind(r) \/ ResetWrite(r) \/ Consume(r) \/ Abort(r)
        \/ DeleteUser \/ Tick

Spec == Init /\ [][Next]_vars

-----------------------------------------------------------------------------
(* Properties.                                                             *)

\* The two keys agree: the token in force of a user can be looked up, leads
\* back to the user and lives as long, whoever replaces, consumes or deletes
\* tokens at the same time on what they read before.
TokenInForceExists ==
  \A u \in User : userKey[u] # None =>
    LET k == tokenKey[userKey[u].token] IN
    k # None /\ k.user = u /\ k.expires = userKey[u].expires

\* A link that stopped working never works again.
DeadLinksStayDead ==
  [][\A t \in mailed : ~Valid(t) => ~Valid(t)']_vars
=============================================================================
