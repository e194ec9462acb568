---------------------------- MODULE AuthSessions ----------------------------
(***************************************************************************)
(* Login sessions: AuthService and the account operations of UsersService  *)
(* as concurrent requests over PostgreSQL (accounts, passwords) and Redis  *)
(* (one key per session, one set of session ids per user).                 *)
(*                                                                         *)
(* A step of a request is one round trip to a store.  The commands of one  *)
(* Promise.all are queued on one connection in one turn of the event loop, *)
(* so they are one step.  Wrong passwords and malformed tokens can only be *)
(* refused and are not modelled.                                           *)
(***************************************************************************)
EXTENDS Integers, FiniteSets

CONSTANTS
  User,        \* accounts
  Sid,         \* session ids randomUUID may return
  Request,     \* requests that may run at the same time
  None,        \* no session, no session id
  TTL,         \* JWT_REFRESH_EXPIRES_IN, in seconds
  MaxNow,      \* bound: the clock stops here
  MaxVersion,  \* bound: how often a password may be changed
  Ops          \* the operations in use; "abort" lets requests die

ASSUME AuthAssumption ==
  /\ None \notin Sid /\ None \notin Nat
  /\ None \notin [user : User, token : Nat, version : Nat, expires : Nat]
  /\ TTL \in Nat \ {0} /\ MaxNow \in Nat /\ MaxVersion \in Nat

VARIABLES
  now,      \* seconds
  password, \* passwordHash: how many times it has been replaced
  active,   \* activityStatus is ACTIVE
  deleted,  \* deletedAt is set
  session,  \* auth:session:<sid>
  index,    \* auth:user-sessions:<uid> and when it expires
  issued,   \* the refresh tokens clients were given, per session id
  pc,       \* where each request stands
  req       \* what each request remembers

account == <<password, active, deleted>>
redis   == <<session, index>>
vars    == <<now, account, redis, issued, pc, req>>

\* A refresh token is a JWT over user, session and the second it was signed
\* in: two tokens of one session signed in one second are the same string.
\* version is the password the session was opened with; no code reads it.
Session == [user : User, token : Nat, version : Nat, expires : Nat]

Index == [sids : SUBSET Sid, expires : Nat]
NoIndex == [sids |-> {}, expires |-> 0]

\* old: the token a refresh presented; found: what smembers returned.
Req == [user : User \cup {None}, sid : Sid \cup {None}, version : Nat,
        token : Nat, old : Nat \cup {None}, found : SUBSET Sid]
NoReq == [user |-> None, sid |-> None, version |-> 0, token |-> 0,
          old |-> None, found |-> {}]

NeedsSid == {"refresh.user", "refresh.sign", "save", "logout.del"}
Label == NeedsSid \cup {"idle", "login.sign", "password.write", "admin.write",
                        "revoke.list", "revoke.del"}

TypeOK ==
  /\ now \in Nat
  /\ password \in [User -> Nat]
  /\ active \in [User -> BOOLEAN] /\ deleted \in [User -> BOOLEAN]
  /\ session \in [Sid -> Session \cup {None}]
  /\ index \in [User -> Index]
  /\ issued \in [Sid -> SUBSET Nat]
  /\ pc \in [Request -> Label]
  /\ req \in [Request -> Req]
  /\ \A r \in Request : /\ pc[r] # "idle" => req[r].user \in User
                        /\ pc[r] \in NeedsSid => req[r].sid \in Sid

Init ==
  /\ now = 0
  /\ password = [u \in User |-> 0]
  /\ active = [u \in User |-> TRUE] /\ deleted = [u \in User |-> FALSE]
  /\ session = [s \in Sid |-> None]
  /\ index = [u \in User |-> NoIndex]
  /\ issued = [s \in Sid |-> {}]
  /\ pc = [r \in Request |-> "idle"]
  /\ req = [r \in Request |-> NoReq]

CanLogin(u) == active[u] /\ ~deleted[u]

Start(r, op, label, q) ==
  /\ op \in Ops
  /\ pc[r] = "idle"
  /\ pc' = [pc EXCEPT ![r] = label]
  /\ req' = [req EXCEPT ![r] = q]

Goto(r, from, to) == pc[r] = from /\ pc' = [pc EXCEPT ![r] = to]

Finish(r) == /\ pc' = [pc EXCEPT ![r] = "idle"]
             /\ req' = [req EXCEPT ![r] = NoReq]

-----------------------------------------------------------------------------
(* login and refresh.                                                      *)

LoginCheck(r) ==
  \E u \in User :
    /\ Start(r, "login", "login.sign",
             [NoReq EXCEPT !.user = u, !.version = password[u]])
    /\ CanLogin(u)
    /\ UNCHANGED <<now, account, redis, issued>>

\* Mutant: a session id that is not fresh, say one per user and device.
LoginSignWithKnownSid(r) ==
  \E s \in Sid :
    /\ \A q \in Request : req[q].sid # s
    /\ Goto(r, "login.sign", "save")
    /\ req' = [req EXCEPT ![r].sid = s, ![r].token = now]
    /\ UNCHANGED <<now, account, redis, issued>>

LoginSign(r) ==
  \E s \in Sid :
    /\ issued[s] = {} /\ \A q \in Request : req[q].sid # s
    /\ Goto(r, "login.sign", "save")
    /\ req' = [req EXCEPT ![r].sid = s, ![r].token = now]
    /\ UNCHANGED <<now, account, redis, issued>>

\* validateRefreshSession: the session is there and the token is its last one.
RefreshRead(r) ==
  \E s \in Sid : \E t \in issued[s] :
    /\ session[s] # None /\ session[s].token = t /\ now < t + TTL
    /\ Start(r, "refresh", "refresh.user",
             [NoReq EXCEPT !.user = session[s].user, !.sid = s, !.old = t,
                           !.version = session[s].version])
    /\ UNCHANGED <<now, account, redis, issued>>

RefreshUser(r) ==
  /\ pc[r] = "refresh.user"
  /\ IF CanLogin(req[r].user)
     THEN Goto(r, "refresh.user", "refresh.sign") /\ UNCHANGED req
     ELSE Finish(r)
  /\ UNCHANGED <<now, account, redis, issued>>

RefreshSign(r) ==
  /\ Goto(r, "refresh.sign", "save")
  /\ req' = [req EXCEPT ![r].token = now]
  /\ UNCHANGED <<now, account, redis, issued>>

\* What request r stores under auth:session:<sid>, to expire at e.
NewSession(r, e) ==
  [user |-> req[r].user, token |-> req[r].token,
   version |-> req[r].version, expires |-> e]

\* Mutants: the set keeps the time to live it has; a refresh keeps the time to
\* live of the session key.
SaveKeepingIndexTTL(r) ==
  LET s == req[r].sid u == req[r].user IN
  /\ pc[r] = "save"
  /\ session' = [session EXCEPT ![s] = NewSession(r, now + TTL)]
  /\ index' = [index EXCEPT ![u].sids = @ \cup {s},
                            ![u].expires = IF @ = 0 THEN now + TTL ELSE @]
  /\ issued' = [issued EXCEPT ![s] = @ \cup {req[r].token}]
  /\ Finish(r)
  /\ UNCHANGED <<now, account>>
SaveKeepingTTL(r) ==
  LET s == req[r].sid u == req[r].user IN
  /\ pc[r] = "save"
  /\ session' = [session EXCEPT ![s] =
       NewSession(r, IF @ = None THEN now + TTL ELSE @.expires)]
  /\ index' = [index EXCEPT ![u].sids = @ \cup {s}, ![u].expires = now + TTL]
  /\ issued' = [issued EXCEPT ![s] = @ \cup {req[r].token}]
  /\ Finish(r)
  /\ UNCHANGED <<now, account>>

\* saveAuthSession: SET, SADD and EXPIRE in one turn; then the cookies.
Save(r) ==
  LET s == req[r].sid u == req[r].user IN
  /\ pc[r] = "save"
  /\ session' = [session EXCEPT ![s] = NewSession(r, now + TTL)]
  /\ index' = [index EXCEPT ![u].sids = @ \cup {s}, ![u].expires = now + TTL]
  /\ issued' = [issued EXCEPT ![s] = @ \cup {req[r].token}]
  /\ Finish(r)
  /\ UNCHANGED <<now, account>>

-----------------------------------------------------------------------------
(* logout: the access guard, then DEL and SREM in one turn.                *)

LogoutRead(r) ==
  \E s \in Sid :
    /\ session[s] # None /\ ~deleted[session[s].user]
    /\ Start(r, "logout", "logout.del",
             [NoReq EXCEPT !.user = session[s].user, !.sid = s])
    /\ UNCHANGED <<now, account, redis, issued>>

LogoutDel(r) ==
  LET s == req[r].sid u == req[r].user IN
  /\ pc[r] = "logout.del"
  /\ session' = [session EXCEPT ![s] = None]
  /\ index' = [index EXCEPT ![u].sids = @ \ {s}]
  /\ Finish(r)
  /\ UNCHANGED <<now, account, issued>>

-----------------------------------------------------------------------------
(* changePassword, resetPassword: write the hash, list the sessions, delete *)
(* what was listed.  The access guard or the reset token comes first.       *)

ChangeRead(r) ==
  \E s \in Sid :
    /\ session[s] # None /\ CanLogin(session[s].user)
    /\ Start(r, "change", "password.write",
             [NoReq EXCEPT !.user = session[s].user])
    /\ UNCHANGED <<now, account, redis, issued>>

ResetRead(r) ==
  \E u \in User :
    /\ CanLogin(u)
    /\ Start(r, "reset", "password.write", [NoReq EXCEPT !.user = u])
    /\ UNCHANGED <<now, account, redis, issued>>

NewPassword(u) == /\ password[u] < MaxVersion
                  /\ password' = [password EXCEPT ![u] = @ + 1]

PasswordWrite(r) ==
  /\ Goto(r, "password.write", "revoke.list")
  /\ NewPassword(req[r].user)
  /\ UNCHANGED <<now, active, deleted, redis, issued, req>>

RevokeList(r) ==
  /\ Goto(r, "revoke.list", "revoke.del")
  /\ req' = [req EXCEPT ![r].found = index[req[r].user].sids]
  /\ UNCHANGED <<now, account, redis, issued>>

RevokeDel(r) ==
  /\ pc[r] = "revoke.del"
  /\ session' = [s \in Sid |-> IF s \in req[r].found THEN None ELSE session[s]]
  /\ index' = [index EXCEPT ![req[r].user] = NoIndex]
  /\ Finish(r)
  /\ UNCHANGED <<now, account, issued>>

-----------------------------------------------------------------------------
(* UsersService: another administrator acts on the account.                *)

AdminResetRead(r) ==
  \E u \in User :
    /\ ~deleted[u]
    /\ Start(r, "adminReset", "admin.write", [NoReq EXCEPT !.user = u])
    /\ UNCHANGED <<now, account, redis, issued>>

AdminResetWrite(r) ==
  /\ pc[r] = "admin.write"
  /\ NewPassword(req[r].user)
  /\ Finish(r)
  /\ UNCHANGED <<now, active, deleted, redis, issued>>

SetStatus ==
  \E u \in User, b \in BOOLEAN :
    /\ "status" \in Ops /\ ~deleted[u]
    /\ active' = [active EXCEPT ![u] = b]
    /\ UNCHANGED <<now, password, deleted, redis, issued, pc, req>>

DeleteUsers ==
  \E S \in SUBSET User :
    /\ "delete" \in Ops
    /\ deleted' = [u \in User |-> u \in S \/ deleted[u]]
    /\ UNCHANGED <<now, password, active, redis, issued, pc, req>>

-----------------------------------------------------------------------------
\* A second passes; Redis drops the keys whose time has come.
Tick ==
  /\ now < MaxNow
  /\ now' = now + 1
  /\ session' = [s \in Sid |-> IF session[s] # None /\ session[s].expires <= now'
                               THEN None ELSE session[s]]
  /\ index' = [u \in User |-> IF index[u].expires <= now' THEN NoIndex
                              ELSE index[u]]
  /\ UNCHANGED <<account, issued, pc, req>>

\* The process or a store connection dies under a request.
Abort(r) == /\ "abort" \in Ops /\ pc[r] # "idle"
            /\ Finish(r)
            /\ UNCHANGED <<now, account, redis, issued>>

Login(r)   == LoginCheck(r) \/ LoginSign(r) \/ Save(r)
Refresh(r) == RefreshRead(r) \/ RefreshUser(r) \/ RefreshSign(r)
Logout(r)  == LogoutRead(r) \/ LogoutDel(r)
Passwords(r) == ChangeRead(r) \/ ResetRead(r) \/ PasswordWrite(r)
                  \/ RevokeList(r) \/ RevokeDel(r)
                  \/ AdminResetRead(r) \/ AdminResetWrite(r)

Next == \/ \E r \in Request :
             Login(r) \/ Refresh(r) \/ Logout(r) \/ Passwords(r) \/ Abort(r)
        \/ SetStatus \/ DeleteUsers \/ Tick

Spec == Init /\ [][Next]_vars

-----------------------------------------------------------------------------
(* Properties.                                                             *)

\* Whatever is logged in can be found: until the password of an account is
\* replaced for the first time, every session is listed in its user's set, which
\* lives at least as long, so that the first revocation reaches it.  Login,
\* refresh and logout write the two keys, each with its own time to live, and
\* may die before they do.
SessionsAreIndexed ==
  \A s \in Sid : session[s] # None /\ password[session[s].user] = 0 =>
    /\ s \in index[session[s].user].sids
    /\ session[s].expires <= index[session[s].user].expires

\* The session key never expires before the refresh token it vouches for: the
\* token is signed first and the key's time to live starts after.
SessionOutlivesToken ==
  \A s \in Sid : session[s] # None =>
    session[s].token + TTL <= session[s].expires

\* A session that was logged out, revoked or has expired comes back only by a
\* refresh that had read it while it lived: logins, whatever they race with,
\* never store a session under an id that was in use.
OnlyRefreshRevives ==
  [][\A s \in Sid :
       issued[s] # {} /\ session[s] = None /\ session'[s] # None
         => \E r \in Request : /\ pc[r] = "save" /\ pc'[r] = "idle"
                               /\ req[r].sid = s /\ req[r].old \in issued[s]]_vars
=============================================================================
