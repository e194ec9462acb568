------------------------- MODULE AuthSessionsProofs -------------------------
(* Proofs about AuthSessions, for any number of accounts, session ids and  *)
(* concurrent requests.                                                    *)
EXTENDS AuthSessions, TLAPS

-----------------------------------------------------------------------------
(* Types.                                                                  *)

LEMMA InitTypeOK == Init => TypeOK
  BY AuthAssumption
  DEF Init, TypeOK, Label, NeedsSid, Index, NoIndex, Req, NoReq, Session

\* A handler that ends forgets everything.
LEMMA FinishTypeOK ==
  ASSUME TypeOK, NEW r \in Request, Finish(r)
  PROVE  /\ pc' \in [Request -> Label] /\ req' \in [Request -> Req]
         /\ \A q \in Request : /\ pc'[q] # "idle" => req'[q].user \in User
                               /\ pc'[q] \in NeedsSid => req'[q].sid \in Sid
  BY DEF TypeOK, Finish, Label, NeedsSid, Req, NoReq

LEMMA SaveTypeOK ==
  ASSUME TypeOK, NEW r \in Request, Save(r) PROVE TypeOK'
<1>1. /\ pc[r] = "save" /\ req[r] \in Req
      /\ req[r].user \in User /\ req[r].sid \in Sid
  BY DEF TypeOK, Save, NeedsSid
<1>2. NewSession(r, now + TTL) \in Session
  BY <1>1, AuthAssumption DEF TypeOK, NewSession, Session, Req
<1>3. session' \in [Sid -> Session \cup {None}]
  BY <1>1, <1>2 DEF TypeOK, Save
<1>4. index' \in [User -> Index]
  BY <1>1, AuthAssumption DEF TypeOK, Save, Index
<1>5. issued' \in [Sid -> SUBSET Nat]
  BY <1>1 DEF TypeOK, Save, Req
<1> QED
  BY <1>3, <1>4, <1>5, FinishTypeOK DEF Save, TypeOK, account

\* A handler that starts remembers a well-typed request.
LEMMA StartTypeOK ==
  ASSUME TypeOK, NEW r \in Request, NEW op, NEW label \in Label, NEW q \in Req,
         Start(r, op, label, q), q.user \in User,
         label \in NeedsSid => q.sid \in Sid,
         UNCHANGED <<now, account, redis, issued>>
  PROVE  TypeOK'
  BY DEF TypeOK, Start, account, redis

LEMMA RequestTypeOK ==
  ASSUME TypeOK, NEW r \in Request,
         Login(r) \/ Refresh(r) \/ Logout(r) \/ Passwords(r) \/ Abort(r)
  PROVE  TypeOK'
<1>a. \A u \in User : [NoReq EXCEPT !.user = u] \in Req
  BY DEF NoReq, Req
<1>b. \A s \in Sid : session[s] # None =>
        session[s] \in Session /\ session[s].user \in User
  BY DEF TypeOK, Session
<1>1. CASE LoginCheck(r)
  <2>1. PICK u \in User :
          /\ Start(r, "login", "login.sign",
                   [NoReq EXCEPT !.user = u, !.version = password[u]])
          /\ UNCHANGED <<now, account, redis, issued>>
    BY <1>1 DEF LoginCheck
  <2> DEFINE q == [NoReq EXCEPT !.user = u, !.version = password[u]]
  <2>2. password[u] \in Nat
    BY DEF TypeOK
  <2>3. q \in Req /\ q.user \in User
    BY <2>2 DEF NoReq, Req
  <2>4. "login.sign" \in Label \ NeedsSid
    BY DEF Label, NeedsSid
  <2>5. Start(r, "login", "login.sign", q)
    BY <2>1
  <2> HIDE DEF q
  <2> QED
    BY <2>1, <2>3, <2>4, <2>5, StartTypeOK
<1>2. CASE LoginSign(r)
  <2>1. PICK s \in Sid :
          /\ Goto(r, "login.sign", "save")
          /\ req' = [req EXCEPT ![r].sid = s, ![r].token = now]
          /\ UNCHANGED <<now, account, redis, issued>>
    BY <1>2 DEF LoginSign
  <2> DEFINE q == [req[r] EXCEPT !.sid = s, !.token = now]
  <2>2. req' = [req EXCEPT ![r] = q]
    BY <2>1 DEF TypeOK
  <2>3. q \in Req /\ q.user = req[r].user /\ q.sid = s
    BY DEF TypeOK, Req
  <2> HIDE DEF q
  <2> QED
    BY <2>1, <2>2, <2>3 DEF TypeOK, Goto, Label, NeedsSid, account, redis
<1>3. CASE Save(r)
  BY <1>3, SaveTypeOK
<1>4. CASE RefreshRead(r)
  <2>1. PICK s \in Sid : \E t \in issued[s] :
          /\ session[s] # None
          /\ Start(r, "refresh", "refresh.user",
                   [NoReq EXCEPT !.user = session[s].user, !.sid = s, !.old = t,
                                 !.version = session[s].version])
          /\ UNCHANGED <<now, account, redis, issued>>
    BY <1>4 DEF RefreshRead
  <2>2. PICK t \in issued[s] :
          /\ session[s] # None
          /\ Start(r, "refresh", "refresh.user",
                   [NoReq EXCEPT !.user = session[s].user, !.sid = s, !.old = t,
                                 !.version = session[s].version])
          /\ UNCHANGED <<now, account, redis, issued>>
    BY <2>1
  <2> DEFINE q == [NoReq EXCEPT !.user = session[s].user, !.sid = s, !.old = t,
                                !.version = session[s].version]
  <2>3. t \in Nat /\ session[s].version \in Nat
    BY <1>b, <2>2 DEF TypeOK, Session
  <2>4. q \in Req /\ q.user \in User /\ q.sid \in Sid
    BY <1>b, <2>2, <2>3 DEF NoReq, Req
  <2>5. "refresh.user" \in Label
    BY DEF Label, NeedsSid
  <2>6. Start(r, "refresh", "refresh.user", q)
    BY <2>2
  <2> HIDE DEF q
  <2> QED
    BY <2>2, <2>4, <2>5, <2>6, StartTypeOK
<1>5. CASE RefreshUser(r)
  <2>1. CASE CanLogin(req[r].user)
    BY <1>5, <2>1 DEF RefreshUser, Goto, TypeOK, Label, NeedsSid, account, redis
  <2>2. CASE ~CanLogin(req[r].user)
    BY <1>5, <2>2, FinishTypeOK DEF RefreshUser, TypeOK, account, redis
  <2> QED
    BY <2>1, <2>2
<1>6. CASE RefreshSign(r)
  <2> DEFINE q == [req[r] EXCEPT !.token = now]
  <2>1. req' = [req EXCEPT ![r] = q]
    BY <1>6 DEF TypeOK, RefreshSign
  <2>2. q \in Req /\ q.user = req[r].user /\ q.sid = req[r].sid
    BY DEF TypeOK, Req
  <2> HIDE DEF q
  <2> QED
    BY <1>6, <2>1, <2>2
    DEF RefreshSign, TypeOK, Goto, Label, NeedsSid, account, redis
<1>7. CASE LogoutRead(r)
  <2>1. PICK s \in Sid :
          /\ session[s] # None
          /\ Start(r, "logout", "logout.del",
                   [NoReq EXCEPT !.user = session[s].user, !.sid = s])
          /\ UNCHANGED <<now, account, redis, issued>>
    BY <1>7 DEF LogoutRead
  <2> DEFINE q == [NoReq EXCEPT !.user = session[s].user, !.sid = s]
  <2>2. q \in Req /\ q.user \in User /\ q.sid \in Sid
    BY <1>b, <2>1 DEF NoReq, Req
  <2>3. "logout.del" \in Label
    BY DEF Label, NeedsSid
  <2>4. Start(r, "logout", "logout.del", q)
    BY <2>1
  <2> HIDE DEF q
  <2> QED
    BY <2>1, <2>2, <2>3, <2>4, StartTypeOK
<1>8. CASE LogoutDel(r)
  BY <1>8, FinishTypeOK DEF LogoutDel, Index, TypeOK, account
<1>9. CASE ChangeRead(r)
  <2>1. PICK s \in Sid :
          /\ session[s] # None
          /\ Start(r, "change", "password.write",
                   [NoReq EXCEPT !.user = session[s].user])
          /\ UNCHANGED <<now, account, redis, issued>>
    BY <1>9 DEF ChangeRead
  <2> DEFINE q == [NoReq EXCEPT !.user = session[s].user]
  <2>2. q \in Req /\ q.user \in User
    BY <1>a, <1>b, <2>1 DEF NoReq
  <2>3. "password.write" \in Label \ NeedsSid
    BY DEF Label, NeedsSid
  <2>4. Start(r, "change", "password.write", q)
    BY <2>1
  <2> HIDE DEF q
  <2> QED
    BY <2>1, <2>2, <2>3, <2>4, StartTypeOK
<1>10. CASE ResetRead(r)
  <2>1. PICK u \in User :
          /\ Start(r, "reset", "password.write", [NoReq EXCEPT !.user = u])
          /\ UNCHANGED <<now, account, redis, issued>>
    BY <1>10 DEF ResetRead
  <2>2. [NoReq EXCEPT !.user = u].user \in User
    BY DEF NoReq
  <2>3. "password.write" \in Label \ NeedsSid
    BY DEF Label, NeedsSid
  <2> QED
    BY <1>a, <2>1, <2>2, <2>3, StartTypeOK
<1>11. CASE PasswordWrite(r)
  <2>1. password' = [password EXCEPT ![req[r].user] = @ + 1]
    BY <1>11 DEF PasswordWrite, NewPassword
  <2>2. password' \in [User -> Nat]
    <3>1. req[r].user \in User
      BY <1>11 DEF PasswordWrite, Goto, TypeOK
    <3> QED
      BY <2>1, <3>1 DEF TypeOK
  <2> QED
    BY <1>11, <2>2 DEF PasswordWrite, TypeOK, Goto, Label, NeedsSid, redis
<1>12. CASE RevokeList(r)
  <2> DEFINE q == [req[r] EXCEPT !.found = index[req[r].user].sids]
  <2>1. req' = [req EXCEPT ![r] = q]
    BY <1>12 DEF TypeOK, RevokeList
  <2>2. req[r].user \in User
    BY <1>12 DEF TypeOK, RevokeList, Goto
  <2>3. index[req[r].user].sids \in SUBSET Sid
    BY <2>2 DEF TypeOK, Index
  <2>4. q \in Req /\ q.user = req[r].user /\ q.sid = req[r].sid
    BY <2>3 DEF TypeOK, Req
  <2> HIDE DEF q
  <2> QED
    BY <1>12, <2>1, <2>4
    DEF RevokeList, TypeOK, Goto, Label, NeedsSid, account, redis
<1>13. CASE RevokeDel(r)
  BY <1>13, FinishTypeOK DEF RevokeDel, Index, NoIndex, TypeOK, account
<1>14. CASE AdminResetRead(r)
  <2>1. PICK u \in User :
          /\ Start(r, "adminReset", "admin.write", [NoReq EXCEPT !.user = u])
          /\ UNCHANGED <<now, account, redis, issued>>
    BY <1>14 DEF AdminResetRead
  <2>2. [NoReq EXCEPT !.user = u].user \in User
    BY DEF NoReq
  <2>3. "admin.write" \in Label \ NeedsSid
    BY DEF Label, NeedsSid
  <2> QED
    BY <1>a, <2>1, <2>2, <2>3, StartTypeOK
<1>15. CASE AdminResetWrite(r)
  BY <1>15, FinishTypeOK DEF AdminResetWrite, NewPassword, TypeOK, redis
<1>16. CASE Abort(r)
  BY <1>16, FinishTypeOK DEF Abort, TypeOK, account, redis
<1> QED
  BY <1>1, <1>2, <1>3, <1>4, <1>5, <1>6, <1>7, <1>8, <1>9, <1>10, <1>11,
     <1>12, <1>13, <1>14, <1>15, <1>16
  DEF Login, Refresh, Logout, Passwords

LEMMA NextTypeOK == TypeOK /\ [Next]_vars => TypeOK'
<1> SUFFICES ASSUME TypeOK, [Next]_vars PROVE TypeOK'
  OBVIOUS
<1> USE DEF TypeOK
<1>1. CASE SetStatus
  BY <1>1 DEF SetStatus, redis
<1>2. CASE DeleteUsers
  BY <1>2 DEF DeleteUsers, redis
<1>3. CASE Tick
  BY <1>3 DEF Tick, account, Index, NoIndex
<1>4. CASE UNCHANGED vars
  BY <1>4 DEF vars, account, redis
<1> QED
  BY <1>1, <1>2, <1>3, <1>4, RequestTypeOK DEF Next

\* Every reachable state of the session store and of the requests over it is
\* well typed; a request past its first read knows its user, and its session
\* where it needs one.
THEOREM SessionsTypeCorrect == Spec => []TypeOK
  BY InitTypeOK, NextTypeOK, PTL DEF Spec

-----------------------------------------------------------------------------
(* What a step can do, seen from the store and from one request.           *)

Stores == <<now, session, index, issued>>

\* Only these steps touch the clock or the session store.
LEMMA StoreSteps ==
  ASSUME [Next]_vars
  PROVE  \/ \E r \in Request : Save(r) \/ LogoutDel(r) \/ RevokeDel(r)
         \/ Tick
         \/ UNCHANGED Stores
<1> USE DEF Stores, redis
<1>1. ASSUME NEW r \in Request,
             Login(r) \/ Refresh(r) \/ Logout(r) \/ Passwords(r) \/ Abort(r)
      PROVE  Save(r) \/ LogoutDel(r) \/ RevokeDel(r) \/ UNCHANGED Stores
  BY <1>1
  DEF Login, Refresh, Logout, Passwords, LoginCheck, LoginSign, RefreshRead,
      RefreshUser, RefreshSign, LogoutRead, ChangeRead, ResetRead, PasswordWrite,
      RevokeList, AdminResetRead, AdminResetWrite, Abort
<1>2. CASE SetStatus \/ DeleteUsers \/ UNCHANGED vars
  BY <1>2 DEF SetStatus, DeleteUsers, vars
<1> QED
  BY <1>1, <1>2 DEF Next

\* The steps of the others leave a request alone.
LEMMA OthersSteps ==
  ASSUME TypeOK, NEW r \in Request, NEW q \in Request, q # r,
         Login(r) \/ Refresh(r) \/ Logout(r) \/ Passwords(r) \/ Abort(r)
  PROVE  pc'[q] = pc[q] /\ req'[q] = req[q]
<1> USE DEF TypeOK, Start, Goto, Finish
<1>1. CASE Login(r)
  BY <1>1 DEF Login, LoginCheck, LoginSign, Save
<1>2. CASE Refresh(r)
  BY <1>2 DEF Refresh, RefreshRead, RefreshUser, RefreshSign
<1>3. CASE Logout(r)
  BY <1>3 DEF Logout, LogoutRead, LogoutDel
<1>4. CASE Passwords(r)
  BY <1>4 DEF Passwords, ChangeRead, ResetRead, PasswordWrite, RevokeList,
     RevokeDel, AdminResetRead, AdminResetWrite
<1>5. CASE Abort(r)
  BY <1>5 DEF Abort
<1> QED
  BY <1>1, <1>2, <1>3, <1>4, <1>5

\* A request comes to storing a session by signing a token for it.
LEMMA SaveComesFromSigning ==
  ASSUME TypeOK, [Next]_vars, NEW q \in Request, pc'[q] = "save"
  PROVE  \/ pc[q] = "save" /\ req'[q] = req[q]
         \/ LoginSign(q)
         \/ RefreshSign(q)
<1>1. ASSUME NEW r \in Request, r = q,
             Login(r) \/ Refresh(r) \/ Logout(r) \/ Passwords(r) \/ Abort(r)
      PROVE  LoginSign(q) \/ RefreshSign(q)
  <2> USE DEF TypeOK, Start, Goto, Finish
  <2>1. CASE Login(r)
    BY <1>1, <2>1 DEF Login, LoginCheck, Save
  <2>2. CASE Refresh(r)
    BY <1>1, <2>2 DEF Refresh, RefreshRead, RefreshUser
  <2>3. CASE Logout(r)
    BY <1>1, <2>3 DEF Logout, LogoutRead, LogoutDel
  <2>4. CASE Passwords(r)
    BY <1>1, <2>4 DEF Passwords, ChangeRead, ResetRead, PasswordWrite, RevokeList,
       RevokeDel, AdminResetRead, AdminResetWrite
  <2>5. CASE Abort(r)
    BY <1>1, <2>5 DEF Abort
  <2> QED
    BY <1>1, <2>1, <2>2, <2>3, <2>4, <2>5
<1>2. CASE SetStatus \/ DeleteUsers \/ Tick \/ UNCHANGED vars
  BY <1>2 DEF SetStatus, DeleteUsers, Tick, vars
<1> QED
  BY <1>1, <1>2, OthersSteps DEF Next

-----------------------------------------------------------------------------
(* Expiry.                                                                 *)

\* A token waiting to be stored was signed before now.
TokensArePast == \A r \in Request : pc[r] = "save" => req[r].token <= now

ExpiryInv == TypeOK /\ TokensArePast /\ SessionOutlivesToken

LEMMA NextTokensArePast ==
  ASSUME TypeOK, TokensArePast, [Next]_vars PROVE TokensArePast'
<1>1. now \in Nat /\ now' \in Nat /\ now <= now'
  <2>1. now' = now \/ now' = now + 1
    BY StoreSteps DEF Stores, Save, LogoutDel, RevokeDel, Tick
  <2> QED
    BY <2>1 DEF TypeOK
<1>2. ASSUME NEW r \in Request, pc'[r] = "save" PROVE req'[r].token <= now'
  <2>1. CASE pc[r] = "save" /\ req'[r] = req[r]
    BY <1>1, <2>1 DEF TokensArePast, TypeOK, Req
  <2>2. CASE LoginSign(r) \/ RefreshSign(r)
    <3>1. req'[r].token = now
      BY <2>2 DEF TypeOK, Req, LoginSign, RefreshSign
    <3> QED
      BY <1>1, <3>1
  <2> QED
    BY <1>2, <2>1, <2>2, SaveComesFromSigning
<1> QED
  BY <1>2 DEF TokensArePast

LEMMA NextSessionOutlivesToken ==
  ASSUME TypeOK, TokensArePast, SessionOutlivesToken, [Next]_vars
  PROVE  SessionOutlivesToken'
<1> SUFFICES ASSUME NEW s \in Sid, session'[s] # None
             PROVE  session'[s].token + TTL <= session'[s].expires
  BY DEF SessionOutlivesToken
<1>1. CASE session'[s] = session[s]
  BY <1>1 DEF SessionOutlivesToken
<1>2. ASSUME NEW r \in Request, Save(r), req[r].sid = s
      PROVE  session'[s].token + TTL <= session'[s].expires
  <2>1. session'[s] = NewSession(r, now + TTL)
    BY <1>2 DEF Save, TypeOK
  <2>2. req[r].token <= now /\ req[r].token \in Nat /\ now \in Nat
    BY <1>2 DEF Save, TokensArePast, TypeOK, Req
  <2> QED
    BY <2>1, <2>2, AuthAssumption DEF NewSession
<1>3. ASSUME NEW r \in Request, Save(r), req[r].sid # s
      PROVE  session'[s] = session[s]
  BY <1>3 DEF Save, TypeOK
<1>4. ASSUME NEW r \in Request, LogoutDel(r) \/ RevokeDel(r)
      PROVE  session'[s] = session[s]
  BY <1>4 DEF LogoutDel, RevokeDel, TypeOK
<1>5. CASE Tick
  BY <1>1, <1>5 DEF Tick
<1>6. CASE UNCHANGED Stores
  BY <1>1, <1>6 DEF Stores
<1> QED
  BY <1>1, <1>2, <1>3, <1>4, <1>5, <1>6, StoreSteps

\* The session key never expires before the refresh token it vouches for, with
\* any mix of operations: refresh re-signs the token before it renews the key.
THEOREM SessionsOutliveTokens == Spec => []SessionOutlivesToken
<1>1. Init => ExpiryInv
  BY InitTypeOK DEF Init, ExpiryInv, TokensArePast, SessionOutlivesToken
<1>2. ExpiryInv /\ [Next]_vars => ExpiryInv'
  BY NextTypeOK, NextTokensArePast, NextSessionOutlivesToken DEF ExpiryInv
<1>3. ExpiryInv => SessionOutlivesToken
  BY DEF ExpiryInv
<1> QED
  BY <1>1, <1>2, <1>3, PTL DEF Spec

-----------------------------------------------------------------------------
(* The set of a user's sessions.                                           *)

\* Who is about to delete the set of an account has replaced its password.
RevokersWroteFirst ==
  \A r \in Request :
    pc[r] \in {"revoke.list", "revoke.del"} => password[req[r].user] # 0

\* A session never expires later than one stored now would.
SessionsExpireSoon == \A s \in Sid : session[s] # None => session[s].expires <= now + TTL

IndexInv == TypeOK /\ RevokersWroteFirst /\ SessionsExpireSoon /\ SessionsAreIndexed

LEMMA PasswordsNeverReturn ==
  ASSUME TypeOK, [Next]_vars, NEW u \in User, password[u] # 0
  PROVE  password'[u] # 0
<1>1. ASSUME NEW v \in User, NewPassword(v) PROVE password'[u] # 0
  <2>1. password[u] \in Nat
    BY DEF TypeOK
  <2> QED
    BY <1>1, <2>1 DEF NewPassword, TypeOK
<1>2. ASSUME NEW r \in Request,
             Login(r) \/ Refresh(r) \/ Logout(r) \/ Passwords(r) \/ Abort(r)
      PROVE  \/ PasswordWrite(r) \/ AdminResetWrite(r)
             \/ password' = password
  BY <1>2
  DEF Login, Refresh, Logout, Passwords, LoginCheck, LoginSign, Save, RefreshRead,
      RefreshUser, RefreshSign, LogoutRead, LogoutDel, ChangeRead, ResetRead,
      RevokeList, RevokeDel, AdminResetRead, Abort, account
<1>3. ASSUME NEW r \in Request, PasswordWrite(r) \/ AdminResetWrite(r)
      PROVE  password'[u] # 0
  <2>1. req[r].user \in User /\ NewPassword(req[r].user)
    BY <1>3 DEF PasswordWrite, AdminResetWrite, Goto, TypeOK
  <2> QED
    BY <1>1, <2>1
<1>4. CASE SetStatus \/ DeleteUsers \/ Tick \/ UNCHANGED vars
  BY <1>4 DEF SetStatus, DeleteUsers, Tick, vars, account
<1> QED
  BY <1>2, <1>3, <1>4 DEF Next

LEMMA NextRevokersWroteFirst ==
  ASSUME TypeOK, RevokersWroteFirst, [Next]_vars PROVE RevokersWroteFirst'
<1> DEFINE Revoking == {"revoke.list", "revoke.del"}
<1>1. ASSUME NEW r \in Request, pc'[r] \in Revoking,
             Login(r) \/ Refresh(r) \/ Logout(r) \/ Passwords(r) \/ Abort(r)
      PROVE  PasswordWrite(r) \/ RevokeList(r)
  <2> USE DEF TypeOK, Start, Goto, Finish
  <2>1. CASE Login(r)
    BY <1>1, <2>1 DEF Login, LoginCheck, LoginSign, Save
  <2>2. CASE Refresh(r)
    BY <1>1, <2>2 DEF Refresh, RefreshRead, RefreshUser, RefreshSign
  <2>3. CASE Logout(r)
    BY <1>1, <2>3 DEF Logout, LogoutRead, LogoutDel
  <2>4. CASE Passwords(r)
    BY <1>1, <2>4 DEF Passwords, ChangeRead, ResetRead, RevokeDel,
       AdminResetRead, AdminResetWrite
  <2>5. CASE Abort(r)
    BY <1>1, <2>5 DEF Abort
  <2> QED
    BY <1>1, <2>1, <2>2, <2>3, <2>4, <2>5
<1>2. ASSUME NEW r \in Request, PasswordWrite(r) PROVE password'[req'[r].user] # 0
  <2>1. req[r].user \in User /\ req' = req
    BY <1>2 DEF PasswordWrite, Goto, TypeOK
  <2>2. password'[req[r].user] = password[req[r].user] + 1
    BY <1>2, <2>1 DEF PasswordWrite, NewPassword, TypeOK
  <2>3. password[req[r].user] \in Nat
    BY <2>1 DEF TypeOK
  <2> QED
    BY <2>1, <2>2, <2>3
<1>3. ASSUME NEW r \in Request, RevokeList(r) PROVE password'[req'[r].user] # 0
  <2>1. req'[r].user = req[r].user /\ password' = password
    BY <1>3 DEF RevokeList, account, TypeOK, Req
  <2>2. password[req[r].user] # 0
    BY <1>3 DEF RevokeList, Goto, RevokersWroteFirst
  <2> QED
    BY <2>1, <2>2
<1>4. ASSUME NEW r \in Request, pc'[r] \in Revoking, pc'[r] = pc[r], req'[r] = req[r]
      PROVE  password'[req'[r].user] # 0
  <2>1. req[r].user \in User /\ password[req[r].user] # 0
    BY <1>4 DEF RevokersWroteFirst, TypeOK
  <2> QED
    BY <1>4, <2>1, PasswordsNeverReturn
<1>5. CASE SetStatus \/ DeleteUsers \/ Tick \/ UNCHANGED vars
  <2>1. pc' = pc /\ req' = req
    BY <1>5 DEF SetStatus, DeleteUsers, Tick, vars
  <2> QED
    BY <1>4, <2>1 DEF RevokersWroteFirst
<1>6. ASSUME NEW r \in Request,
             Login(r) \/ Refresh(r) \/ Logout(r) \/ Passwords(r) \/ Abort(r),
             NEW q \in Request, pc'[q] \in Revoking
      PROVE  password'[req'[q].user] # 0
  <2>1. CASE q = r
    BY <1>1, <1>2, <1>3, <1>6, <2>1
  <2>2. CASE q # r
    BY <1>4, <1>6, <2>2, OthersSteps
  <2> QED
    BY <2>1, <2>2
<1> QED
  BY <1>5, <1>6 DEF Next, RevokersWroteFirst

LEMMA NextSessionsExpireSoon ==
  ASSUME TypeOK, SessionsExpireSoon, [Next]_vars PROVE SessionsExpireSoon'
<1> SUFFICES ASSUME NEW s \in Sid, session'[s] # None
             PROVE  session'[s].expires <= now' + TTL
  BY DEF SessionsExpireSoon
<1>1. session[s] # None => session[s].expires \in Nat
  BY DEF TypeOK, Session
<1>2. ASSUME NEW r \in Request, Save(r)
      PROVE  session'[s].expires <= now' + TTL
  <2>1. CASE req[r].sid = s
    <3>1. session'[s] = NewSession(r, now + TTL) /\ now' = now
      BY <1>2, <2>1 DEF Save, TypeOK
    <3> QED
      BY <3>1, AuthAssumption DEF NewSession, TypeOK
  <2>2. CASE req[r].sid # s
    <3>1. session'[s] = session[s] /\ now' = now
      BY <1>2, <2>2 DEF Save, TypeOK
    <3> QED
      BY <3>1 DEF SessionsExpireSoon
  <2> QED
    BY <2>1, <2>2
<1>3. CASE session'[s] = session[s] /\ (now' = now \/ now' = now + 1)
  BY <1>1, <1>3, AuthAssumption DEF SessionsExpireSoon, TypeOK
<1>4. ASSUME NEW r \in Request, LogoutDel(r) \/ RevokeDel(r)
      PROVE  session'[s] = session[s] /\ now' = now
  BY <1>4 DEF LogoutDel, RevokeDel, TypeOK
<1>5. Tick => session'[s] = session[s] /\ now' = now + 1
  BY DEF Tick
<1>6. UNCHANGED Stores => session'[s] = session[s] /\ now' = now
  BY DEF Stores
<1> QED
  BY <1>2, <1>3, <1>4, <1>5, <1>6, StoreSteps

LEMMA NextSessionsAreIndexed ==
  ASSUME IndexInv, [Next]_vars PROVE SessionsAreIndexed'
<1> SUFFICES ASSUME NEW s \in Sid, session'[s] # None,
                    password'[session'[s].user] = 0
             PROVE  /\ s \in index'[session'[s].user].sids
                    /\ session'[s].expires <= index'[session'[s].user].expires
  BY DEF SessionsAreIndexed
<1>c. session'[s] = session[s] => password[session[s].user] = 0
  BY PasswordsNeverReturn DEF IndexInv, TypeOK, Session
<1>a. session[s] # None =>
        session[s].user \in User /\ session[s].expires \in Nat
  BY DEF IndexInv, TypeOK, Session
<1>d. session'[s] = session[s] =>
        /\ s \in index[session[s].user].sids
        /\ session[s].expires <= index[session[s].user].expires
        /\ session[s].expires <= now + TTL
  BY <1>c DEF IndexInv, SessionsAreIndexed, SessionsExpireSoon
<1>b. \A u \in User : index[u] \in Index
  BY DEF IndexInv, TypeOK
<1>1. ASSUME NEW r \in Request, Save(r)
      PROVE  /\ s \in index'[session'[s].user].sids
             /\ session'[s].expires <= index'[session'[s].user].expires
  <2> DEFINE u == req[r].user
  <2>1. u \in User /\ req[r].sid \in Sid /\ now \in Nat
    BY <1>1 DEF Save, IndexInv, TypeOK, NeedsSid
  <2>2. /\ index'[u].sids = index[u].sids \cup {req[r].sid}
        /\ index'[u].expires = now + TTL
        /\ \A v \in User \ {u} : index'[v] = index[v]
    BY <1>1, <1>b, <2>1 DEF Save, IndexInv, TypeOK, Index
  <2>3. CASE req[r].sid = s
    <3>1. session'[s] = NewSession(r, now + TTL)
      BY <1>1, <2>3 DEF Save, IndexInv, TypeOK
    <3> QED
      BY <2>1, <2>2, <2>3, <3>1, AuthAssumption DEF NewSession
  <2>4. CASE req[r].sid # s
    <3>1. session'[s] = session[s]
      BY <1>1, <2>4 DEF Save, IndexInv, TypeOK
    <3> QED
      BY <1>a, <1>d, <2>2, <3>1
  <2> QED
    BY <2>3, <2>4
<1>2. ASSUME NEW r \in Request, LogoutDel(r)
      PROVE  /\ s \in index'[session'[s].user].sids
             /\ session'[s].expires <= index'[session'[s].user].expires
  <2> DEFINE u == req[r].user
  <2>1. u \in User
    BY <1>2 DEF LogoutDel, IndexInv, TypeOK
  <2>2. /\ index'[u].sids = index[u].sids \ {req[r].sid}
        /\ index'[u].expires = index[u].expires
        /\ \A v \in User \ {u} : index'[v] = index[v]
    BY <1>2, <1>b, <2>1 DEF LogoutDel, IndexInv, TypeOK, Index
  <2>3. s # req[r].sid /\ session'[s] = session[s]
    BY <1>2 DEF LogoutDel, IndexInv, TypeOK
  <2> QED
    BY <1>a, <1>d, <2>2, <2>3
<1>3. CASE Tick
  <2>1. session'[s] = session[s] /\ ~(session[s].expires <= now')
    BY <1>3 DEF Tick
  <2>2. session[s] # None
    BY <2>1
  <2>3. index[session[s].user].expires \in Nat
    BY <1>a, <1>b, <2>2 DEF Index
  <2>4. now' \in Nat
    BY <1>3 DEF Tick, IndexInv, TypeOK
  <2>5. ~(index[session[s].user].expires <= now')
    BY <1>a, <1>d, <2>1, <2>2, <2>3, <2>4
  <2>6. index'[session[s].user] = index[session[s].user]
    BY <1>a, <1>3, <2>2, <2>5 DEF Tick
  <2> QED
    BY <1>a, <1>d, <2>1, <2>2, <2>6
<1>4. CASE UNCHANGED Stores
  BY <1>a, <1>d, <1>4 DEF Stores
<1>5. ASSUME NEW r \in Request, RevokeDel(r)
      PROVE  /\ s \in index'[session'[s].user].sids
             /\ session'[s].expires <= index'[session'[s].user].expires
  <2>1. session'[s] = session[s]
    BY <1>5 DEF RevokeDel
  <2>2. session[s].user # req[r].user
    BY <1>c, <1>5, <2>1 DEF RevokeDel, IndexInv, RevokersWroteFirst
  <2>3. index'[session[s].user] = index[session[s].user]
    BY <1>5, <2>2 DEF RevokeDel, IndexInv, TypeOK
  <2> QED
    BY <1>d, <2>1, <2>3
<1> QED
  BY <1>1, <1>2, <1>3, <1>4, <1>5, StoreSteps

\* Until the password of an account is replaced, logins, refreshes, logouts,
\* whatever is done to other accounts and their failures keep every session in
\* its user's set, and the set alive at least as long.
THEOREM SessionsStayIndexed == Spec => []SessionsAreIndexed
<1>1. Init => IndexInv
  BY InitTypeOK
  DEF Init, IndexInv, RevokersWroteFirst, SessionsExpireSoon, SessionsAreIndexed
<1>2. IndexInv /\ [Next]_vars => IndexInv'
  BY NextTypeOK, NextRevokersWroteFirst, NextSessionsExpireSoon,
     NextSessionsAreIndexed DEF IndexInv
<1>3. IndexInv => SessionsAreIndexed
  BY DEF IndexInv
<1> QED
  BY <1>1, <1>2, <1>3, PTL DEF Spec

-----------------------------------------------------------------------------
(* Session ids.                                                            *)

\* A session id is used by one login; whoever else knows it has learnt it from
\* a session that was stored under it.
LiveIdsAreIssued == \A s \in Sid : session[s] # None => issued[s] # {}
OldTokensAreIssued ==
  \A r \in Request : req[r].old # None =>
    req[r].sid \in Sid /\ req[r].old \in issued[req[r].sid]
OnlyRefreshesAreOld ==
  \A r \in Request :
    /\ pc[r] = "login.sign" => req[r].old = None
    /\ pc[r] \in {"refresh.user", "refresh.sign"} => req[r].old # None
NewIdsAreFresh ==
  \A r \in Request : pc[r] = "save" /\ req[r].old = None =>
    /\ issued[req[r].sid] = {}
    /\ \A q \in Request : q # r => req[q].sid # req[r].sid

IdInv == /\ TypeOK /\ LiveIdsAreIssued /\ OldTokensAreIssued
         /\ OnlyRefreshesAreOld /\ NewIdsAreFresh

\* What a step does to the session id and the old token of a request.
Forgets(q) == /\ req'[q].old = None /\ req'[q].sid = None
              /\ pc'[q] \notin {"refresh.user", "refresh.sign", "save"}
Learns(q) == /\ req'[q].sid \in Sid /\ session[req'[q].sid] # None
             /\ \/ req'[q].old = None /\ pc'[q] = "logout.del"
                \/ /\ req'[q].old \in issued[req'[q].sid]
                   /\ req'[q].old # None /\ pc'[q] = "refresh.user"
Keeps(q) == /\ req'[q].old = req[q].old /\ req'[q].sid = req[q].sid
            /\ \/ pc'[q] = pc[q]
               \/ pc[q] \in {"refresh.user", "refresh.sign"} /\ pc'[q] # "login.sign"
               \/ pc'[q] \in {"revoke.list", "revoke.del"}

LEMMA RequestSteps ==
  ASSUME TypeOK, [Next]_vars, NEW q \in Request
  PROVE  Forgets(q) \/ Learns(q) \/ Keeps(q) \/ LoginSign(q)
<1>a. Finish(q) => Forgets(q)
  BY DEF Finish, Forgets, NoReq, TypeOK
<1>1. CASE LoginCheck(q) \/ ChangeRead(q) \/ ResetRead(q) \/ AdminResetRead(q)
  <2>1. req'[q].old = None /\ req'[q].sid = None
    <3>1. CASE LoginCheck(q)
      BY <3>1 DEF LoginCheck, NoReq, Start, TypeOK
    <3>2. CASE ChangeRead(q)
      BY <3>2 DEF ChangeRead, NoReq, Start, TypeOK
    <3>3. CASE ResetRead(q)
      BY <3>3 DEF ResetRead, NoReq, Start, TypeOK
    <3>4. CASE AdminResetRead(q)
      BY <3>4 DEF AdminResetRead, NoReq, Start, TypeOK
    <3> QED
      BY <1>1, <3>1, <3>2, <3>3, <3>4
  <2>2. pc'[q] \in {"login.sign", "password.write", "admin.write"}
    BY <1>1 DEF LoginCheck, ChangeRead, ResetRead, AdminResetRead, Start, TypeOK
  <2> QED
    BY <2>1, <2>2 DEF Forgets
<1>2. CASE RefreshRead(q)
  <2>a. PICK s \in Sid : \E t \in issued[s] :
          /\ session[s] # None
          /\ Start(q, "refresh", "refresh.user",
                   [NoReq EXCEPT !.user = session[s].user, !.sid = s, !.old = t,
                                 !.version = session[s].version])
    BY <1>2 DEF RefreshRead
  <2>1. PICK t \in issued[s] :
          /\ session[s] # None
          /\ Start(q, "refresh", "refresh.user",
                   [NoReq EXCEPT !.user = session[s].user, !.sid = s, !.old = t,
                                 !.version = session[s].version])
    BY <2>a
  <2>2. pc'[q] = "refresh.user" /\ req'[q].sid = s /\ req'[q].old = t
    BY <2>1 DEF NoReq, Start, TypeOK
  <2>3. t # None
    BY <2>1, AuthAssumption DEF TypeOK
  <2> QED
    BY <2>1, <2>2, <2>3 DEF Learns
<1>3. CASE LogoutRead(q)
  <2>1. PICK s \in Sid :
          /\ session[s] # None
          /\ Start(q, "logout", "logout.del",
                   [NoReq EXCEPT !.user = session[s].user, !.sid = s])
    BY <1>3 DEF LogoutRead
  <2>2. pc'[q] = "logout.del" /\ req'[q].sid = s /\ req'[q].old = None
    BY <2>1 DEF NoReq, Start, TypeOK
  <2> QED
    BY <2>1, <2>2 DEF Learns
<1>4. CASE RefreshUser(q) \/ RefreshSign(q)
  BY <1>a, <1>4 DEF RefreshUser, RefreshSign, Goto, Keeps, TypeOK, Req
<1>5. CASE PasswordWrite(q) \/ RevokeList(q)
  BY <1>5 DEF PasswordWrite, RevokeList, Goto, Keeps, TypeOK, Req
<1>6. CASE Save(q) \/ LogoutDel(q) \/ RevokeDel(q) \/ AdminResetWrite(q) \/ Abort(q)
  BY <1>a, <1>6 DEF Save, LogoutDel, RevokeDel, AdminResetWrite, Abort
<1>7. CASE SetStatus \/ DeleteUsers \/ Tick \/ UNCHANGED vars
  BY <1>7 DEF SetStatus, DeleteUsers, Tick, vars, Keeps
<1>8. ASSUME NEW r \in Request, r # q,
             Login(r) \/ Refresh(r) \/ Logout(r) \/ Passwords(r) \/ Abort(r)
      PROVE  Keeps(q)
  BY <1>8, OthersSteps DEF Keeps
<1>9. CASE Login(q) \/ Refresh(q) \/ Logout(q) \/ Passwords(q) \/ Abort(q)
  BY <1>1, <1>2, <1>3, <1>4, <1>5, <1>6, <1>9
  DEF Login, Refresh, Logout, Passwords
<1> QED
  BY <1>7, <1>8, <1>9 DEF Next

\* Only storing a session hands out a token, for that session.
LEMMA IssuedSteps ==
  ASSUME TypeOK, [Next]_vars, NEW s \in Sid
  PROVE  /\ issued[s] \subseteq issued'[s]
         /\ \/ issued'[s] = issued[s]
            \/ \E r \in Request : Save(r) /\ req[r].sid = s
<1>1. ASSUME NEW r \in Request, Save(r)
      PROVE  /\ issued[s] \subseteq issued'[s]
             /\ req[r].sid # s => issued'[s] = issued[s]
  BY <1>1 DEF Save, TypeOK
<1>2. ASSUME NEW r \in Request, LogoutDel(r) \/ RevokeDel(r)
      PROVE  issued' = issued
  BY <1>2 DEF LogoutDel, RevokeDel
<1>3. Tick => issued' = issued
  BY DEF Tick
<1> QED
  BY <1>1, <1>2, <1>3, StoreSteps DEF Stores

\* A session that appears is stored by a request that says so.
LEMMA SessionSteps ==
  ASSUME TypeOK, [Next]_vars, NEW s \in Sid, session'[s] # None
  PROVE  \/ session[s] # None
         \/ \E r \in Request : Save(r) /\ req[r].sid = s
<1>1. ASSUME NEW r \in Request, Save(r), req[r].sid # s
      PROVE  session'[s] = session[s]
  BY <1>1 DEF Save, TypeOK
<1>2. ASSUME NEW r \in Request, LogoutDel(r) \/ RevokeDel(r)
      PROVE  session'[s] = session[s]
  BY <1>2 DEF LogoutDel, RevokeDel, TypeOK
<1>3. Tick => session'[s] = session[s]
  BY DEF Tick
<1> QED
  BY <1>1, <1>2, <1>3, StoreSteps DEF Stores

LEMMA NextNewIdsAreFresh == ASSUME IdInv, [Next]_vars PROVE NewIdsAreFresh'
<1> SUFFICES ASSUME NEW r \in Request, pc'[r] = "save", req'[r].old = None
             PROVE  /\ issued'[req'[r].sid] = {}
                    /\ \A q \in Request : q # r => req'[q].sid # req'[r].sid
  BY DEF NewIdsAreFresh
<1> USE DEF IdInv
<1>1. CASE LoginSign(r)
  <2>1. PICK s \in Sid :
          /\ issued[s] = {} /\ issued' = issued
          /\ req' = [req EXCEPT ![r].sid = s, ![r].token = now]
          /\ \A q \in Request : req[q].sid # s
    BY <1>1 DEF LoginSign
  <2>2. req'[r].sid = s /\ \A q \in Request : q # r => req'[q] = req[q]
    BY <2>1 DEF TypeOK, Req
  <2> QED
    BY <2>1, <2>2
<1>2. CASE ~LoginSign(r)
  <2>1. /\ pc[r] = "save" /\ req'[r].sid = req[r].sid /\ req[r].old = None
    BY <1>2, RequestSteps DEF Forgets, Learns, Keeps, OnlyRefreshesAreOld
  <2> DEFINE s == req[r].sid
  <2>2. s \in Sid /\ s # None
    BY <2>1, AuthAssumption DEF TypeOK, NeedsSid
  <2>3. issued[s] = {} /\ \A q \in Request : q # r => req[q].sid # s
    BY <2>1 DEF NewIdsAreFresh
  <2>4. issued'[s] = {}
    <3>1. ASSUME NEW q \in Request, Save(q), req[q].sid = s PROVE FALSE
      <4>1. q # r
        BY <3>1 DEF Save, Finish, TypeOK
      <4> QED
        BY <2>3, <3>1, <4>1
    <3> QED
      BY <2>2, <2>3, <3>1, IssuedSteps
  <2>5. ASSUME NEW q \in Request, q # r PROVE req'[q].sid # s
    <3>1. CASE Forgets(q)
      BY <2>2, <3>1 DEF Forgets
    <3>2. CASE Learns(q)
      BY <2>3, <3>2 DEF Learns, LiveIdsAreIssued
    <3>3. CASE Keeps(q)
      BY <2>3, <2>5, <3>3 DEF Keeps
    <3>4. CASE LoginSign(q)
      BY <3>4 DEF LoginSign, TypeOK, Req
    <3> QED
      BY <3>1, <3>2, <3>3, <3>4, RequestSteps
  <2> QED
    BY <2>1, <2>4, <2>5
<1> QED
  BY <1>1, <1>2

LEMMA NextIdInv == ASSUME IdInv, [Next]_vars PROVE IdInv'
<1> USE DEF IdInv
<1>1. TypeOK'
  BY NextTypeOK
<1>2. LiveIdsAreIssued'
  <2> SUFFICES ASSUME NEW s \in Sid, session'[s] # None PROVE issued'[s] # {}
    BY DEF LiveIdsAreIssued
  <2>1. CASE session[s] # None
    BY <2>1, IssuedSteps DEF LiveIdsAreIssued
  <2>2. ASSUME NEW r \in Request, Save(r), req[r].sid = s PROVE issued'[s] # {}
    BY <2>2 DEF Save, TypeOK
  <2> QED
    BY <2>1, <2>2, SessionSteps
<1>3. OldTokensAreIssued'
  <2> SUFFICES ASSUME NEW r \in Request, req'[r].old # None
               PROVE  req'[r].sid \in Sid /\ req'[r].old \in issued'[req'[r].sid]
    BY DEF OldTokensAreIssued
  <2>1. CASE LoginSign(r)
    <3>1. req'[r].old = req[r].old /\ req[r].old = None
      BY <2>1 DEF LoginSign, Goto, TypeOK, Req, OnlyRefreshesAreOld
    <3> QED
      BY <3>1
  <2>2. CASE ~LoginSign(r)
    <3>1. req'[r].sid \in Sid /\ req'[r].old \in issued[req'[r].sid]
      BY <2>2, RequestSteps DEF Forgets, Learns, Keeps, OldTokensAreIssued
    <3> QED
      BY <3>1, IssuedSteps
  <2> QED
    BY <2>1, <2>2
<1>4. OnlyRefreshesAreOld'
  <2>1. ASSUME NEW r \in Request, LoginSign(r) PROVE pc'[r] = "save"
    BY <2>1 DEF LoginSign, Goto, TypeOK
  <2> QED
    BY <2>1, RequestSteps DEF Forgets, Learns, Keeps, OnlyRefreshesAreOld
<1> QED
  BY <1>1, <1>2, <1>3, <1>4, NextNewIdsAreFresh

\* Whatever logins, logouts, password changes and crashes interleave, a session
\* that ended comes back only by a refresh that had read it.
THEOREM EndedSessionsStayEnded == Spec => OnlyRefreshRevives
<1> DEFINE Revived ==
      \A s \in Sid :
        issued[s] # {} /\ session[s] = None /\ session'[s] # None
          => \E r \in Request : /\ pc[r] = "save" /\ pc'[r] = "idle"
                                /\ req[r].sid = s /\ req[r].old \in issued[s]
<1>1. Init => IdInv
  BY InitTypeOK
  DEF Init, IdInv, LiveIdsAreIssued, OldTokensAreIssued, OnlyRefreshesAreOld,
      NewIdsAreFresh, NoReq
<1>2. IdInv /\ [Next]_vars => IdInv'
  BY NextIdInv
<1>3. IdInv /\ [Next]_vars => Revived
  <2> SUFFICES ASSUME IdInv, [Next]_vars, NEW s \in Sid,
                      issued[s] # {}, session[s] = None, session'[s] # None
               PROVE  \E r \in Request : /\ pc[r] = "save" /\ pc'[r] = "idle"
                                         /\ req[r].sid = s /\ req[r].old \in issued[s]
    OBVIOUS
  <2>1. PICK r \in Request : Save(r) /\ req[r].sid = s
    BY SessionSteps DEF IdInv
  <2>2. pc[r] = "save" /\ pc'[r] = "idle"
    BY <2>1 DEF Save, Finish, IdInv, TypeOK
  <2>3. req[r].old # None
    BY <2>1, <2>2 DEF IdInv, NewIdsAreFresh
  <2> QED
    BY <2>1, <2>2, <2>3 DEF IdInv, OldTokensAreIssued
<1>4. IdInv /\ [Next]_vars => [Revived]_vars
  BY <1>3
<1> QED
  BY <1>1, <1>2, <1>4, PTL DEF Spec, OnlyRefreshRevives
=============================================================================
