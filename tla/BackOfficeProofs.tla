-------------------------- MODULE BackOfficeProofs --------------------------
(* Proofs about BackOffice: reset tokens, login counters, the week, roles   *)
(* and totals, for any number of requests, users, tokens, roles, days and   *)
(* lines.                                                                   *)
EXTENDS BackOffice, FiniteSetTheorems, SequenceTheorems, WellFoundedInduction, TLAPS

-----------------------------------------------------------------------------
(* Reset tokens.                                                           *)

\* What a request remembers stays true of the keys, although others replace,
\* consume and delete them: a token that was made keeps its user for good, and
\* one that was found replaced is never in force again.
ResetKnows(r) ==
  /\ resetReq[r].old # None =>
       /\ resetReq[r].old \in mailed
       /\ tokenKey[resetReq[r].old] # None =>
            tokenKey[resetReq[r].old].user = resetReq[r].user
  /\ pc[r] \notin {"idle", "forgot.set"} /\ tokenKey[resetReq[r].token] # None =>
       tokenKey[resetReq[r].token].user = resetReq[r].user
  /\ pc[r] = "verify.del" =>
       Resets!InForce(resetReq[r].user) # resetReq[r].token

ResetsInv ==
  part = "resets" =>
    /\ Resets!TypeOK
    /\ \A t \in Token : tokenKey[t] # None => t \in mailed
    /\ \A r \in Request : ResetKnows(r)

ResetKey == [user : User, expires : Nat]
UserKey  == [token : Token, expires : Nat]

LEMMA NoKeyIsAKey == None \notin ResetKey /\ None \notin UserKey
  BY BackOfficeAssumption DEF ResetKey, UserKey

LEMMA ResetsInit == BackOfficeInit => ResetsInv /\ TokenInForceExists
<1> SUFFICES ASSUME BackOfficeInit PROVE ResetsInv /\ TokenInForceExists
  OBVIOUS
<1> USE DEF BackOfficeInit, Resets!Init, Resets!NoReq
<1>1. TokenInForceExists
  BY DEF TokenInForceExists, Resets!TokenInForceExists
<1>2. Resets!TypeOK
  BY DEF Resets!TypeOK, Resets!Label, Resets!Req
<1> QED
  BY <1>1, <1>2 DEF ResetsInv, ResetKnows

\* A token in force was mailed and leads back to one user only.
LEMMA InForceIsMailed ==
  ASSUME part = "resets", ResetsInv, TokenInForceExists, NEW u \in User,
         userKey[u] # None
  PROVE  /\ userKey[u] \in UserKey
         /\ userKey[u].token \in mailed
         /\ tokenKey[userKey[u].token] # None
         /\ tokenKey[userKey[u].token].user = u
         /\ tokenKey[userKey[u].token].expires = userKey[u].expires
         /\ Resets!InForce(u) = userKey[u].token
<1>1. userKey[u] \in UserKey
  BY DEF ResetsInv, ResetKnows, Resets!TypeOK, UserKey
<1>2. userKey[u].token \in Token
  BY <1>1 DEF UserKey
<1> QED
  BY <1>1, <1>2 DEF ResetsInv, ResetKnows, TokenInForceExists, Resets!TokenInForceExists, Resets!InForce

\* What every step needs to know of a request that is not idle.
LEMMA RequestIsTyped ==
  ASSUME part = "resets", ResetsInv, NEW r \in Request
  PROVE  /\ resetReq[r] \in Resets!Req
         /\ pc[r] # "idle" => resetReq[r].user \in User
         /\ pc[r] \notin {"idle", "forgot.set"} =>
              /\ resetReq[r].token \in mailed
              /\ resetReq[r].token \in Token
  BY DEF ResetsInv, ResetKnows, Resets!TypeOK

\* A request that starts or goes on, with the keys as they were.
LEMMA ResetsGoto ==
  ASSUME part = "resets", ResetsInv, part' = part, NEW r \in Request,
         NEW l \in Resets!Label, NEW q \in Resets!Req,
         pc' = [pc EXCEPT ![r] = l], resetReq' = [resetReq EXCEPT ![r] = q],
         UNCHANGED <<tokenKey, userKey, mailed, deletedUser>>,
         now' = now, password' \in [User -> Nat],
         q.old # None => q.old \in mailed
           /\ (tokenKey[q.old] # None => tokenKey[q.old].user = q.user),
         l # "idle" => q.user \in User,
         l \notin {"idle", "forgot.set"} =>
           /\ q.token \in mailed
           /\ tokenKey[q.token] # None => tokenKey[q.token].user = q.user,
         l = "verify.del" => Resets!InForce(q.user) # q.token
  PROVE  ResetsInv'
<1>1. Resets!TypeOK'
  BY DEF ResetsInv, ResetKnows, Resets!TypeOK
<1> QED
  BY <1>1 DEF ResetsInv, ResetKnows, Resets!TypeOK, Resets!InForce

LEMMA ResetsFinish ==
  ASSUME part = "resets", ResetsInv, part' = part, NEW r \in Request,
         Resets!Finish(r), UNCHANGED <<tokenKey, userKey, mailed, deletedUser>>,
         now' = now, password' = password
  PROVE  ResetsInv'
<1>1. "idle" \in Resets!Label /\ Resets!NoReq \in Resets!Req /\ Resets!NoReq.old = None
  BY DEF Resets!Label, Resets!NoReq, Resets!Req
<1>2. /\ pc' = [pc EXCEPT ![r] = "idle"]
      /\ resetReq' = [resetReq EXCEPT ![r] = Resets!NoReq]
      /\ password' \in [User -> Nat]
  BY DEF Resets!Finish, ResetsInv, ResetKnows, Resets!TypeOK
<1> QED
  BY <1>1, <1>2, ResetsGoto

LEMMA ResetsReads ==
  ASSUME part = "resets", ResetsInv, part' = part, NEW r \in Request,
         \/ Resets!ForgotGet(r) \/ Resets!VerifyToken(r) \/ Resets!VerifyUser(r)
         \/ Resets!ResetFind(r) \/ Resets!ResetWrite(r) \/ Resets!Abort(r),
         TokenInForceExists
  PROVE  ResetsInv' /\ UNCHANGED <<tokenKey, userKey, mailed>>
<1>a. resetReq[r] \in Resets!Req /\ resetReq' = [resetReq' EXCEPT ![r] = resetReq'[r]]
  BY RequestIsTyped
  DEF Resets!ForgotGet, Resets!VerifyToken, Resets!VerifyUser, Resets!ResetFind,
      Resets!ResetWrite, Resets!Abort, Resets!Finish, ResetsInv, ResetKnows, Resets!TypeOK
<1>b. resetReq = [resetReq EXCEPT ![r] = resetReq[r]] /\ password \in [User -> Nat]
  BY DEF ResetsInv, ResetKnows, Resets!TypeOK
<1>1. CASE Resets!ForgotGet(r)
  <2>1. PICK u \in User :
          /\ Resets!Goto(r, "idle", "forgot.set")
          /\ resetReq' = [resetReq EXCEPT ![r] =
               [Resets!NoReq EXCEPT !.user = u, !.old = Resets!InForce(u)]]
          /\ UNCHANGED <<now, Resets!keys, mailed, Resets!db>>
    BY <1>1 DEF Resets!ForgotGet
  <2> DEFINE q == [Resets!NoReq EXCEPT !.user = u, !.old = Resets!InForce(u)]
  <2>2. Resets!InForce(u) # None =>
          /\ Resets!InForce(u) \in mailed /\ Resets!InForce(u) \in Token
          /\ tokenKey[Resets!InForce(u)].user = u
    BY InForceIsMailed DEF Resets!InForce, UserKey
  <2>3. q \in Resets!Req /\ q.old = Resets!InForce(u) /\ q.user = u
    BY <2>2 DEF Resets!Req, Resets!NoReq
  <2>4. "forgot.set" \in Resets!Label
    BY DEF Resets!Label
  <2>5. resetReq' = [resetReq EXCEPT ![r] = q]
    BY <2>1
  <2>6. /\ pc' = [pc EXCEPT ![r] = "forgot.set"]
        /\ UNCHANGED <<now, tokenKey, userKey, mailed, password, deletedUser>>
    BY <2>1 DEF Resets!Goto, Resets!keys, Resets!db
  <2> HIDE DEF q
  <2> QED
    BY <1>b, <2>2, <2>3, <2>4, <2>5, <2>6, ResetsGoto
<1>2. CASE Resets!VerifyToken(r)
  <2>1. PICK t \in mailed, reset \in BOOLEAN :
          /\ tokenKey[t] # None
          /\ Resets!Goto(r, "idle", "verify.user")
          /\ resetReq' = [resetReq EXCEPT ![r] =
               [Resets!NoReq EXCEPT !.user = tokenKey[t].user, !.token = t,
                                    !.reset = reset]]
          /\ UNCHANGED <<now, Resets!keys, mailed, Resets!db>>
    BY <1>2 DEF Resets!VerifyToken
  <2> DEFINE q == [Resets!NoReq EXCEPT !.user = tokenKey[t].user, !.token = t,
                                       !.reset = reset]
  <2>2. t \in Token /\ tokenKey[t].user \in User
    BY <2>1 DEF ResetsInv, ResetKnows, Resets!TypeOK
  <2>3. q \in Resets!Req /\ q.old = None /\ q.user = tokenKey[t].user /\ q.token = t
    BY <2>2 DEF Resets!Req, Resets!NoReq
  <2>4. "verify.user" \in Resets!Label
    BY DEF Resets!Label
  <2>5. resetReq' = [resetReq EXCEPT ![r] = q]
    BY <2>1
  <2>6. /\ pc' = [pc EXCEPT ![r] = "verify.user"]
        /\ UNCHANGED <<now, tokenKey, userKey, mailed, password, deletedUser>>
    BY <2>1 DEF Resets!Goto, Resets!keys, Resets!db
  <2>7. t \in mailed /\ tokenKey[t] # None
    BY <2>1
  <2> HIDE DEF q
  <2> QED
    BY <1>b, <2>7, <2>2, <2>3, <2>4, <2>5, <2>6, ResetsGoto
<1>3. CASE Resets!VerifyUser(r)
  <2>1. {"verify.del", "reset.find"} \subseteq Resets!Label /\ "verify.user" # "idle"
    BY DEF Resets!Label
  <2>2. CASE Resets!InForce(resetReq[r].user) # resetReq[r].token
    BY <1>3, <1>a, <1>b, <2>1, <2>2, ResetsGoto, RequestIsTyped
    DEF Resets!VerifyUser, Resets!keys, Resets!db, ResetsInv, ResetKnows
  <2>3. CASE Resets!InForce(resetReq[r].user) = resetReq[r].token /\ resetReq[r].reset
    BY <1>3, <1>a, <1>b, <2>1, <2>3, ResetsGoto, RequestIsTyped
    DEF Resets!VerifyUser, Resets!keys, Resets!db, ResetsInv, ResetKnows
  <2>4. CASE Resets!InForce(resetReq[r].user) = resetReq[r].token /\ ~resetReq[r].reset
    BY <1>3, <2>4, ResetsFinish DEF Resets!VerifyUser, Resets!keys, Resets!db
  <2> QED
    BY <2>2, <2>3, <2>4
<1>4. CASE Resets!ResetFind(r)
  <2>1. {"consume", "reset.write"} \subseteq Resets!Label
    BY DEF Resets!Label
  <2> DEFINE l == IF deletedUser[resetReq[r].user] THEN "consume" ELSE "reset.write"
  <2>2. l \in Resets!Label \ {"idle", "forgot.set", "verify.del"}
    BY <2>1
  <2>3. pc[r] = "reset.find" /\ pc' = [pc EXCEPT ![r] = l]
    BY <1>4 DEF Resets!ResetFind, Resets!Goto
  <2> HIDE DEF l
  <2> QED
    BY <1>4, <1>a, <1>b, <2>2, <2>3, ResetsGoto, RequestIsTyped, ZenonT(60)
    DEF Resets!ResetFind, Resets!keys, Resets!db, ResetsInv, ResetKnows
<1>5. CASE Resets!ResetWrite(r)
  <2>1. "consume" \in Resets!Label
    BY DEF Resets!Label
  <2>2. password' \in [User -> Nat]
    <3>1. password' = [password EXCEPT ![resetReq[r].user] = password[resetReq[r].user] + 1]
      BY <1>5 DEF Resets!ResetWrite
    <3>2. resetReq[r].user \in User
      BY <1>5, RequestIsTyped DEF Resets!ResetWrite, Resets!Goto
    <3> QED
      BY <1>b, <3>1, <3>2
  <2> QED
    BY <1>5, <1>a, <1>b, <2>1, <2>2, ResetsGoto, RequestIsTyped, ZenonT(60)
    DEF Resets!ResetWrite, Resets!Goto, Resets!keys, ResetsInv, ResetKnows
<1>6. CASE Resets!Abort(r)
  BY <1>6, ResetsFinish DEF Resets!Abort, Resets!keys, Resets!db
<1> QED
  BY <1>1, <1>2, <1>3, <1>4, <1>5, <1>6
  DEF Resets!ForgotGet, Resets!VerifyToken, Resets!VerifyUser, Resets!ResetFind,
      Resets!ResetWrite, Resets!Abort, Resets!keys

\* A token that was never made replaces the one that was found: it is nobody
\* else's, and neither is the other.
LEMMA ResetsForgotSet ==
  ASSUME part = "resets", ResetsInv, TokenInForceExists, part' = part,
         NEW r \in Request, Resets!ForgotSet(r)
  PROVE  /\ ResetsInv' /\ TokenInForceExists'
         /\ \A t \in mailed : ~Resets!Valid(t) => ~Resets!Valid(t)'
<1> DEFINE u == resetReq[r].user
           old == resetReq[r].old
<1>1. PICK t \in Token \ mailed : Resets!NewKeys(r, t)
  BY DEF Resets!ForgotSet
<1>2. u \in User /\ old \in Token \cup {None}
  BY RequestIsTyped DEF Resets!ForgotSet, Resets!Req
<1>3. TTL \in Nat /\ now \in Nat /\ None \notin Token
  BY BackOfficeAssumption DEF ResetsInv, ResetKnows, Resets!TypeOK
<1> DEFINE new == [user |-> u, expires |-> now + TTL]
           key == [token |-> t, expires |-> now + TTL]
<1>4. new \in ResetKey /\ new.user = u /\ new.expires = now + TTL
  BY <1>2, <1>3 DEF ResetKey
<1>5. key \in UserKey /\ key.token = t /\ key.expires = now + TTL
  BY <1>3 DEF UserKey
<1>6. \A k \in Token :
        tokenKey'[k] = IF k = t THEN new ELSE IF k = old THEN None ELSE tokenKey[k]
  BY <1>1 DEF Resets!NewKeys
<1>7. tokenKey' \in [Token -> ResetKey \cup {None}]
  BY <1>1, <1>4 DEF Resets!NewKeys, ResetsInv, ResetKnows, Resets!TypeOK, ResetKey
<1>8. /\ userKey' \in [User -> UserKey \cup {None}]
      /\ userKey' = [userKey EXCEPT ![u] = key]
  BY <1>1, <1>5 DEF Resets!NewKeys, ResetsInv, ResetKnows, Resets!TypeOK, UserKey
<1>9. mailed' = mailed \cup {t} /\ Resets!Finish(r) /\ UNCHANGED <<now, Resets!db>>
  BY <1>1 DEF Resets!NewKeys, Resets!ForgotSet
<1> HIDE DEF new, key
<1>10. Resets!TypeOK'
  BY <1>7, <1>8, <1>9
  DEF ResetsInv, ResetKnows, Resets!TypeOK, Resets!Finish, Resets!db, ResetKey, UserKey,
      Resets!Label, Resets!Req, Resets!NoReq
<1>11. \A v \in User : Resets!InForce(v)' = IF v = u THEN t ELSE Resets!InForce(v)
  BY <1>2, <1>5, <1>8, NoKeyIsAKey DEF Resets!InForce, ResetsInv, ResetKnows, Resets!TypeOK
<1>12. ResetsInv'
  <2>a. \A k \in Token : tokenKey'[k] # None => k \in mailed'
    BY <1>6, <1>9 DEF ResetsInv, ResetKnows
  <2> SUFFICES ASSUME NEW q \in Request PROVE ResetKnows(q)'
    BY <1>10, <2>a DEF ResetsInv, ResetKnows
  <2>1. CASE q = r
    BY <1>6, <1>9, <2>1
    DEF Resets!Finish, Resets!NoReq, ResetsInv, ResetKnows, Resets!TypeOK
  <2>2. CASE q # r
    <3>1. resetReq'[q] = resetReq[q] /\ pc'[q] = pc[q]
      BY <1>9, <2>2 DEF Resets!Finish, ResetsInv, ResetKnows, Resets!TypeOK
    <3>2. /\ resetReq[q].old \in Token \cup {None}
          /\ pc[q] # "idle" => resetReq[q].user \in User
          /\ pc[q] \notin {"idle", "forgot.set"} =>
               resetReq[q].token \in mailed /\ resetReq[q].token \in Token
      BY RequestIsTyped DEF Resets!Req
    <3>4. (pc[q] = "verify.del" =>
             Resets!InForce(resetReq[q].user) # resetReq[q].token)'
      <4> SUFFICES ASSUME pc[q] = "verify.del"
                   PROVE  ~(Resets!InForce(resetReq[q].user)' = resetReq[q].token)
        BY <3>1
      <4>1. Resets!InForce(resetReq[q].user) # resetReq[q].token
        BY DEF ResetsInv, ResetKnows
      <4> QED
        BY <1>11, <3>1, <3>2, <4>1 DEF Resets!InForce
    <3> QED
      BY <1>6, <1>9, <3>1, <3>2, <3>4 DEF ResetsInv, ResetKnows
  <2> QED
    BY <2>1, <2>2
<1>13. TokenInForceExists'
  <2> SUFFICES ASSUME NEW v \in User, userKey'[v] # None
               PROVE  /\ tokenKey'[userKey'[v].token] # None
                      /\ tokenKey'[userKey'[v].token].user = v
                      /\ tokenKey'[userKey'[v].token].expires = userKey'[v].expires
    BY DEF TokenInForceExists, Resets!TokenInForceExists
  <2>1. CASE v = u
    BY <1>2, <1>4, <1>5, <1>6, <1>8, <2>1, NoKeyIsAKey
    DEF ResetsInv, ResetKnows, Resets!TypeOK
  <2>2. CASE v # u
    <3>1. userKey'[v] = userKey[v]
      BY <1>8, <2>2 DEF ResetsInv, ResetKnows, Resets!TypeOK
    <3>2. /\ userKey[v].token \in mailed /\ userKey[v].token \in Token
          /\ tokenKey[userKey[v].token] # None
          /\ tokenKey[userKey[v].token].user = v
          /\ tokenKey[userKey[v].token].expires = userKey[v].expires
      BY <3>1, InForceIsMailed DEF UserKey
    <3>3. userKey[v].token # old
      BY <1>3, <2>2, <3>2 DEF ResetsInv, ResetKnows
    <3> QED
      BY <1>6, <3>1, <3>2, <3>3
  <2> QED
    BY <2>1, <2>2
<1>14. ASSUME NEW k \in mailed, Resets!Valid(k)' PROVE Resets!Valid(k)
  <2>1. k \in Token /\ k # t
    BY DEF ResetsInv, ResetKnows, Resets!TypeOK
  <2>2. tokenKey'[k] = tokenKey[k] /\ tokenKey[k] # None
    BY <1>6, <1>14, <2>1 DEF Resets!Valid
  <2>3. tokenKey[k].user \in User
    BY <2>1, <2>2 DEF ResetsInv, ResetKnows, Resets!TypeOK
  <2>4. Resets!InForce(tokenKey[k].user)' = k
    BY <1>14, <2>2 DEF Resets!Valid, Resets!InForce
  <2>5. Resets!InForce(tokenKey[k].user) = k
    BY <1>11, <2>1, <2>2, <2>3, <2>4 DEF Resets!InForce
  <2> QED
    BY <2>2, <2>5 DEF Resets!Valid
<1> QED
  BY <1>12, <1>13, <1>14

\* The token of one user goes, and with it the user's key if that names it: every
\* other token keeps its user, and no token comes back.
LEMMA ResetsDelete ==
  ASSUME part = "resets", ResetsInv, TokenInForceExists, part' = part,
         NEW r \in Request, Resets!VerifyDel(r) \/ Resets!Consume(r)
  PROVE  /\ ResetsInv' /\ TokenInForceExists'
         /\ \A t \in mailed : ~Resets!Valid(t) => ~Resets!Valid(t)'
<1> DEFINE u == resetReq[r].user
           t == resetReq[r].token
<1>1. /\ u \in User /\ t \in mailed /\ t \in Token
      /\ tokenKey[t] # None => tokenKey[t].user = u
  BY RequestIsTyped DEF Resets!VerifyDel, Resets!Consume, ResetsInv, ResetKnows
<1>2. /\ tokenKey' = [tokenKey EXCEPT ![t] = None]
      /\ Resets!Finish(r)
      /\ UNCHANGED <<now, mailed, password, deletedUser>>
  BY DEF Resets!VerifyDel, Resets!Consume, Resets!db
<1>3. \/ userKey' = userKey /\ Resets!InForce(u) # t
      \/ userKey' = [userKey EXCEPT ![u] = None]
  BY DEF Resets!VerifyDel, Resets!Consume, ResetsInv, ResetKnows
<1> HIDE DEF u, t
<1>4. Resets!TypeOK'
  BY <1>1, <1>2, <1>3
  DEF ResetsInv, ResetKnows, Resets!TypeOK, Resets!Finish, Resets!Label, Resets!Req, Resets!NoReq
<1>5. \A v \in User : userKey'[v] = userKey[v] \/ (v = u /\ userKey'[v] = None)
  BY <1>3 DEF ResetsInv, ResetKnows, Resets!TypeOK
<1>6. \A k \in Token : tokenKey'[k] = IF k = t THEN None ELSE tokenKey[k]
  BY <1>2 DEF ResetsInv, ResetKnows, Resets!TypeOK
<1>7. ResetsInv'
  <2>a. \A k \in Token : tokenKey'[k] # None => k \in mailed'
    BY <1>2, <1>6 DEF ResetsInv, ResetKnows
  <2> SUFFICES ASSUME NEW q \in Request PROVE ResetKnows(q)'
    BY <1>4, <2>a DEF ResetsInv, ResetKnows
  <2>1. CASE q = r
    BY <1>2, <1>6, <2>1 DEF Resets!Finish, Resets!NoReq, ResetsInv, ResetKnows, Resets!TypeOK
  <2>2. CASE q # r
    <3>1. resetReq'[q] = resetReq[q] /\ pc'[q] = pc[q]
      BY <1>2, <2>2 DEF Resets!Finish, ResetsInv, ResetKnows, Resets!TypeOK
    <3>2. /\ resetReq[q].old \in Token \cup {None}
          /\ pc[q] # "idle" => resetReq[q].user \in User
          /\ pc[q] \notin {"idle", "forgot.set"} => resetReq[q].token \in Token
      BY RequestIsTyped DEF Resets!Req
    <3>3. (pc[q] = "verify.del" =>
             Resets!InForce(resetReq[q].user) # resetReq[q].token)'
      <4> SUFFICES ASSUME pc[q] = "verify.del"
                   PROVE  ~(Resets!InForce(resetReq[q].user)' = resetReq[q].token)
        BY <3>1
      <4>1. Resets!InForce(resetReq[q].user) # resetReq[q].token
        BY DEF ResetsInv, ResetKnows
      <4>2. resetReq[q].user \in User /\ resetReq[q].token # None
        BY <3>2, BackOfficeAssumption
      <4> QED
        BY <1>5, <3>1, <4>1, <4>2 DEF Resets!InForce
    <3> QED
      BY <1>2, <1>6, <3>1, <3>2, <3>3 DEF ResetsInv, ResetKnows
  <2> QED
    BY <2>1, <2>2
<1>8. TokenInForceExists'
  <2> SUFFICES ASSUME NEW v \in User, userKey'[v] # None
               PROVE  /\ tokenKey'[userKey'[v].token] # None
                      /\ tokenKey'[userKey'[v].token].user = v
                      /\ tokenKey'[userKey'[v].token].expires = userKey'[v].expires
    BY DEF TokenInForceExists, Resets!TokenInForceExists
  <2>1. userKey'[v] = userKey[v]
    BY <1>5
  <2>2. /\ userKey[v].token \in Token
        /\ tokenKey[userKey[v].token] # None
        /\ tokenKey[userKey[v].token].user = v
        /\ tokenKey[userKey[v].token].expires = userKey[v].expires
        /\ Resets!InForce(v) = userKey[v].token
    BY <2>1, InForceIsMailed DEF UserKey
  <2>3. userKey[v].token # t
    BY <1>1, <1>3, <2>2 DEF ResetsInv, ResetKnows, Resets!TypeOK
  <2> QED
    BY <1>6, <2>1, <2>2, <2>3
<1>9. ASSUME NEW k \in mailed, Resets!Valid(k)' PROVE Resets!Valid(k)
  <2>1. k \in Token
    BY DEF ResetsInv, ResetKnows, Resets!TypeOK
  <2>2. tokenKey'[k] = tokenKey[k] /\ tokenKey[k] # None
    BY <1>6, <1>9, <2>1 DEF Resets!Valid
  <2>3. tokenKey[k].user \in User
    BY <2>1, <2>2 DEF ResetsInv, ResetKnows, Resets!TypeOK
  <2> QED
    BY <1>5, <1>9, <2>1, <2>2, <2>3, BackOfficeAssumption DEF Resets!Valid, Resets!InForce
<1> QED
  BY <1>7, <1>8, <1>9

\* The keys of a user expire together.
LEMMA ResetsTick ==
  ASSUME part = "resets", ResetsInv, TokenInForceExists, part' = part, Resets!Tick
  PROVE  /\ ResetsInv' /\ TokenInForceExists'
         /\ \A t \in mailed : ~Resets!Valid(t) => ~Resets!Valid(t)'
<1>1. /\ now' = now + 1
      /\ tokenKey' = [t \in Token |-> Resets!Alive(tokenKey[t])]
      /\ userKey' = [u \in User |-> Resets!Alive(userKey[u])]
      /\ UNCHANGED <<mailed, password, deletedUser, pc, resetReq>>
  BY DEF Resets!Tick, Resets!db
<1>2. \A t \in Token : /\ tokenKey'[t] = tokenKey[t] \/ tokenKey'[t] = None
                       /\ tokenKey'[t] = Resets!Alive(tokenKey[t])
  BY <1>1 DEF Resets!Alive
<1>3. \A u \in User : /\ userKey'[u] = userKey[u] \/ userKey'[u] = None
                      /\ userKey'[u] = Resets!Alive(userKey[u])
  BY <1>1 DEF Resets!Alive
<1>4. Resets!TypeOK'
  BY <1>1, <1>2, <1>3 DEF ResetsInv, ResetKnows, Resets!TypeOK
<1>5. ResetsInv'
  <2>a. \A k \in Token : tokenKey'[k] # None => k \in mailed'
    BY <1>1, <1>2 DEF ResetsInv, ResetKnows
  <2> SUFFICES ASSUME NEW q \in Request PROVE ResetKnows(q)'
    BY <1>4, <2>a DEF ResetsInv, ResetKnows
  <2>1. /\ resetReq[q].old \in Token \cup {None}
        /\ pc[q] # "idle" => resetReq[q].user \in User
        /\ pc[q] \notin {"idle", "forgot.set"} => resetReq[q].token \in Token
    BY RequestIsTyped DEF Resets!Req
  <2>2. (pc[q] = "verify.del" =>
           Resets!InForce(resetReq[q].user) # resetReq[q].token)'
    BY <1>1, <1>3, <2>1, BackOfficeAssumption DEF ResetsInv, ResetKnows, Resets!InForce
  <2> QED
    BY <1>1, <1>2, <2>1, <2>2 DEF ResetsInv, ResetKnows
<1>6. TokenInForceExists'
  <2> SUFFICES ASSUME NEW v \in User, userKey'[v] # None
               PROVE  /\ tokenKey'[userKey'[v].token] # None
                      /\ tokenKey'[userKey'[v].token].user = v
                      /\ tokenKey'[userKey'[v].token].expires = userKey'[v].expires
    BY DEF TokenInForceExists, Resets!TokenInForceExists
  <2>1. userKey'[v] = userKey[v]
    BY <1>3
  <2>2. /\ userKey[v].token \in Token
        /\ tokenKey[userKey[v].token] # None
        /\ tokenKey[userKey[v].token].user = v
        /\ tokenKey[userKey[v].token].expires = userKey[v].expires
    BY <2>1, InForceIsMailed DEF UserKey
  <2>3. tokenKey'[userKey[v].token] = tokenKey[userKey[v].token]
    BY <1>2, <1>3, <2>1, <2>2 DEF Resets!Alive
  <2> QED
    BY <2>1, <2>2, <2>3
<1>7. ASSUME NEW k \in mailed, Resets!Valid(k)' PROVE Resets!Valid(k)
  <2>1. k \in Token
    BY DEF ResetsInv, ResetKnows, Resets!TypeOK
  <2>2. tokenKey'[k] = tokenKey[k] /\ tokenKey[k] # None
    BY <1>2, <1>7, <2>1 DEF Resets!Valid
  <2>3. tokenKey[k].user \in User
    BY <2>1, <2>2 DEF ResetsInv, ResetKnows, Resets!TypeOK
  <2> QED
    BY <1>3, <1>7, <2>1, <2>2, <2>3, BackOfficeAssumption DEF Resets!Valid, Resets!InForce
<1> QED
  BY <1>5, <1>6, <1>7

LEMMA ResetsNext ==
  ASSUME part = "resets", ResetsInv, TokenInForceExists, part' = part, Resets!Next
  PROVE  /\ ResetsInv' /\ TokenInForceExists'
         /\ \A t \in mailed : ~Resets!Valid(t) => ~Resets!Valid(t)'
<1>1. CASE UNCHANGED <<tokenKey, userKey, mailed>> /\ ResetsInv'
  BY <1>1 DEF TokenInForceExists, Resets!TokenInForceExists, Resets!Valid, Resets!InForce
<1>2. CASE Resets!DeleteUser
  <2>1. Resets!TypeOK'
    BY <1>2 DEF Resets!DeleteUser, Resets!keys, ResetsInv, ResetKnows, Resets!TypeOK
  <2> QED
    BY <1>1, <1>2, <2>1 DEF Resets!DeleteUser, Resets!keys, ResetsInv, ResetKnows, Resets!InForce
<1> QED
  BY <1>1, <1>2, ResetsReads, ResetsForgotSet, ResetsDelete, ResetsTick DEF Resets!Next

-----------------------------------------------------------------------------
(* Login counters.                                                         *)

\* A request owes a time to live exactly while it stands at its EXPIRE.
ThrottleInv == part = "throttle" => Throttle!TypeOK

LEMMA ThrottleInit == BackOfficeInit => ThrottleInv /\ CountersExpire
  BY DEF BackOfficeInit, Throttle!Init, ThrottleInv, Throttle!TypeOK, Throttle!Label,
         Throttle!Zero, CountersExpire, Throttle!CountersExpire

\* INCR of some counters by a request that owes nothing: those it creates are
\* the ones it owes a time to live, the others had theirs or are owed one.
LEMMA ThrottleIncr ==
  ASSUME part = "throttle", ThrottleInv, CountersExpire, part' = part,
         NEW r \in Request, NEW S \in SUBSET Throttle!Counter,
         pc[r] # "expire", Throttle!Incr(r, S), UNCHANGED <<now, loginLock, lost>>
  PROVE  ThrottleInv' /\ CountersExpire'
<1> DEFINE n == IF "user" \in S THEN count["user"].n + 1 ELSE 0
           first == {c \in S : count[c].n = 0}
<1>1. /\ Throttle!TypeOK /\ expiring[r] = {} /\ first \subseteq Throttle!Counter
      /\ \A c \in Throttle!Counter : count[c] \in [n : Nat, expires : Nat]
  BY DEF ThrottleInv, Throttle!TypeOK
<1>2. n \in Nat
  BY <1>1 DEF Throttle!Counter
<1>3. /\ count' = [c \in Throttle!Counter |->
                     IF c \in S THEN [count[c] EXCEPT !.n = count[c].n + 1] ELSE count[c]]
      /\ result' = [result EXCEPT ![r] = n]
      /\ expiring' = [expiring EXCEPT ![r] = first]
      /\ pc' = [pc EXCEPT ![r] = IF first # {} THEN "expire" ELSE Throttle!AfterIncr(n)]
  BY DEF Throttle!Incr, Throttle!IncrWith
<1>4. Throttle!AfterIncr(n) \in {"lock", "idle"}
  BY DEF Throttle!AfterIncr
<1> HIDE DEF n
<1>5. \A c \in Throttle!Counter :
        /\ count'[c] \in [n : Nat, expires : Nat]
        /\ count'[c].expires = count[c].expires
        /\ c \notin S => count'[c] = count[c]
  BY <1>1, <1>3
<1>6. Throttle!TypeOK'
  <2>1. count' \in [Throttle!Counter -> [n : Nat, expires : Nat]]
    BY <1>3, <1>5
  <2>2. /\ result' \in [Request -> Nat]
        /\ expiring' \in [Request -> SUBSET Throttle!Counter]
        /\ pc' \in [Request -> Throttle!Label]
    BY <1>1, <1>2, <1>3, <1>4 DEF Throttle!TypeOK, Throttle!Label
  <2>3. \A q \in Request : pc'[q] = "expire" <=> expiring'[q] # {}
    BY <1>1, <1>3, <1>4 DEF Throttle!TypeOK
  <2> QED
    BY <1>1, <2>1, <2>2, <2>3 DEF Throttle!TypeOK
<1>7. CountersExpire'
  <2> SUFFICES ASSUME NEW c \in Throttle!Counter,
                      count'[c].n > 0, count'[c].expires = 0, c \notin lost'
               PROVE  \E q \in Request : c \in expiring'[q]
    BY DEF CountersExpire, Throttle!CountersExpire
  <2>1. CASE c \in first
    BY <1>1, <1>3, <2>1 DEF Throttle!TypeOK
  <2>2. CASE c \notin first
    <3>1. count[c].n > 0 /\ count[c].expires = 0
      BY <1>1, <1>5, <2>2
    <3>2. PICK q \in Request : c \in expiring[q]
      BY <3>1 DEF CountersExpire, Throttle!CountersExpire
    <3> QED
      BY <1>1, <1>3, <3>2 DEF Throttle!TypeOK
  <2> QED
    BY <2>1, <2>2
<1> QED
  BY <1>6, <1>7 DEF ThrottleInv

\* A request that ends owing nothing, or whose debt is noted as lost.
LEMMA ThrottleForget ==
  ASSUME part = "throttle", ThrottleInv, CountersExpire, part' = part,
         NEW r \in Request, Throttle!Forget(r),
         now' = now, loginLock' \in Nat,
         \/ /\ expiring[r] = {} /\ lost' = lost /\ count' = count
         \/ /\ expiring[r] = {} /\ lost' = lost \ {"user", "email"}
            /\ count' = [count EXCEPT !["user"] = Throttle!Zero, !["email"] = Throttle!Zero]
         \/ lost' = lost \cup expiring[r] /\ count' = count
  PROVE  ThrottleInv' /\ CountersExpire'
<1>1. Throttle!TypeOK
  BY DEF ThrottleInv
<1>2. /\ count' \in [Throttle!Counter -> [n : Nat, expires : Nat]]
      /\ \A c \in Throttle!Counter :
           count'[c] = count[c] \/ (c \in {"user", "email"} /\ count'[c].n = 0)
      /\ \A c \in lost \ lost' : count'[c].n = 0
  BY <1>1 DEF Throttle!TypeOK, Throttle!Counter, Throttle!Zero
<1>3. Throttle!TypeOK'
  BY <1>1, <1>2 DEF Throttle!TypeOK, Throttle!Forget, Throttle!Label
<1>4. CountersExpire'
  <2> SUFFICES ASSUME NEW c \in Throttle!Counter,
                      count'[c].n > 0, count'[c].expires = 0, c \notin lost'
               PROVE  \E q \in Request : c \in expiring'[q]
    BY DEF CountersExpire, Throttle!CountersExpire
  <2>1. count'[c] = count[c] /\ c \notin lost
    BY <1>2
  <2>2. PICK q \in Request : c \in expiring[q]
    BY <2>1 DEF CountersExpire, Throttle!CountersExpire
  <2>3. q # r
    BY <2>2
  <2> QED
    BY <1>1, <2>2, <2>3 DEF Throttle!Forget, Throttle!TypeOK
<1> QED
  BY <1>3, <1>4 DEF ThrottleInv

LEMMA ThrottleExpire ==
  ASSUME part = "throttle", ThrottleInv, CountersExpire, part' = part,
         NEW r \in Request, Throttle!Expire(r)
  PROVE  ThrottleInv' /\ CountersExpire'
<1>1. PICK c \in expiring[r] :
        /\ count' = [count EXCEPT ![c].expires =
                       IF count[c].n = 0 THEN 0 ELSE now + Window]
        /\ expiring' = [expiring EXCEPT ![r] = expiring[r] \ {c}]
        /\ pc' = [pc EXCEPT ![r] = IF expiring'[r] # {} THEN "expire"
                                   ELSE Throttle!AfterIncr(result[r])]
        /\ UNCHANGED <<now, loginLock, result, lost>>
  BY DEF Throttle!Expire
<1>2. Throttle!TypeOK /\ c \in Throttle!Counter
  BY DEF ThrottleInv, Throttle!TypeOK
<1>3. /\ Window \in Nat \ {0} /\ now \in Nat
      /\ Throttle!AfterIncr(result[r]) \in {"lock", "idle"}
  BY <1>2, BackOfficeAssumption DEF Throttle!TypeOK, Throttle!AfterIncr
<1>4. count' \in [Throttle!Counter -> [n : Nat, expires : Nat]]
  BY <1>1, <1>2, <1>3 DEF Throttle!TypeOK
<1>5. \A d \in Throttle!Counter :
        IF d = c THEN count'[d].n = 0 \/ count'[d].expires > 0 ELSE count'[d] = count[d]
  <2>1. count[c] \in [n : Nat, expires : Nat] /\ count \in [Throttle!Counter -> [n : Nat, expires : Nat]]
    BY <1>2 DEF Throttle!TypeOK
  <2>2. /\ count'[c].n = count[c].n
        /\ count'[c].expires = IF count[c].n = 0 THEN 0 ELSE now + Window
        /\ \A d \in Throttle!Counter : d # c => count'[d] = count[d]
    BY <1>1, <1>2, <2>1
  <2>3. now + Window > 0
    BY <1>3
  <2> QED
    BY <2>2, <2>3
<1>6. \A q \in Request : expiring'[q] = IF q = r THEN expiring[q] \ {c} ELSE expiring[q]
  BY <1>1, <1>2 DEF Throttle!TypeOK
<1>7. Throttle!TypeOK'
  BY <1>1, <1>2, <1>3, <1>4, <1>6 DEF Throttle!TypeOK, Throttle!Label
<1>8. CountersExpire'
  <2> SUFFICES ASSUME NEW d \in Throttle!Counter,
                      count'[d].n > 0, count'[d].expires = 0, d \notin lost'
               PROVE  \E q \in Request : d \in expiring'[q]
    BY DEF CountersExpire, Throttle!CountersExpire
  <2>1. d # c /\ count'[d] = count[d]
    BY <1>4, <1>5
  <2> QED
    BY <1>1, <1>6, <2>1 DEF CountersExpire, Throttle!CountersExpire
<1> QED
  BY <1>7, <1>8 DEF ThrottleInv

LEMMA ThrottleNext ==
  ASSUME part = "throttle", ThrottleInv, CountersExpire, part' = part, Throttle!Next
  PROVE  ThrottleInv' /\ CountersExpire'
<1>1. Throttle!TypeOK
  BY DEF ThrottleInv
<1>2. CASE Throttle!Tick
  <2>1. \A c \in Throttle!Counter :
          count'[c] = count[c] \/ count'[c] = Throttle!Zero
    BY <1>2 DEF Throttle!Tick
  <2>2. Throttle!TypeOK'
    BY <1>1, <1>2, <2>1 DEF Throttle!Tick, Throttle!TypeOK, Throttle!Zero
  <2> QED
    BY <1>2, <2>1, <2>2
    DEF Throttle!Tick, Throttle!Zero, ThrottleInv, CountersExpire, Throttle!CountersExpire
<1>3. ASSUME NEW r \in Request,
             \/ Throttle!LockCheck(r) \/ Throttle!WrongPassword(r)
             \/ Throttle!RightPassword(r) \/ Throttle!UnknownUser(r)
             \/ Throttle!ForgotPassword(r) \/ Throttle!Expire(r)
             \/ Throttle!SetLock(r) \/ Throttle!Abort(r)
      PROVE  ThrottleInv' /\ CountersExpire'
  <2>1. CASE Throttle!LockCheck(r)
    <3>1. Throttle!TypeOK'
      BY <1>1, <2>1 DEF Throttle!LockCheck, Throttle!TypeOK, Throttle!Label
    <3> QED
      BY <2>1, <3>1 DEF Throttle!LockCheck, ThrottleInv, CountersExpire, Throttle!CountersExpire
  <2>2. CASE Throttle!WrongPassword(r)
    BY <2>2, ThrottleIncr DEF Throttle!WrongPassword, Throttle!Counter
  <2>3. CASE Throttle!UnknownUser(r)
    BY <2>3, ThrottleIncr DEF Throttle!UnknownUser, Throttle!Counter
  <2>4. CASE Throttle!ForgotPassword(r)
    BY <2>4, ThrottleIncr DEF Throttle!ForgotPassword, Throttle!Counter
  <2>5. CASE Throttle!RightPassword(r)
    BY <1>1, <2>5, ThrottleForget DEF Throttle!RightPassword, Throttle!TypeOK
  <2>6. CASE Throttle!SetLock(r)
    <3>1. Window \in Nat
      BY BackOfficeAssumption
    <3>2. now + Window \in Nat
      BY <1>1, <3>1 DEF Throttle!TypeOK
    <3>3. expiring[r] = {}
      BY <1>1, <2>6 DEF Throttle!SetLock, Throttle!TypeOK
    <3> QED
      BY <2>6, <3>2, <3>3, ThrottleForget DEF Throttle!SetLock
  <2>7. CASE Throttle!Abort(r)
    BY <1>1, <2>7, ThrottleForget DEF Throttle!Abort, Throttle!TypeOK
  <2> QED
    BY <1>3, <2>1, <2>2, <2>3, <2>4, <2>5, <2>6, <2>7, ThrottleExpire
<1> QED
  BY <1>2, <1>3 DEF Throttle!Next

-----------------------------------------------------------------------------
(* The week.                                                               *)

DayItem == [dayOfWeek : Day, openTime : Time, closeTime : Time, isOpen : BOOLEAN]
GoodItem == {h \in DayItem : h.isOpen => h.openTime < h.closeTime}
WeekRow == [item : GoodItem, by : Nat]

WeekTypes ==
  /\ pc \in [Request -> {"idle", "update", "ensure", "seed"}]
  /\ items \in [Request -> Seq(GoodItem)]
  /\ pending \in [Request -> [Day -> WeekRow \cup {None}]]
  /\ update \in [Request -> Nat] /\ updates \in 0 .. MaxUpdates
  /\ week \in [Day -> WeekRow \cup {None}]

\* What a request has written but not committed: an update has every day among
\* what it has written and what it has still to write, all under its number; a
\* reader holds only days that are still missing, as it has them locked.
HoursOf(r) ==
  /\ pc[r] \in {"idle", "seed"} => update[r] = 0 /\ pending[r] = Week!NoDays
  /\ pc[r] = "update" =>
       /\ update[r] \in 1 .. updates
       /\ \A d \in Day : IF pending[r][d] # None THEN pending[r][d].by = update[r]
                         ELSE \E n \in DOMAIN items[r] : items[r][n].dayOfWeek = d
  /\ pc[r] = "ensure" =>
       /\ update[r] = 0
       /\ \A d \in Day : pending[r][d] # None => pending[r][d].by = 0 /\ week[d] = None

\* The saved rows are those of one update.
WeekIsWhole ==
  /\ \A d \in Day : week[d] # None => week[d].by <= updates
  /\ \A d, e \in Day : week[d] # None /\ week[d].by > 0 =>
                         week[e] # None /\ week[e].by = week[d].by

WeekInv ==
  IF part = "hours"
    THEN /\ WeekTypes
         /\ \A r \in Request : HoursOf(r)
         /\ \A q, r \in Request : \A d \in Day :
              q # r /\ pending[q][d] # None => pending[r][d] = None
         /\ WeekIsWhole
    ELSE week = Week!NoDays /\ update = [r \in Request |-> 0] /\ updates = 0

\* The instance has the Cardinality of its own FiniteSets.
LEMMA SameCardinality == \A S : Week!Cardinality(S) = Cardinality(S)
  BY DEF Week!Cardinality, Cardinality

LEMMA NoRowIsARow == None \notin WeekRow
  BY BackOfficeAssumption DEF WeekRow, GoodItem, DayItem

LEMMA WeekInit == BackOfficeInit => WeekInv
<1> SUFFICES ASSUME BackOfficeInit PROVE WeekInv
  OBVIOUS
<1>1. /\ week = [d \in Day |-> None] /\ pc = [r \in Request |-> "idle"]
      /\ items = [r \in Request |-> <<>>]
      /\ pending = [r \in Request |-> Week!NoDays]
      /\ update = [r \in Request |-> 0] /\ updates = 0
      /\ MaxUpdates \in Nat
  BY BackOfficeAssumption DEF BackOfficeInit, Week!Init, Week!NoDays
<1>2. WeekTypes
  BY <1>1 DEF WeekTypes, Week!NoDays
<1> QED
  BY <1>1, <1>2 DEF WeekInv, HoursOf, WeekIsWhole, Week!NoDays

\* A day that is open by a good row accepts a rental from its first to its last
\* minute, and whole weeks are of one update.
LEMMA WholeWeekIsUsable ==
  ASSUME WeekTypes, WeekIsWhole PROVE WeekIsUsable
<1>1. ASSUME Week!Updated
      PROVE  (\A d \in Day : week[d] # None) /\ Cardinality({week[d].by : d \in Day}) = 1
  <2>1. PICK d \in Day : week[d] # None /\ week[d].by > 0
    BY <1>1 DEF Week!Updated
  <2>2. {week[e].by : e \in Day} = {week[d].by}
    BY <2>1 DEF WeekIsWhole
  <2> QED
    BY <2>1, <2>2, FS_Singleton DEF WeekIsWhole
<1>2. ASSUME NEW d \in Day, week[d] # None, week[d].item.isOpen
      PROVE  \E s, e \in Time : s < e /\ Week!RentalTimeWithin(<<d, s>>, <<d, e>>)
  <2>1. week[d] \in WeekRow
    BY <1>2 DEF WeekTypes
  <2> DEFINE s == week[d].item.openTime
             e == week[d].item.closeTime
  <2>2. s \in Time /\ e \in Time /\ s < e
    BY <1>2, <2>1 DEF WeekRow, GoodItem, DayItem
  <2>3. s \in Nat /\ e \in Nat
    BY <2>2, BackOfficeAssumption
  <2>4. Week!RentalTimeWithin(<<d, s>>, <<d, e>>)
    BY <1>2, <2>2, <2>3 DEF Week!RentalTimeWithin, Week!DateWithin
  <2> QED
    BY <2>2, <2>4
<1>3. Week!Updated => /\ \A d \in Day : week[d] # None
                      /\ Cardinality({week[d].by : d \in Day}) = 1
  BY <1>1
<1>4. \A d \in Day : week[d] # None /\ week[d].item.isOpen =>
        \E s, e \in Time : s < e /\ Week!RentalTimeWithin(<<d, s>>, <<d, e>>)
  BY <1>2
<1> QED
  BY <1>3, <1>4, SameCardinality, Zenon DEF WeekIsUsable, Week!WeekIsUsable

LEMMA WeekInvUsable == WeekInv => WeekIsUsable
<1>1. CASE part = "hours"
  BY <1>1, WholeWeekIsUsable DEF WeekInv
<1>2. CASE part # "hours" /\ WeekInv
  BY <1>2 DEF WeekInv, WeekIsUsable, Week!WeekIsUsable, Week!Updated, Week!NoDays
<1> QED
  BY <1>1, <1>2

LEMMA DefaultsAreGood == Week!Defaults \in Seq(GoodItem)
<1>1. PICK first \in Time, last \in Time : first < last /\ Time \subseteq first .. last
  BY BackOfficeAssumption
<1>2. Time \subseteq Nat /\ Cardinality(Day) \in Nat
      /\ Day = 0 .. Cardinality(Day) - 1
  BY BackOfficeAssumption
<1>3. Week!Least \in Time /\ \A t \in Time : Week!Least <= t
  <2>1. \E s \in Time : \A t \in Time : s <= t
    BY <1>1
  <2> QED
    BY <2>1, Zenon DEF Week!Least
<1>4. Week!Greatest \in Time /\ \A t \in Time : t <= Week!Greatest
  <2>1. \E s \in Time : \A t \in Time : t <= s
    BY <1>1
  <2> QED
    BY <2>1, Zenon DEF Week!Greatest
<1>5. Week!Least < Week!Greatest
  BY <1>1, <1>2, <1>3, <1>4
<1>6. ASSUME NEW n \in 1 .. Cardinality(Day)
      PROVE  Week!Hours(n - 1, Week!Least, Week!Greatest, n > 1) \in GoodItem
  <2>1. n - 1 \in Day
    BY <1>2
  <2> QED
    BY <1>3, <1>4, <1>5, <2>1 DEF Week!Hours, GoodItem, DayItem
<1>7. Week!Defaults \in [1 .. Cardinality(Day) -> GoodItem]
  BY <1>6, SameCardinality DEF Week!Defaults
<1> QED
  BY <1>2, <1>7, SeqDef

\* A list that passed validateBusinessHours has every day, and open days that
\* close after they open.
LEMMA ValidListIsGood ==
  ASSUME NEW list \in WeekLists, Week!Valid(list)
  PROVE  /\ list \in Seq(GoodItem)
         /\ \A d \in Day : \E n \in DOMAIN list : list[n].dayOfWeek = d
<1>1. list \in Seq(DayItem)
  BY BackOfficeAssumption DEF DayItem
<1>2. PICK k \in Nat : list \in [1 .. k -> DayItem]
  BY <1>1, SeqDef
<1>3. list \in [1 .. k -> GoodItem]
  BY <1>2 DEF Week!Valid, GoodItem
<1>4. list \in Seq(GoodItem)
  BY <1>2, <1>3, SeqDef
<1>5. \A d \in Day : d \in {list[n].dayOfWeek : n \in DOMAIN list}
  BY DEF Week!Valid
<1> QED
  BY <1>4, <1>5

LEMMA WeekBegin ==
  ASSUME part = "hours", WeekInv, part' = part, NEW r \in Request,
         NEW kind \in {"update", "ensure", "seed"}, NEW list \in Seq(GoodItem),
         NEW n \in 0 .. updates', updates' \in {updates, updates + 1},
         updates' <= MaxUpdates,
         Week!Begin(r, kind, list, n), UNCHANGED <<week, pending>>,
         IF kind = "update"
           THEN n > 0 /\ \A d \in Day : \E m \in DOMAIN list : list[m].dayOfWeek = d
           ELSE n = 0
  PROVE  WeekInv'
<1>1. WeekTypes /\ MaxUpdates \in Nat
  BY BackOfficeAssumption DEF WeekInv
<1>2. pc[r] = "idle" /\ pending[r] = Week!NoDays
  BY DEF Week!Begin, WeekInv, HoursOf
<1>3. WeekTypes'
  BY <1>1 DEF WeekTypes, Week!Begin
<1>4. WeekIsWhole'
  BY <1>1 DEF WeekInv, WeekIsWhole, WeekTypes, WeekRow
<1>5. ASSUME NEW q \in Request PROVE HoursOf(q)'
  <2>1. CASE q = r
    BY <1>1, <1>2, <2>1 DEF HoursOf, Week!Begin, Week!NoDays, WeekTypes
  <2>2. CASE q # r
    <3>1. pc'[q] = pc[q] /\ items'[q] = items[q] /\ update'[q] = update[q] /\ HoursOf(q)
      BY <1>1, <2>2 DEF Week!Begin, WeekTypes, WeekInv
    <3>2. 1 .. updates \subseteq 1 .. updates'
      BY <1>1 DEF WeekTypes
    <3> QED
      BY <3>1, <3>2 DEF HoursOf, Week!NoDays
  <2> QED
    BY <2>1, <2>2
<1> QED
  BY <1>3, <1>4, <1>5 DEF WeekInv

\* An upsert of an update or of a reader: the row was free.
LEMMA WeekUpsert ==
  ASSUME part = "hours", WeekInv, part' = part, NEW r \in Request,
         Week!Upsert(r) \/ Week!UpsertDefault(r)
  PROVE  WeekInv'
<1> DEFINE d == Week!Next1(r).dayOfWeek
<1>1. WeekTypes /\ HoursOf(r)
  BY DEF WeekInv
<1>2. /\ items[r] \in Seq(GoodItem) /\ items[r] # <<>>
      /\ pc[r] \in {"update", "ensure"}
      /\ Week!Free(r, d)
      /\ items' = [items EXCEPT ![r] = Tail(items[r])]
      /\ UNCHANGED <<week, pc, update, updates>>
  BY <1>1 DEF Week!Upsert, Week!UpsertDefault, Week!Advance, WeekTypes
<1>3. /\ Week!Next1(r) \in GoodItem /\ Week!Next1(r) = items[r][1]
      /\ Tail(items[r]) \in Seq(GoodItem)
      /\ \A m \in DOMAIN items[r] : m # 1 =>
           m - 1 \in DOMAIN Tail(items[r]) /\ Tail(items[r])[m - 1] = items[r][m]
  BY <1>2, HeadTailProperties DEF Week!Next1
<1>4. d \in Day
  BY <1>3 DEF GoodItem, DayItem
<1>5. PICK row \in WeekRow \cup {None} :
        /\ pending' = [pending EXCEPT ![r] = [pending[r] EXCEPT ![d] = row]]
        /\ pc[r] = "update" => row # None /\ row.by = update[r]
        /\ pc[r] = "ensure" /\ row # None => row.by = 0 /\ week[d] = None
  <2>1. CASE pc[r] = "update"
    <3>1. Week!Row(Week!Next1(r), update[r]) \in WeekRow
      BY <1>1, <1>3 DEF Week!Row, WeekRow, WeekTypes
    <3>2. Week!Upsert(r)
      BY <2>1 DEF Week!UpsertDefault
    <3> QED
      BY <2>1, <3>1, <3>2, NoRowIsARow DEF Week!Upsert, Week!Row
  <2>2. CASE pc[r] = "ensure"
    <3>1. Week!Row(Week!Next1(r), 0) \in WeekRow
      BY <1>3 DEF Week!Row, WeekRow
    <3>2. Week!UpsertDefault(r)
      BY <2>2 DEF Week!Upsert
    <3>3. pending[r][d] \in WeekRow \cup {None}
      BY <1>1, <1>4 DEF WeekTypes
    <3>4. pending[r][d] # None => pending[r][d].by = 0 /\ week[d] = None
      BY <1>1, <1>4, <2>2 DEF HoursOf
    <3> DEFINE row == IF week[d] = None THEN Week!Row(Week!Next1(r), 0) ELSE pending[r][d]
    <3>5. pending' = [pending EXCEPT ![r] = [pending[r] EXCEPT ![d] = row]]
      BY <3>2 DEF Week!UpsertDefault
    <3>6. row \in WeekRow \cup {None} /\ (row # None => row.by = 0 /\ week[d] = None)
      BY <3>1, <3>3, <3>4 DEF Week!Row
    <3> QED
      BY <2>2, <3>5, <3>6
  <2> QED
    BY <1>2, <2>1, <2>2
<1> HIDE DEF d
<1>6. \A q \in Request : \A e \in Day :
        pending'[q][e] = IF q = r /\ e = d THEN row ELSE pending[q][e]
  BY <1>1, <1>4, <1>5 DEF WeekTypes
<1>7. WeekTypes'
  <2>1. pending' \in [Request -> [Day -> WeekRow \cup {None}]]
    BY <1>1, <1>4, <1>5 DEF WeekTypes
  <2> QED
    BY <1>1, <1>2, <1>3, <2>1 DEF WeekTypes
<1>8. ASSUME NEW q \in Request PROVE HoursOf(q)'
  <2>1. CASE q # r
    <3>1. HoursOf(q) /\ pending'[q] = pending[q] /\ items'[q] = items[q]
      BY <1>1, <1>2, <1>5, <2>1 DEF WeekInv, WeekTypes
    <3> QED
      BY <1>2, <3>1, ZenonT(60) DEF HoursOf, Week!NoDays
  <2>2. CASE q = r /\ pc[r] = "update"
    <3>1. ASSUME NEW e \in Day
          PROVE  IF pending'[r][e] # None THEN pending'[r][e].by = update[r]
                 ELSE \E n \in DOMAIN items'[r] : items'[r][n].dayOfWeek = e
      <4>1. CASE e = d
        BY <1>5, <1>6, <2>2, <4>1
      <4>2. CASE e # d /\ pending[r][e] = None
        <5>1. PICK n \in DOMAIN items[r] : items[r][n].dayOfWeek = e
          BY <1>1, <2>2, <4>2 DEF HoursOf
        <5>2. n # 1
          BY <1>3, <4>2, <5>1 DEF d
        <5>3. items'[r] = Tail(items[r])
          BY <1>1, <1>2 DEF WeekTypes
        <5> QED
          BY <1>3, <1>6, <4>2, <5>1, <5>2, <5>3
      <4>3. CASE e # d /\ pending[r][e] # None
        BY <1>1, <1>6, <2>2, <4>3 DEF HoursOf
      <4> QED
        BY <4>1, <4>2, <4>3
    <3> QED
      BY <1>1, <1>2, <2>2, <3>1 DEF HoursOf
  <2>3. CASE q = r /\ pc[r] = "ensure"
    BY <1>1, <1>2, <1>5, <1>6, <2>3 DEF HoursOf
  <2> QED
    BY <1>2, <2>1, <2>2, <2>3
<1>9. ASSUME NEW p \in Request, NEW q \in Request, p # q, NEW e \in Day,
             pending'[p][e] # None
      PROVE  pending'[q][e] = None
  BY <1>2, <1>6, <1>9 DEF WeekInv, Week!Free
<1>10. WeekIsWhole'
  BY <1>2 DEF WeekInv, WeekIsWhole
<1> QED
  BY <1>7, <1>8, <1>9, <1>10 DEF WeekInv

\* The seeder adds a missing day; once a week was saved none is missing.
LEMMA WeekUpsertSeed ==
  ASSUME part = "hours", WeekInv, part' = part, NEW r \in Request, Week!UpsertSeed(r)
  PROVE  WeekInv'
<1> DEFINE d == Week!Next1(r).dayOfWeek
<1>1. WeekTypes /\ HoursOf(r) /\ WeekIsWhole
  BY DEF WeekInv
<1>2. /\ items[r] \in Seq(GoodItem) /\ items[r] # <<>> /\ pc[r] = "seed"
      /\ Week!Free(r, d)
      /\ week' = [week EXCEPT ![d] = IF week[d] = None THEN Week!Row(Week!Next1(r), 0)
                                     ELSE week[d]]
      /\ items' = [items EXCEPT ![r] = Tail(items[r])]
      /\ UNCHANGED <<pc, pending, update, updates>>
  BY <1>1 DEF Week!UpsertSeed, Week!Advance, WeekTypes
<1>3. Week!Next1(r) \in GoodItem /\ Tail(items[r]) \in Seq(GoodItem)
  BY <1>2, HeadTailProperties DEF Week!Next1
<1>4. d \in Day /\ Week!Row(Week!Next1(r), 0) \in WeekRow
  BY <1>3 DEF GoodItem, DayItem, Week!Row, WeekRow
<1>5. Week!Row(Week!Next1(r), 0).by = 0
  BY DEF Week!Row
<1> HIDE DEF d
<1>6. WeekTypes'
  BY <1>1, <1>2, <1>3, <1>4 DEF WeekTypes
<1>7. \A e \in Day : IF e = d /\ week[e] = None THEN week'[e] # None /\ week'[e].by = 0
                     ELSE week'[e] = week[e]
  BY <1>1, <1>2, <1>4, <1>5, NoRowIsARow DEF WeekTypes
<1>8. WeekIsWhole'
  BY <1>1, <1>2, <1>7 DEF WeekIsWhole, WeekTypes
<1>9. ASSUME NEW q \in Request PROVE HoursOf(q)'
  <2>1. CASE q = r
    BY <1>1, <1>2, <2>1 DEF HoursOf, Week!NoDays
  <2>2. CASE q # r
    <3>1. HoursOf(q) /\ items'[q] = items[q] /\ pending[q][d] = None
      BY <1>1, <1>2, <2>2 DEF WeekInv, WeekTypes, Week!Free
    <3> QED
      BY <1>2, <1>7, <3>1 DEF HoursOf, Week!NoDays
  <2> QED
    BY <2>1, <2>2
<1> QED
  BY <1>2, <1>6, <1>8, <1>9 DEF WeekInv

\* A transaction commits or is rolled back.
LEMMA WeekEnd ==
  ASSUME part = "hours", WeekInv, part' = part, NEW r \in Request,
         Week!Commit(r) \/ Week!Abort(r)
  PROVE  WeekInv'
<1>1. WeekTypes /\ HoursOf(r) /\ WeekIsWhole
  BY DEF WeekInv
<1>2. Week!End(r) /\ updates' = updates
  BY DEF Week!Commit, Week!Abort
<1>3. \/ week' = week
      \/ /\ items[r] = <<>>
         /\ week' = [d \in Day |-> IF pending[r][d] # None THEN pending[r][d] ELSE week[d]]
  BY DEF Week!Commit, Week!Abort
<1>4. /\ week' \in [Day -> WeekRow \cup {None}]
      /\ \A d \in Day : week'[d] = week[d] \/ (pending[r][d] # None /\ week'[d] = pending[r][d])
  <2>1. week \in [Day -> WeekRow \cup {None}] /\ pending[r] \in [Day -> WeekRow \cup {None}]
    BY <1>1 DEF WeekTypes
  <2>2. CASE week' = week
    BY <2>1, <2>2
  <2>3. CASE week' = [d \in Day |-> IF pending[r][d] # None THEN pending[r][d] ELSE week[d]]
    BY <2>1, <2>3
  <2> QED
    BY <1>3, <2>2, <2>3
<1>5. WeekTypes'
  BY <1>1, <1>2, <1>4 DEF WeekTypes, Week!End, Week!NoDays
<1>6. WeekIsWhole'
  <2>1. CASE week' = week
    BY <1>1, <1>2, <2>1 DEF WeekIsWhole
  <2>2. CASE week' # week /\ pc[r] = "update"
    <3>1. \A d \in Day : pending[r][d] # None
      BY <1>1, <1>3, <2>2, EmptySeq DEF HoursOf
    <3>2. \A d \in Day : week'[d] = pending[r][d] /\ week'[d].by = update[r]
      BY <1>1, <1>3, <2>2, <3>1 DEF HoursOf
    <3>3. update[r] <= updates
      BY <1>1, <2>2 DEF HoursOf, WeekTypes
    <3> QED
      BY <1>2, <3>1, <3>2, <3>3 DEF WeekIsWhole
  <2>3. CASE week' # week /\ pc[r] = "ensure"
    <3>1. \A d \in Day : week'[d] = week[d] \/
            (week[d] = None /\ week'[d] # None /\ week'[d].by = 0)
      BY <1>1, <1>4, <2>3 DEF HoursOf
    <3>2. updates \in Nat
      BY <1>1 DEF WeekTypes
    <3>3. \A d \in Day : week'[d] # None => week'[d].by <= updates
      BY <1>1, <3>1, <3>2 DEF WeekIsWhole
    <3>4. ASSUME NEW d \in Day, NEW e \in Day, week'[d] # None, week'[d].by > 0
          PROVE  week'[e] # None /\ week'[e].by = week'[d].by
      <4>1. week'[d] = week[d]
        BY <3>1, <3>4
      <4>2. week[e] # None /\ week[e].by = week[d].by
        BY <1>1, <3>4, <4>1 DEF WeekIsWhole
      <4> QED
        BY <3>1, <4>1, <4>2
    <3> QED
      BY <1>2, <3>3, <3>4 DEF WeekIsWhole
  <2>4. CASE week' # week /\ pc[r] \in {"idle", "seed"}
    <3>1. \A d \in Day : week'[d] = week[d]
      BY <1>1, <1>4, <2>4 DEF HoursOf, Week!NoDays
    <3>2. week' = week
      BY <1>1, <1>4, <3>1 DEF WeekTypes
    <3> QED
      BY <2>4, <3>2
  <2> QED
    BY <1>1, <2>1, <2>2, <2>3, <2>4 DEF WeekTypes
<1>7. ASSUME NEW q \in Request PROVE HoursOf(q)'
  <2>1. CASE q = r
    BY <1>1, <1>2, <2>1 DEF HoursOf, Week!End, Week!NoDays, WeekTypes
  <2>2. CASE q # r
    <3>1. /\ HoursOf(q) /\ pc'[q] = pc[q] /\ items'[q] = items[q]
          /\ update'[q] = update[q] /\ pending'[q] = pending[q]
      BY <1>1, <1>2, <2>2 DEF WeekInv, WeekTypes, Week!End
    <3>2. \A d \in Day : pending[q][d] # None => week'[d] = week[d]
      BY <1>4, <2>2 DEF WeekInv
    <3> QED
      BY <1>2, <3>1, <3>2 DEF HoursOf, Week!NoDays
  <2> QED
    BY <2>1, <2>2
<1>8. \A q \in Request : \A d \in Day :
        pending'[q][d] = IF q = r THEN None ELSE pending[q][d]
  BY <1>1, <1>2 DEF WeekTypes, Week!End, Week!NoDays
<1> QED
  BY <1>5, <1>6, <1>7, <1>8 DEF WeekInv

LEMMA WeekNext ==
  ASSUME part = "hours", WeekInv, part' = part, Week!Next
  PROVE  WeekInv'
<1>1. PICK r \in Request :
        \/ Week!UpdateBegin(r) \/ Week!EnsureBegin(r) \/ Week!SeedBegin(r)
        \/ Week!Upsert(r) \/ Week!UpsertDefault(r) \/ Week!UpsertSeed(r)
        \/ Week!Commit(r) \/ Week!Abort(r)
  BY DEF Week!Next
<1>2. updates \in 0 .. MaxUpdates /\ MaxUpdates \in Nat
  BY BackOfficeAssumption DEF WeekInv, WeekTypes
<1>3. ASSUME Week!UpdateBegin(r) PROVE WeekInv'
  <2>1. PICK list \in WeekLists :
          /\ Week!Valid(list) /\ updates < MaxUpdates
          /\ updates' = updates + 1
          /\ Week!Begin(r, "update", list, updates')
          /\ UNCHANGED <<week, pending>>
    BY <1>3 DEF Week!UpdateBegin
  <2>2. updates' \in 0 .. updates' /\ updates' > 0 /\ updates' <= MaxUpdates
    BY <1>2, <2>1
  <2> QED
    BY <2>1, <2>2, ValidListIsGood, WeekBegin
<1>4. ASSUME Week!EnsureBegin(r) \/ Week!SeedBegin(r) PROVE WeekInv'
  <2>1. 0 \in 0 .. updates' /\ updates' = updates /\ updates' <= MaxUpdates
    BY <1>2, <1>4 DEF Week!EnsureBegin, Week!SeedBegin
  <2> QED
    BY <1>4, <2>1, DefaultsAreGood, WeekBegin DEF Week!EnsureBegin, Week!SeedBegin
<1> QED
  BY <1>1, <1>3, <1>4, WeekUpsert, WeekUpsertSeed, WeekEnd

-----------------------------------------------------------------------------
(* Roles: where a request stands.                                          *)

Op == {"updateRole", "updateRolePermissions", "assign", "remove"}

\* What is left of the plans.
ToTell       == <<"tell">>
ToAsk        == <<"ask", "tell">>
ToCommit     == <<"commit", "ask", "tell">>
RoleInsert   == <<"insert", "commit", "ask", "tell">>
RoleSweep    == <<"sweep", "insert", "commit", "ask", "tell">>
RoleDelete   == <<"delete", "sweep", "insert", "commit", "ask", "tell">>
RoleTouch    == <<"touch", "delete", "sweep", "insert", "commit", "ask", "tell">>
PermTouch    == <<"touch", "commit", "ask", "tell">>
PermInsert   == <<"insert", "touch", "commit", "ask", "tell">>
PermSweep    == <<"sweep", "insert", "touch", "commit", "ask", "tell">>
PermDelete   == <<"delete", "sweep", "insert", "touch", "commit", "ask", "tell">>
UserCommit   == <<"commit", "tell">>
AssignInsert == <<"insert", "commit", "tell">>
AssignSweep  == <<"sweep", "insert", "commit", "tell">>
AssignDelete == <<"delete", "sweep", "insert", "commit", "tell">>
RemoveSweep  == <<"sweep", "commit", "tell">>
RemoveDelete == <<"delete", "sweep", "commit", "tell">>

TodoOf(op) ==
  IF op = "updateRole"
    THEN {<<>>, ToTell, ToAsk, ToCommit, RoleInsert, RoleSweep, RoleDelete, RoleTouch}
  ELSE IF op = "updateRolePermissions"
    THEN {<<>>, ToTell, ToAsk, ToCommit, PermTouch, PermInsert, PermSweep, PermDelete}
  ELSE IF op = "assign"
    THEN {<<>>, ToTell, UserCommit, AssignInsert, AssignSweep, AssignDelete}
  ELSE {<<>>, ToTell, UserCommit, RemoveSweep, RemoveDelete}

\* The statement a request is about to issue, and the one after it.
Stage(r) == IF todo[r] = <<>> THEN "none" ELSE Head(todo[r])
After(op, s) ==
  IF s = "touch" THEN IF op = "updateRole" THEN "delete" ELSE "commit"
  ELSE IF s = "delete" THEN "sweep"
  ELSE IF s = "sweep" THEN IF op = "remove" THEN "commit" ELSE "insert"
  ELSE IF s = "insert" THEN IF op = "updateRolePermissions" THEN "touch" ELSE "commit"
  ELSE IF s = "commit" THEN IF op \in {"assign", "remove"} THEN "tell" ELSE "ask"
  ELSE IF s = "ask" THEN "tell"
  ELSE "none"

LEMMA AtStage ==
  ASSUME NEW r \in Request, NEW s, s # "none" PROVE At(r, s) <=> Stage(r) = s
  BY DEF At, Stage

\* One statement after the other.
LEMMA PlanTails ==
  /\ ToTell # <<>> /\ Head(ToTell) = "tell" /\ Tail(ToTell) = <<>>
  /\ ToAsk # <<>> /\ Head(ToAsk) = "ask" /\ Tail(ToAsk) = ToTell
  /\ ToCommit # <<>> /\ Head(ToCommit) = "commit" /\ Tail(ToCommit) = ToAsk
  /\ RoleInsert # <<>> /\ Head(RoleInsert) = "insert" /\ Tail(RoleInsert) = ToCommit
  /\ RoleSweep # <<>> /\ Head(RoleSweep) = "sweep" /\ Tail(RoleSweep) = RoleInsert
  /\ RoleDelete # <<>> /\ Head(RoleDelete) = "delete" /\ Tail(RoleDelete) = RoleSweep
  /\ RoleTouch # <<>> /\ Head(RoleTouch) = "touch" /\ Tail(RoleTouch) = RoleDelete
  /\ PermTouch # <<>> /\ Head(PermTouch) = "touch" /\ Tail(PermTouch) = ToCommit
  /\ PermInsert # <<>> /\ Head(PermInsert) = "insert" /\ Tail(PermInsert) = PermTouch
  /\ PermSweep # <<>> /\ Head(PermSweep) = "sweep" /\ Tail(PermSweep) = PermInsert
  /\ PermDelete # <<>> /\ Head(PermDelete) = "delete" /\ Tail(PermDelete) = PermSweep
  /\ UserCommit # <<>> /\ Head(UserCommit) = "commit" /\ Tail(UserCommit) = ToTell
  /\ AssignInsert # <<>> /\ Head(AssignInsert) = "insert" /\ Tail(AssignInsert) = UserCommit
  /\ AssignSweep # <<>> /\ Head(AssignSweep) = "sweep" /\ Tail(AssignSweep) = AssignInsert
  /\ AssignDelete # <<>> /\ Head(AssignDelete) = "delete" /\ Tail(AssignDelete) = AssignSweep
  /\ RemoveSweep # <<>> /\ Head(RemoveSweep) = "sweep" /\ Tail(RemoveSweep) = UserCommit
  /\ RemoveDelete # <<>> /\ Head(RemoveDelete) = "delete" /\ Tail(RemoveDelete) = RemoveSweep
  BY DEF ToTell, ToAsk, ToCommit, RoleInsert, RoleSweep, RoleDelete,
         RoleTouch, PermTouch, PermInsert, PermSweep, PermDelete, UserCommit,
         AssignInsert, AssignSweep, AssignDelete, RemoveSweep, RemoveDelete

LEMMA PlanIsTodo == ASSUME NEW op \in Op PROVE Plan(op) \in TodoOf(op) \ {<<>>}
<1>1. Plan("updateRole") \in TodoOf("updateRole") \ {<<>>}
  BY PlanTails DEF Plan, TodoOf, RoleTouch
<1>2. Plan("updateRolePermissions") \in TodoOf("updateRolePermissions") \ {<<>>}
  BY PlanTails DEF Plan, TodoOf, PermDelete
<1>3. Plan("assign") \in TodoOf("assign") \ {<<>>}
  BY PlanTails DEF Plan, TodoOf, AssignDelete
<1>4. Plan("remove") \in TodoOf("remove") \ {<<>>}
  BY PlanTails DEF Plan, TodoOf, RemoveDelete
<1> QED
  BY <1>1, <1>2, <1>3, <1>4 DEF Op

LEMMA PlanHeads ==
  ASSUME NEW op \in Op
  PROVE  /\ Plan(op) \in Seq(Statement)
         /\ Head(Plan(op)) = IF op = "updateRole" THEN "touch" ELSE "delete"
<1>1. Plan("updateRole") \in Seq(Statement) /\ Head(Plan("updateRole")) = "touch"
  BY DEF Plan, Statement
<1>2. /\ Plan("updateRolePermissions") \in Seq(Statement)
      /\ Head(Plan("updateRolePermissions")) = "delete"
  BY DEF Plan, Statement
<1>3. Plan("assign") \in Seq(Statement) /\ Head(Plan("assign")) = "delete"
  BY DEF Plan, Statement
<1>4. Plan("remove") \in Seq(Statement) /\ Head(Plan("remove")) = "delete"
  BY DEF Plan, Statement
<1> QED
  BY <1>1, <1>2, <1>3, <1>4 DEF Op

LEMMA TodoTail ==
  ASSUME NEW op \in Op, NEW s \in TodoOf(op), s # <<>>
  PROVE  /\ Tail(s) \in TodoOf(op)
         /\ After(op, Head(s)) = IF Tail(s) = <<>> THEN "none" ELSE Head(Tail(s))
<1>1. CASE op = "updateRole"
  BY <1>1, PlanTails, ZenonT(60) DEF TodoOf, After
<1>2. CASE op = "updateRolePermissions"
  BY <1>2, PlanTails, ZenonT(60) DEF TodoOf, After
<1>3. CASE op = "assign"
  BY <1>3, PlanTails, ZenonT(60) DEF TodoOf, After
<1>4. CASE op = "remove"
  BY <1>4, PlanTails, ZenonT(60) DEF TodoOf, After
<1> QED
  BY <1>1, <1>2, <1>3, <1>4 DEF Op

-----------------------------------------------------------------------------
(* Roles: the rows of a role and the call that rewrites them.              *)

Protected(c) == c.op \in {"updateRole", "updateRolePermissions"}

\* A call that updated the role's row holds it until it ends.
Holds(r) ==
  \/ call[r].op = "updateRole" /\ Stage(r) \in {"delete", "sweep", "insert", "commit"}
  \/ call[r].op = "updateRolePermissions" /\ Stage(r) = "commit"

\* What updateRole deleted and inserted is all there is of the role.
Replacing(r) ==
  LET own == rows \cap Scope(call[r]) IN
  /\ Stage(r) = "sweep"  => seen[r] = own
  /\ Stage(r) = "insert" => deleted[r] = own
  /\ Stage(r) = "commit" => deleted[r] = own /\ inserted[r] = Wanted(call[r])

Progress(r) ==
  IF call[r] = NoCall
  THEN todo[r] = <<>> /\ seen[r] = {} /\ deleted[r] = {} /\ inserted[r] = {}
  ELSE /\ todo[r] \in TodoOf(call[r].op) \ {<<>>}
       /\ call[r].role \notin unborn
       /\ seen[r] \cup deleted[r] \subseteq Scope(call[r])
       /\ inserted[r] \subseteq Wanted(call[r])
       /\ inserted[r] # {} => call[r].role \in roles
       /\ Holds(r) => lock[call[r].role] = r /\ call[r].role \in roles
       /\ call[r].op = "updateRole" => Replacing(r)
       /\ Stage(r) \in {"ask", "tell"} =>
            seen[r] = {} /\ deleted[r] = {} /\ inserted[r] = {}

\* Rows are of roles there are; nobody knows of a role that was never created.
RowsHaveRoles ==
  /\ \A x \in rows : x[1] \in roles \/ (x[1] \in User /\ x[2] \in roles)
  /\ \A u \in User : \A g \in known[u] : g[1] \notin unborn

\* A client that is wrong about one role will hear of it: the event to its user
\* was sent or lost, is being sent, or a call on that role is about to look up
\* who holds it.
StaleAt(u, x) ==
  {g \in known[u] : g[1] = x} # {g \in PermissionsOf(u) : g[1] = x}
WillHear(u, x) ==
  \/ u \in notified \cup untold
  \/ \E r \in Request : Stage(r) = "tell" /\ u \in told[r]
  \/ \E r \in Request : Stage(r) = "ask" /\ call[r].role = x /\ <<u, x>> \in rows
StaleRolesWillBeHeard ==
  \A u \in User : \A x \in roles : StaleAt(u, x) => WillHear(u, x)

RolesInv ==
  /\ TypeOK
  /\ \A r \in Request : Progress(r)
  /\ RowsHaveRoles
  /\ StaleRolesWillBeHeard

Row == Grants \cup Members

LEMMA CallShape ==
  ASSUME NEW c \in Calls
  PROVE  /\ c.op \in Op /\ c.role \in Role
         /\ c # NoCall
         /\ c.op \in {"assign", "remove"} => c.list \subseteq User
         /\ Protected(c) => c.list \subseteq Perm
         /\ Wanted(c) \subseteq Scope(c) /\ Scope(c) \subseteq Row
<1>1. /\ c.op \in Op /\ c.role \in Role
      /\ c.op \in {"assign", "remove"} => c.list \subseteq User
      /\ Protected(c) => c.list \subseteq Perm
  BY DEF Calls, Op, Protected
<1>2. c # NoCall
  BY <1>1 DEF NoCall, Op
<1>3. ASSUME c.op = "assign" PROVE Wanted(c) \subseteq Scope(c) /\ Scope(c) \subseteq Row
  <2>1. Scope(c) = c.list \X Role /\ Wanted(c) = c.list \X {c.role}
    BY <1>3 DEF Scope, Wanted
  <2> QED
    BY <1>1, <1>3, <2>1 DEF Row, Members
<1>4. ASSUME c.op = "remove" PROVE Wanted(c) \subseteq Scope(c) /\ Scope(c) \subseteq Row
  <2>1. Scope(c) = c.list \X {c.role} /\ Wanted(c) = {}
    BY <1>4 DEF Scope, Wanted
  <2> QED
    BY <1>1, <1>4, <2>1 DEF Row, Members
<1>5. ASSUME Protected(c) PROVE Wanted(c) \subseteq Scope(c) /\ Scope(c) \subseteq Row
  <2>1. Scope(c) = {c.role} \X Perm /\ Wanted(c) = {c.role} \X c.list
    BY <1>5 DEF Scope, Wanted, Protected
  <2> QED
    BY <1>1, <1>5, <2>1 DEF Row, Grants
<1> QED
  BY <1>1, <1>2, <1>3, <1>4, <1>5 DEF Op, Protected

\* Calls on two roles, or on a role and on users, touch different rows.
LEMMA ScopesApart ==
  ASSUME NEW c \in Calls, NEW d \in Calls, Protected(d),
         Protected(c) => c.role # d.role
  PROVE  Scope(c) \cap Scope(d) = {}
<1>1. \A x \in Scope(d) : x[1] = d.role
  BY DEF Scope, Protected
<1>2. \A x \in Scope(c) : x[1] # d.role
  BY CallShape, RolesAssumption DEF Scope, Protected, Op
<1> QED
  BY <1>1, <1>2

\* A statement is done and the next one is due.
LEMMA AdvanceStage ==
  ASSUME RolesInv, NEW r \in Request, todo[r] # <<>>, Advance(r)
  PROVE  /\ todo' \in [Request -> Seq(Statement)]
         /\ call[r] \in Calls
         /\ todo'[r] \in TodoOf(call[r].op)
         /\ Stage(r)' = After(call[r].op, Stage(r))
         /\ \A q \in Others(r) : todo'[q] = todo[q]
<1>1. Progress(r) /\ todo \in [Request -> Seq(Statement)]
      /\ call[r] \in Calls \cup {NoCall}
  BY DEF RolesInv, TypeOK
<1>2. call[r] \in Calls /\ todo[r] \in TodoOf(call[r].op) /\ todo[r] \in Seq(Statement)
  BY <1>1 DEF Progress
<1>3. Tail(todo[r]) \in Seq(Statement)
  BY <1>2, HeadTailProperties
<1>4. todo' \in [Request -> Seq(Statement)] /\ todo'[r] = Tail(todo[r])
      /\ \A q \in Others(r) : todo'[q] = todo[q]
  BY <1>1, <1>3 DEF Advance, Others
<1>5. /\ Tail(todo[r]) \in TodoOf(call[r].op)
      /\ After(call[r].op, Head(todo[r])) =
           IF Tail(todo[r]) = <<>> THEN "none" ELSE Head(Tail(todo[r]))
  BY <1>2, CallShape, TodoTail
<1> QED
  BY <1>2, <1>4, <1>5 DEF Stage

\* What another call does leaves a call where it is.
LEMMA OthersStay ==
  ASSUME NEW q \in Request, Progress(q),
         call'[q] = call[q], todo'[q] = todo[q], seen'[q] = seen[q],
         deleted'[q] = deleted[q], inserted'[q] = inserted[q],
         \A x \in Role : lock[x] = q => lock'[x] = q,
         call[q] \in Calls \cup {NoCall},
         UNCHANGED db
  PROVE  Progress(q)'
<1>1. Stage(q)' = Stage(q)
  BY DEF Stage
<1>2. Holds(q)' = Holds(q)
  BY <1>1 DEF Holds
<1>3. call[q] # NoCall => call[q].role \in Role
  BY CallShape
<1>4. Replacing(q)' = Replacing(q)
  BY <1>1 DEF Replacing, db
<1> QED
  BY <1>1, <1>2, <1>3, <1>4 DEF Progress, db

LEMMA RolesInit == Init => RolesInv
<1> SUFFICES ASSUME Init PROVE RolesInv
  OBVIOUS
<1>1. TypeOK
  <2>1. <<>> \in Seq(Statement)
    OBVIOUS
  <2> QED
    BY <2>1, RolesAssumption DEF Init, TypeOK, Grants, Members
<1>2. \A r \in Request : Progress(r)
  BY DEF Init, Progress
<1>3. RowsHaveRoles
  BY RolesAssumption DEF Init, RowsHaveRoles
<1>4. StaleRolesWillBeHeard
  <2>1. ASSUME NEW u \in User, NEW x \in roles
        PROVE  {g \in known[u] : g[1] = x} = {g \in PermissionsOf(u) : g[1] = x}
    BY <2>1, RolesAssumption DEF Init, PermissionsOf, Grants
  <2> QED
    BY <2>1 DEF StaleRolesWillBeHeard, StaleAt
<1> QED
  BY <1>1, <1>2, <1>3, <1>4 DEF RolesInv

\* As long as roles and rows stay, who will hear stays, but for what the call
\* that moves was about to do.
LEMMA StillHeard ==
  ASSUME RolesInv, NEW r \in Request,
         UNCHANGED <<db, known>>,
         notified \subseteq notified', untold \subseteq untold',
         \A q \in Others(r) : /\ todo'[q] = todo[q] /\ told'[q] = told[q]
                              /\ call'[q] = call[q],
         \A u \in User : Stage(r) = "tell" /\ u \in told[r] =>
           u \in (notified \cup untold)',
         \A u \in User : Stage(r) = "ask" /\ <<u, call[r].role>> \in rows =>
           \/ u \in (notified \cup untold)'
           \/ Stage(r)' = "tell" /\ u \in told'[r]
  PROVE  StaleRolesWillBeHeard'
<1> SUFFICES ASSUME NEW u \in User, NEW x \in roles, StaleAt(u, x)
             PROVE  WillHear(u, x)'
  BY DEF StaleRolesWillBeHeard, StaleAt, PermissionsOf, db
<1>1. WillHear(u, x)
  BY DEF RolesInv, StaleRolesWillBeHeard
<1>2. \A q \in Others(r) : Stage(q)' = Stage(q)
  BY DEF Stage
<1>3. CASE u \in notified \cup untold
  BY <1>3 DEF WillHear
<1>4. ASSUME NEW q \in Request, Stage(q) = "tell", u \in told[q]
      PROVE  WillHear(u, x)'
  <2>1. CASE q = r
    BY <1>4, <2>1 DEF WillHear
  <2>2. CASE q \in Others(r)
    BY <1>2, <1>4, <2>2 DEF WillHear
  <2> QED
    BY <2>1, <2>2 DEF Others
<1>5. ASSUME NEW q \in Request, Stage(q) = "ask", call[q].role = x, <<u, x>> \in rows
      PROVE  WillHear(u, x)'
  <2>1. CASE q = r
    BY <1>5, <2>1 DEF WillHear
  <2>2. CASE q \in Others(r)
    BY <1>2, <1>5, <2>2 DEF WillHear, db
  <2> QED
    BY <2>1, <2>2 DEF Others
<1> QED
  BY <1>1, <1>3, <1>4, <1>5 DEF WillHear

\* A call reads or writes for itself, and the roles and rows stay.
LEMMA LocalStep ==
  ASSUME RolesInv, NEW r \in Request, TypeOK', Progress(r)',
         UNCHANGED <<db, known>>,
         notified \subseteq notified', untold \subseteq untold',
         \A x \in Role : \A q \in Others(r) : lock[x] = q => lock'[x] = q,
         \A q \in Others(r) :
           /\ todo'[q] = todo[q] /\ told'[q] = told[q] /\ call'[q] = call[q]
           /\ seen'[q] = seen[q] /\ deleted'[q] = deleted[q] /\ inserted'[q] = inserted[q],
         \A u \in User : Stage(r) = "tell" /\ u \in told[r] =>
           u \in (notified \cup untold)',
         \A u \in User : Stage(r) = "ask" /\ <<u, call[r].role>> \in rows =>
           \/ u \in (notified \cup untold)'
           \/ Stage(r)' = "tell" /\ u \in told'[r]
  PROVE  RolesInv'
<1>1. StaleRolesWillBeHeard'
  BY StillHeard
<1>2. ASSUME NEW q \in Others(r) PROVE Progress(q)'
  <2>1. q \in Request /\ Progress(q) /\ call[q] \in Calls \cup {NoCall}
    BY DEF Others, RolesInv, TypeOK
  <2> QED
    BY <2>1, OthersStay
<1>3. RowsHaveRoles'
  BY DEF RolesInv, RowsHaveRoles, db
<1> QED
  BY <1>1, <1>2, <1>3 DEF RolesInv, Others

\* Rolling back frees the rows the call held.
LEMMA RolesRollBack ==
  ASSUME RolesInv, NEW r \in Request, RollBack(r), Stage(r) \notin {"ask", "tell"}
  PROVE  RolesInv'
<1>1. TypeOK
  BY DEF RolesInv
<1>2. TypeOK'
  <2>1. <<>> \in Seq(Statement)
    OBVIOUS
  <2> QED
    BY <1>1, <2>1, RolesAssumption DEF TypeOK, RollBack, End, db, clients, Grants, Members
<1>3. Progress(r)'
  BY <1>1 DEF RollBack, End, TypeOK, Progress
<1>4. \A x \in Role : \A q \in Others(r) : lock[x] = q => lock'[x] = q
  BY <1>1 DEF RollBack, Others, TypeOK
<1>5. UNCHANGED <<db, known, notified, untold>> /\ told' = told
  BY DEF RollBack, clients
<1>6. \A q \in Others(r) :
        /\ todo'[q] = todo[q] /\ told'[q] = told[q] /\ call'[q] = call[q]
        /\ seen'[q] = seen[q] /\ deleted'[q] = deleted[q] /\ inserted'[q] = inserted[q]
  BY <1>1 DEF RollBack, End, TypeOK, Others
<1> QED
  BY <1>2, <1>3, <1>4, <1>5, <1>6, LocalStep

LEMMA RolesBegin ==
  ASSUME RolesInv, NEW r \in Request, NEW c \in Calls, Begin(r, c)
  PROVE  RolesInv'
<1>1. TypeOK /\ Progress(r) /\ RowsHaveRoles
  BY DEF RolesInv
<1>2. c.op \in Op /\ c.role \in Role /\ c # NoCall
  BY CallShape
<1>3. Plan(c.op) \in TodoOf(c.op) \ {<<>>}
  BY <1>2, PlanIsTodo
<1>4. /\ Plan(c.op) \in Seq(Statement)
      /\ Head(Plan(c.op)) = IF c.op = "updateRole" THEN "touch" ELSE "delete"
  BY <1>2, PlanHeads
<1>5. TypeOK'
  BY <1>1, <1>4 DEF TypeOK, Begin, db, tx, clients
<1>6. /\ call[r] = NoCall
      /\ call'[r] = c /\ todo'[r] = Plan(c.op) /\ UNCHANGED <<db, tx, told, clients>>
  BY <1>1 DEF Progress, Begin, TypeOK
<1>7. Stage(r)' = Head(Plan(c.op))
  BY <1>3, <1>6 DEF Stage
<1>8. seen'[r] \cup deleted'[r] \subseteq Scope(c) /\ inserted'[r] = {}
  BY <1>1, <1>6 DEF Progress, tx
<1>9. ~Holds(r)' /\ (c.op = "updateRole" => Replacing(r)')
  BY <1>4, <1>6, <1>7 DEF Holds, Replacing
<1>10. c.role \notin unborn
  BY <1>1 DEF TypeOK, Begin
<1>11. Progress(r)'
  BY <1>2, <1>3, <1>4, <1>7, <1>6, <1>8, <1>9, <1>10 DEF Progress, db
<1>12. Stage(r) = "none"
  BY DEF Begin, Stage
<1>13. \A q \in Others(r) : /\ todo'[q] = todo[q] /\ told'[q] = told[q] /\ call'[q] = call[q]
           /\ seen'[q] = seen[q] /\ deleted'[q] = deleted[q] /\ inserted'[q] = inserted[q]
  BY <1>1 DEF Begin, TypeOK, Others, tx
<1> QED
  BY <1>5, <1>6, <1>11, <1>12, <1>13, LocalStep DEF clients, tx

\* A call that issues a statement of its transaction, and where it was.
LEMMA InStage ==
  ASSUME RolesInv, NEW r \in Request, Stage(r) # "none"
  PROVE  /\ todo[r] # <<>> /\ call[r] \in Calls
         /\ Progress(r) /\ TypeOK
         /\ call[r] # NoCall /\ call[r].op \in Op /\ call[r].role \in Role
<1>1. todo[r] # <<>> /\ Progress(r) /\ TypeOK
  BY DEF Stage, RolesInv
<1>2. call[r] \in Calls
  BY <1>1 DEF Progress, TypeOK
<1> QED
  BY <1>1, <1>2, CallShape

LEMMA RolesTouch ==
  ASSUME RolesInv, NEW r \in Request, Touch(r) PROVE RolesInv'
<1>1. Stage(r) = "touch"
  BY AtStage DEF Touch
<1>2. /\ todo[r] # <<>> /\ call[r] \in Calls /\ Progress(r) /\ TypeOK
      /\ call[r] # NoCall /\ call[r].op \in Op /\ call[r].role \in Role
  BY <1>1, InStage
<1>3. CASE RollBack(r)
  BY <1>1, <1>3, RolesRollBack
<1>4. CASE call[r].role \in roles
  <2>1. /\ lock' = [lock EXCEPT ![call[r].role] = r] /\ lock[call[r].role] = NoOne
        /\ Advance(r)
        /\ UNCHANGED <<db, seen, deleted, inserted, call, told, clients>>
    BY <1>4 DEF Touch
  <2>2. /\ todo' \in [Request -> Seq(Statement)]
        /\ todo'[r] \in TodoOf(call[r].op)
        /\ Stage(r)' = After(call[r].op, "touch")
        /\ \A q \in Others(r) : todo'[q] = todo[q]
    BY <1>1, <1>2, <2>1, AdvanceStage
  <2>3. TypeOK'
    BY <1>2, <2>1, <2>2 DEF TypeOK, db, clients
  <2>4. Stage(r)' \in {"delete", "commit"}
        /\ (call[r].op = "updateRole" => Stage(r)' = "delete")
    BY <2>2 DEF After
  <2>5. todo'[r] # <<>>
    BY <2>4 DEF Stage
  <2>6. lock'[call[r].role] = r
    BY <1>2, <2>1 DEF TypeOK
  <2>7. Progress(r)'
    BY <1>2, <1>4, <2>1, <2>2, <2>4, <2>5, <2>6 DEF Progress, Replacing, db
  <2>8. \A x \in Role : \A q \in Others(r) : lock[x] = q => lock'[x] = q
    BY <1>2, <2>1, RolesAssumption DEF TypeOK, Others
  <2> QED
    BY <1>1, <2>1, <2>2, <2>3, <2>7, <2>8, LocalStep DEF clients
<1> QED
  BY <1>3, <1>4 DEF Touch

LEMMA RolesDelete ==
  ASSUME RolesInv, NEW r \in Request, Delete(r) PROVE RolesInv'
<1>1. Stage(r) = "delete"
  BY AtStage DEF Delete
<1>2. /\ todo[r] # <<>> /\ call[r] \in Calls /\ Progress(r) /\ TypeOK
      /\ call[r] # NoCall /\ call[r].op \in Op /\ call[r].role \in Role
  BY <1>1, InStage
<1>3. /\ seen' = [seen EXCEPT ![r] = rows \cap Scope(call[r])]
      /\ Advance(r)
      /\ UNCHANGED <<db, lock, deleted, inserted, call, told, clients>>
  BY DEF Delete
<1>4. /\ todo' \in [Request -> Seq(Statement)]
      /\ todo'[r] \in TodoOf(call[r].op)
      /\ Stage(r)' = "sweep"
      /\ \A q \in Others(r) : todo'[q] = todo[q]
  BY <1>1, <1>2, <1>3, AdvanceStage DEF After
<1>5. TypeOK'
  BY <1>2, <1>3, <1>4 DEF TypeOK, db, clients
<1>6. todo'[r] # <<>>
  BY <1>4 DEF Stage
<1>7. seen'[r] = rows \cap Scope(call[r])
  BY <1>2, <1>3 DEF TypeOK
<1>8. Replacing(r)' /\ (Holds(r)' => Holds(r))
  BY <1>1, <1>3, <1>4, <1>7 DEF Replacing, Holds, db
<1>9. Progress(r)'
  BY <1>2, <1>3, <1>4, <1>6, <1>7, <1>8 DEF Progress, db
<1>10. \A q \in Others(r) : seen'[q] = seen[q]
  BY <1>2, <1>3 DEF TypeOK, Others
<1> QED
  BY <1>1, <1>3, <1>4, <1>5, <1>9, <1>10, LocalStep DEF clients

LEMMA RolesSweep ==
  ASSUME RolesInv, NEW r \in Request, Sweep(r) PROVE RolesInv'
<1>1. Stage(r) = "sweep"
  BY AtStage DEF Sweep
<1>2. /\ todo[r] # <<>> /\ call[r] \in Calls /\ Progress(r) /\ TypeOK
      /\ call[r] # NoCall /\ call[r].op \in Op /\ call[r].role \in Role
  BY <1>1, InStage
<1>3. /\ deleted' = [deleted EXCEPT ![r] = seen[r]]
      /\ seen' = [seen EXCEPT ![r] = {}]
      /\ Advance(r)
      /\ UNCHANGED <<db, lock, inserted, call, told, clients>>
  BY DEF Sweep
<1>4. /\ todo' \in [Request -> Seq(Statement)]
      /\ todo'[r] \in TodoOf(call[r].op)
      /\ Stage(r)' = IF call[r].op = "remove" THEN "commit" ELSE "insert"
      /\ \A q \in Others(r) : todo'[q] = todo[q]
  BY <1>1, <1>2, <1>3, AdvanceStage DEF After
<1>5. TypeOK'
  BY <1>2, <1>3, <1>4 DEF TypeOK, db, clients
<1>6. todo'[r] # <<>>
  BY <1>4 DEF Stage
<1>7. deleted'[r] = seen[r] /\ seen'[r] = {}
  BY <1>2, <1>3 DEF TypeOK
<1>8. (call[r].op = "updateRole" => Replacing(r)') /\ (Holds(r)' => Holds(r))
  BY <1>1, <1>2, <1>3, <1>4, <1>7 DEF Progress, Replacing, Holds, db
<1>9. Progress(r)'
  BY <1>2, <1>3, <1>4, <1>6, <1>7, <1>8 DEF Progress, db
<1>10. \A q \in Others(r) : seen'[q] = seen[q] /\ deleted'[q] = deleted[q]
  BY <1>2, <1>3 DEF TypeOK, Others
<1> QED
  BY <1>1, <1>3, <1>4, <1>5, <1>9, <1>10, LocalStep DEF clients

LEMMA RolesInsert ==
  ASSUME RolesInv, NEW r \in Request, Insert(r) PROVE RolesInv'
<1> DEFINE missing == Wanted(call[r]) \ (rows \ deleted[r])
<1>1. Stage(r) = "insert"
  BY AtStage DEF Insert
<1>2. /\ todo[r] # <<>> /\ call[r] \in Calls /\ Progress(r) /\ TypeOK
      /\ call[r] # NoCall /\ call[r].op \in Op /\ call[r].role \in Role
  BY <1>1, InStage
<1>3. CASE RollBack(r)
  BY <1>1, <1>3, RolesRollBack
<1>4. CASE missing = {} \/ call[r].role \in roles
  <2>1. /\ inserted' = [inserted EXCEPT ![r] = missing]
        /\ Advance(r)
        /\ UNCHANGED <<db, lock, seen, deleted, call, told, clients>>
    BY <1>4 DEF Insert
  <2>2. /\ todo' \in [Request -> Seq(Statement)]
        /\ todo'[r] \in TodoOf(call[r].op)
        /\ Stage(r)' = IF call[r].op = "updateRolePermissions" THEN "touch" ELSE "commit"
        /\ \A q \in Others(r) : todo'[q] = todo[q]
    BY <1>1, <1>2, <2>1, AdvanceStage DEF After
  <2>3. Wanted(call[r]) \subseteq Scope(call[r]) /\ Scope(call[r]) \subseteq Row
    BY <1>2, CallShape
  <2>4. TypeOK'
    BY <1>2, <2>1, <2>2, <2>3 DEF TypeOK, db, clients, Row
  <2>5. todo'[r] # <<>>
    BY <2>2 DEF Stage
  <2>6. inserted'[r] = missing
    BY <1>2, <2>1 DEF TypeOK
  <2>7. call[r].op = "updateRole" => missing = Wanted(call[r])
    BY <1>1, <1>2, <2>3 DEF Progress, Replacing
  <2>8. (call[r].op = "updateRole" => Replacing(r)') /\ (Holds(r)' => Holds(r))
    BY <1>1, <1>2, <2>1, <2>2, <2>6, <2>7 DEF Progress, Replacing, Holds, db
  <2>9. inserted'[r] # {} => call[r].role \in roles
    BY <1>4, <2>6
  <2>10. inserted'[r] \subseteq Wanted(call[r])
    BY <2>6
  <2> HIDE DEF missing
  <2>11. Progress(r)'
    BY <1>2, <2>1, <2>2, <2>5, <2>8, <2>9, <2>10 DEF Progress, db
  <2>12. \A q \in Others(r) : inserted'[q] = inserted[q]
    BY <1>2, <2>1 DEF TypeOK, Others
  <2> QED
    BY <1>1, <2>1, <2>2, <2>4, <2>11, <2>12, LocalStep DEF clients
<1> QED
  BY <1>3, <1>4 DEF Insert

LEMMA RolesAsk ==
  ASSUME RolesInv, NEW r \in Request, Ask(r) PROVE RolesInv'
<1>1. Stage(r) = "ask"
  BY AtStage DEF Ask
<1>2. /\ todo[r] # <<>> /\ call[r] \in Calls /\ Progress(r) /\ TypeOK
      /\ call[r] # NoCall /\ call[r].op \in Op /\ call[r].role \in Role
  BY <1>1, InStage
<1>3. /\ told' = [told EXCEPT ![r] = Holders(call[r].role)]
      /\ Advance(r)
      /\ UNCHANGED <<db, tx, call, clients>>
  BY DEF Ask
<1>4. /\ todo' \in [Request -> Seq(Statement)]
      /\ todo'[r] \in TodoOf(call[r].op)
      /\ Stage(r)' = "tell"
      /\ \A q \in Others(r) : todo'[q] = todo[q]
  BY <1>1, <1>2, <1>3, AdvanceStage DEF After
<1>5. TypeOK'
  BY <1>2, <1>3, <1>4 DEF TypeOK, db, tx, clients, Holders
<1>6. todo'[r] # <<>> /\ ~Holds(r)' /\ Replacing(r)'
  BY <1>3, <1>4 DEF Stage, Holds, Replacing
<1>7. Progress(r)'
  BY <1>1, <1>2, <1>3, <1>4, <1>6 DEF Progress, db, tx
<1>8. told'[r] = Holders(call[r].role) /\ \A q \in Others(r) : told'[q] = told[q]
  BY <1>2, <1>3 DEF TypeOK, Others
<1>9. \A u \in User : <<u, call[r].role>> \in rows => u \in told'[r]
  BY <1>8 DEF Holders
<1> QED
  BY <1>1, <1>3, <1>4, <1>5, <1>7, <1>8, <1>9, LocalStep DEF clients, tx

\* A call ends after its commit: it told its users, or failed before it did.
LEMMA RolesTellOrLose ==
  ASSUME RolesInv, NEW r \in Request,
         Tell(r) \/ (Fail(r) /\ Stage(r) \in {"ask", "tell"})
  PROVE  RolesInv'
<1>1. Stage(r) \in {"ask", "tell"}
  BY AtStage DEF Tell
<1>2. /\ todo[r] # <<>> /\ call[r] \in Calls /\ Progress(r) /\ TypeOK
      /\ call[r] # NoCall /\ call[r].op \in Op /\ call[r].role \in Role
  BY <1>1, InStage
<1>3. At(r, "ask") <=> Stage(r) = "ask"
  BY AtStage
<1>4. At(r, "tell") <=> Stage(r) = "tell"
  BY AtStage
<1>5. /\ End(r) /\ told' = [told EXCEPT ![r] = {}]
      /\ UNCHANGED <<db, tx, known>>
      /\ \/ Stage(r) = "tell" /\ notified' = notified \cup told[r] /\ untold' = untold
         \/ notified' = notified /\ untold' = untold \cup Audience(r)
  BY <1>1, <1>3, <1>4 DEF Tell, Fail
<1>6. Audience(r) = IF Stage(r) = "ask" THEN Holders(call[r].role) ELSE told[r]
  BY <1>1, <1>3, <1>4 DEF Audience
<1>7. Audience(r) \subseteq User /\ told[r] \subseteq User
  BY <1>2, <1>6 DEF TypeOK, Holders
<1>8. TypeOK'
  <2>1. <<>> \in Seq(Statement)
    OBVIOUS
  <2> QED
    BY <1>2, <1>5, <1>7, <2>1 DEF TypeOK, End, db, tx
<1>9. /\ call'[r] = NoCall /\ todo'[r] = <<>>
      /\ \A q \in Others(r) : todo'[q] = todo[q] /\ told'[q] = told[q] /\ call'[q] = call[q]
  BY <1>2, <1>5 DEF End, TypeOK, Others
<1>10. seen[r] = {} /\ deleted[r] = {} /\ inserted[r] = {}
  BY <1>1, <1>2 DEF Progress
<1>11. Progress(r)'
  BY <1>5, <1>9, <1>10 DEF Progress, tx
<1>12. \A u \in User : Stage(r) = "tell" /\ u \in told[r] => u \in (notified \cup untold)'
  BY <1>5, <1>6
<1>13. \A u \in User : Stage(r) = "ask" /\ <<u, call[r].role>> \in rows =>
         u \in (notified \cup untold)'
  BY <1>5, <1>6 DEF Holders
<1> QED
  BY <1>5, <1>8, <1>9, <1>11, <1>12, <1>13, LocalStep DEF tx

LEMMA RolesFail ==
  ASSUME RolesInv, NEW r \in Request, Fail(r) PROVE RolesInv'
<1>1. CASE Stage(r) \in {"ask", "tell"}
  BY <1>1, RolesTellOrLose
<1>2. CASE Stage(r) \notin {"ask", "tell"}
  <2>1. RollBack(r)
    BY <1>2, AtStage DEF Fail
  <2> QED
    BY <1>2, <2>1, RolesRollBack
<1> QED
  BY <1>1, <1>2

\* What a commit does, where the transaction stood.
LEMMA CommitEffect ==
  ASSUME RolesInv, NEW r \in Request, Commit(r)
  PROVE  /\ Stage(r) = "commit" /\ call[r] \in Calls /\ call[r].op \in Op
         /\ deleted[r] \subseteq Scope(call[r])
         /\ inserted[r] \subseteq Wanted(call[r]) /\ Wanted(call[r]) \subseteq Scope(call[r])
         /\ rows' = (rows \ deleted[r]) \cup inserted[r]
         /\ Protected(call[r]) => call[r].role \in roles /\ lock[call[r].role] = r
         /\ \A x \in Role : \A q \in Others(r) : lock[x] = q => lock'[x] = q
         /\ \A q \in Others(r) :
              /\ todo'[q] = todo[q] /\ told'[q] = told[q] /\ call'[q] = call[q]
              /\ seen'[q] = seen[q] \ deleted[r] /\ deleted'[q] = deleted[q]
              /\ inserted'[q] = inserted[q]
         /\ seen'[r] = {} /\ deleted'[r] = {} /\ inserted'[r] = {}
         /\ UNCHANGED <<roles, unborn, known, notified>>
<1>1. Stage(r) = "commit"
  BY AtStage DEF Commit
<1>2. /\ todo[r] # <<>> /\ call[r] \in Calls /\ Progress(r) /\ TypeOK
      /\ call[r] # NoCall /\ call[r].op \in Op /\ call[r].role \in Role
  BY <1>1, InStage
<1>3. Wanted(call[r]) \subseteq Scope(call[r])
  BY <1>2, CallShape
<1>4. Protected(call[r]) => call[r].role \in roles /\ lock[call[r].role] = r
  BY <1>1, <1>2 DEF Progress, Holds, Protected
<1>5. \A x \in Role : \A q \in Others(r) : lock[x] = q => lock'[x] = q
  BY <1>2 DEF Commit, Others, TypeOK
<1>6. \A q \in Others(r) :
              /\ todo'[q] = todo[q] /\ told'[q] = told[q] /\ call'[q] = call[q]
              /\ seen'[q] = seen[q] \ deleted[r] /\ deleted'[q] = deleted[q]
              /\ inserted'[q] = inserted[q]
  BY <1>2 DEF Commit, Advance, End, Forget, TypeOK, Others
<1>7. seen'[r] = {} /\ deleted'[r] = {} /\ inserted'[r] = {}
  BY <1>2 DEF Commit, Forget, TypeOK
<1>8. deleted[r] \subseteq Scope(call[r]) /\ inserted[r] \subseteq Wanted(call[r])
  BY <1>2 DEF Progress
<1>9. /\ rows' = (rows \ deleted[r]) \cup inserted[r]
      /\ UNCHANGED <<roles, unborn, known, notified>>
  BY DEF Commit
<1> QED
  BY <1>1, <1>2, <1>3, <1>4, <1>5, <1>6, <1>7, <1>8, <1>9

\* A commit leaves the rows of the calls that hold another role.
LEMMA CommitApart ==
  ASSUME RolesInv, NEW r \in Request, Commit(r), NEW q \in Others(r)
  PROVE  Progress(q)'
<1>1. q \in Request /\ q # r /\ Progress(q) /\ call[q] \in Calls \cup {NoCall} /\ TypeOK
  BY DEF Others, RolesInv, TypeOK
<1>2. Stage(q)' = Stage(q) /\ (Holds(q)' <=> Holds(q))
  BY CommitEffect DEF Stage, Holds
<1>3. /\ call'[q] = call[q] /\ todo'[q] = todo[q] /\ seen'[q] = seen[q] \ deleted[r]
      /\ deleted'[q] = deleted[q] /\ inserted'[q] = inserted[q]
      /\ UNCHANGED <<roles, unborn>>
      /\ \A x \in Role : lock[x] = q => lock'[x] = q
  BY CommitEffect
<1>4. CASE call[q] = NoCall
  BY <1>1, <1>3, <1>4 DEF Progress
<1>5. CASE call[q] \in Calls
  <2>1. call[q] # NoCall /\ call[q].role \in Role
    BY <1>5, CallShape
  <2>2. call[q].op = "updateRole" => Replacing(q)'
    <3> SUFFICES ASSUME call[q].op = "updateRole", Stage(q) \in {"sweep", "insert", "commit"}
                 PROVE  Replacing(q)'
      BY <1>2 DEF Replacing
    <3>1. lock[call[q].role] = q /\ Protected(call[q])
      BY <1>1, <2>1 DEF Progress, Holds, Protected
    <3>2. Protected(call[r]) => call[r].role # call[q].role
      BY <1>1, <3>1, CommitEffect
    <3>3. Scope(call[r]) \cap Scope(call[q]) = {}
      BY <1>5, <3>1, <3>2, CommitEffect, ScopesApart
    <3>4. rows' \cap Scope(call[q]) = rows \cap Scope(call[q])
      BY <3>3, CommitEffect
    <3>5. seen[q] \subseteq Scope(call[q]) /\ Replacing(q)
      BY <1>1, <2>1 DEF Progress
    <3>6. seen'[q] = seen[q]
      BY <1>3, <3>3, <3>5, CommitEffect
    <3> QED
      BY <1>2, <1>3, <3>4, <3>5, <3>6 DEF Replacing
  <2>3. Holds(q)' => lock'[call[q].role] = q /\ call[q].role \in roles
    BY <1>1, <1>2, <1>3, <2>1 DEF Progress
  <2> QED
    BY <1>1, <1>2, <1>3, <2>1, <2>2, <2>3 DEF Progress
<1> QED
  BY <1>1, <1>4, <1>5

\* A user's grants of a role depend on the rows of the two.
LEMMA GrantsStay ==
  ASSUME NEW u \in User, NEW x \in Role,
         \A p \in Perm : <<x, p>> \in rows' <=> <<x, p>> \in rows,
         <<u, x>> \in rows' <=> <<u, x>> \in rows
  PROVE  {g \in PermissionsOf(u)' : g[1] = x} = {g \in PermissionsOf(u) : g[1] = x}
<1>1. \A g \in Grants : g[1] = x => (g \in rows' <=> g \in rows)
  BY DEF Grants
<1> QED
  BY <1>1 DEF PermissionsOf

\* Who was about to hear of a role when a call commits still is.
LEMMA CommitHeard ==
  ASSUME RolesInv, NEW r \in Request, Commit(r),
         NEW u \in User, NEW x \in Role, WillHear(u, x),
         <<u, x>> \in rows => <<u, x>> \in rows'
  PROVE  WillHear(u, x)'
<1>1. \A q \in Others(r) : /\ Stage(q)' = Stage(q)
                           /\ told'[q] = told[q] /\ call'[q] = call[q]
  BY CommitEffect DEF Stage
<1>2. Stage(r) = "commit" /\ notified' = notified
  BY CommitEffect
<1>3. untold \subseteq untold'
  BY DEF Commit
<1>4. \A q \in Request : q = r \/ q \in Others(r)
  BY DEF Others
<1> QED
  BY <1>1, <1>2, <1>3, <1>4 DEF WillHear

\* Once committed, the users whose permissions changed are to be told.
LEMMA CommitTells ==
  ASSUME RolesInv, NEW r \in Request, Commit(r)
  PROVE  /\ TypeOK' /\ Progress(r)'
         /\ call[r].role \in roles /\ Protected(call[r]) =>
              Stage(r)' = "ask" /\ call'[r] = call[r]
         /\ ~Protected(call[r]) => call[r].list \subseteq (notified \cup untold)' \/
              (Stage(r)' = "tell" /\ told'[r] = call[r].list)
<1> DEFINE c == call[r]
<1>1. /\ todo[r] # <<>> /\ Progress(r) /\ TypeOK /\ Stage(r) = "commit"
      /\ c \in Calls /\ c # NoCall /\ c.op \in Op /\ c.role \in Role
      /\ c.op \in {"assign", "remove"} => c.list \subseteq User
  BY CommitEffect, InStage, CallShape
<1>2. /\ rows' \subseteq Row
      /\ lock' \in [Role -> Request \cup {NoOne}]
      /\ seen' \in [Request -> SUBSET Row]
      /\ deleted' \in [Request -> SUBSET Row]
      /\ inserted' \in [Request -> SUBSET Row]
      /\ UNCHANGED <<roles, unborn, known, notified>>
  BY <1>1 DEF Commit, Forget, TypeOK, Row
<1>3. CASE c.role \in roles
  <2>1. /\ Advance(r)
        /\ told' = [told EXCEPT ![r] = IF c.op \in {"assign", "remove"} THEN c.list ELSE @]
        /\ UNCHANGED <<call, untold>>
    BY <1>3 DEF Commit
  <2>2. /\ todo' \in [Request -> Seq(Statement)]
        /\ todo'[r] \in TodoOf(call[r].op)
        /\ Stage(r)' = IF c.op \in {"assign", "remove"} THEN "tell" ELSE "ask"
    BY <1>1, <2>1, AdvanceStage DEF After
  <2>3. told' \in [Request -> SUBSET User]
        /\ (c.op \in {"assign", "remove"} => told'[r] = c.list)
    BY <1>1, <2>1 DEF TypeOK
  <2>4. TypeOK'
    BY <1>1, <1>2, <2>1, <2>2, <2>3 DEF TypeOK, Row
  <2>5. todo'[r] # <<>> /\ ~Holds(r)' /\ Replacing(r)'
    BY <2>1, <2>2 DEF Stage, Holds, Replacing
  <2>6. Progress(r)'
    BY <1>1, <1>2, <2>1, <2>2, <2>5, CommitEffect DEF Progress
  <2> QED
    BY <1>1, <2>1, <2>2, <2>3, <2>4, <2>6 DEF Protected, Op
<1>4. CASE c.role \notin roles
  <2>1. End(r) /\ untold' = untold \cup (c.list \cap User) /\ told' = told
    BY <1>4 DEF Commit
  <2>2. <<>> \in Seq(Statement)
    OBVIOUS
  <2>3. TypeOK'
    BY <1>1, <1>2, <2>1, <2>2 DEF TypeOK, Row, End
  <2>4. Progress(r)'
    BY <1>1, <2>1, CommitEffect DEF Progress, End, TypeOK
  <2> QED
    BY <1>1, <1>4, <2>1, <2>3, <2>4 DEF Protected, Op
<1> QED
  BY <1>3, <1>4

LEMMA RolesCommit ==
  ASSUME RolesInv, NEW r \in Request, Commit(r) PROVE RolesInv'
<1> DEFINE c == call[r]
<1>1. /\ Stage(r) = "commit" /\ c \in Calls /\ c.op \in Op /\ c.role \in Role
      /\ c.op \in {"assign", "remove"} => c.list \subseteq User
      /\ Protected(c) => c.list \subseteq Perm
      /\ TypeOK /\ RowsHaveRoles /\ Progress(r) /\ c # NoCall
  BY CommitEffect, CallShape DEF RolesInv
<1>2. /\ deleted[r] \subseteq Scope(c) /\ inserted[r] \subseteq Scope(c)
      /\ inserted[r] \subseteq Wanted(c)
      /\ rows' = (rows \ deleted[r]) \cup inserted[r]
      /\ UNCHANGED <<roles, unborn, known, notified>>
  BY CommitEffect
<1>3. RowsHaveRoles'
  <2>1. inserted[r] # {} => c.role \in roles
    BY <1>1 DEF Progress
  <2>2. \A x \in inserted[r] : x[1] = c.role \/ (x[1] \in User /\ x[2] = c.role)
    BY <1>1, <1>2 DEF Wanted, Op, Protected
  <2> QED
    BY <1>1, <1>2, <2>1, <2>2 DEF RowsHaveRoles
<1>4. StaleRolesWillBeHeard'
  <2> SUFFICES ASSUME NEW u \in User, NEW x \in roles, StaleAt(u, x)'
               PROVE  WillHear(u, x)'
    BY <1>2 DEF StaleRolesWillBeHeard
  <2>1. x \in Role /\ u \notin Role /\ x \notin User /\ u # c.role
    BY <1>1, RolesAssumption DEF TypeOK
  <2>2. StaleAt(u, x) => WillHear(u, x)
    BY DEF RolesInv, StaleRolesWillBeHeard
  <2>3. CASE Protected(c)
    <3>1. Scope(c) = {c.role} \X Perm
      BY <2>3 DEF Scope, Protected
    <3>2. <<u, x>> \in rows' <=> <<u, x>> \in rows
      BY <1>2, <2>1, <3>1
    <3>3. CASE x # c.role
      <4>1. \A p \in Perm : <<x, p>> \in rows' <=> <<x, p>> \in rows
        BY <1>2, <3>1, <3>3
      <4>2. StaleAt(u, x)
        BY <1>2, <2>1, <3>2, <4>1, GrantsStay DEF StaleAt
      <4> QED
        BY <2>1, <2>2, <3>2, <4>2, CommitHeard
    <3>4. CASE x = c.role /\ <<u, x>> \in rows
      <4>1. Stage(r)' = "ask" /\ call'[r] = call[r]
        BY <2>3, <3>4, CommitTells
      <4> QED
        BY <3>2, <3>4, <4>1 DEF WillHear
    <3>5. CASE <<u, x>> \notin rows
      <4>1. {g \in PermissionsOf(u) : g[1] = x} = {} /\ {g \in PermissionsOf(u)' : g[1] = x} = {}
        BY <3>2, <3>5 DEF PermissionsOf
      <4>2. StaleAt(u, x)
        BY <1>2, <4>1 DEF StaleAt
      <4> QED
        BY <2>1, <2>2, <3>2, <4>2, CommitHeard
    <3> QED
      BY <3>3, <3>4, <3>5
  <2>4. CASE ~Protected(c)
    <3>1. c.list \subseteq User /\ Scope(c) \subseteq c.list \X Role
      BY <1>1, <2>4 DEF Scope, Protected, Op
    <3>2. CASE u \in c.list
      BY <2>4, <3>2, CommitTells DEF WillHear
    <3>3. CASE u \notin c.list
      <4>1. <<u, x>> \in rows' <=> <<u, x>> \in rows
        BY <1>2, <3>1, <3>3
      <4>2. \A p \in Perm : <<x, p>> \in rows' <=> <<x, p>> \in rows
        BY <1>2, <2>1, <3>1
      <4>3. StaleAt(u, x)
        BY <1>2, <2>1, <4>1, <4>2, GrantsStay DEF StaleAt
      <4> QED
        BY <2>1, <2>2, <4>1, <4>3, CommitHeard
    <3> QED
      BY <3>2, <3>3
  <2> QED
    BY <2>3, <2>4
<1>5. \A q \in Request : q = r \/ q \in Others(r)
  BY DEF Others
<1> QED
  BY <1>3, <1>4, <1>5, CommitTells, CommitApart DEF RolesInv

LEMMA RolesCreate ==
  ASSUME RolesInv, NEW role \in Role, NEW list \in SUBSET Perm, CreateRole(role, list)
  PROVE  RolesInv'
<1>1. TypeOK /\ RowsHaveRoles
  BY DEF RolesInv
<1>2. /\ role \in unborn /\ unborn' = unborn \ {role} /\ roles' = roles \cup {role}
      /\ rows' = rows \cup ({role} \X list)
      /\ UNCHANGED <<tx, todo, call, told, clients>>
  BY DEF CreateRole
<1>3. TypeOK'
  BY <1>1, <1>2 DEF TypeOK, Grants, tx, clients
<1>4. RowsHaveRoles'
  BY <1>1, <1>2 DEF RowsHaveRoles, clients
<1>5. ASSUME NEW r \in Request PROVE Progress(r)'
  <2>1. Progress(r) /\ call[r] \in Calls \cup {NoCall}
    BY <1>1 DEF RolesInv, TypeOK
  <2>2. Stage(r)' = Stage(r)
    BY <1>2 DEF Stage
  <2>3. CASE call[r] = NoCall
    BY <1>2, <2>1, <2>3 DEF Progress, tx
  <2>4. CASE call[r] # NoCall
    <3>1. call[r] \in Calls /\ call[r].role # role
      BY <1>2, <2>1, <2>4 DEF Progress
    <3>2. Protected(call[r]) => rows' \cap Scope(call[r]) = rows \cap Scope(call[r])
      BY <1>2, <3>1 DEF Scope, Protected
    <3>3. call[r].op = "updateRole" => Replacing(r)'
      BY <1>2, <2>1, <2>2, <2>4, <3>2 DEF Progress, Replacing, Protected, tx
    <3>4. Holds(r)' => lock'[call[r].role] = r /\ call[r].role \in roles'
      BY <1>2, <2>1, <2>2, <2>4 DEF Progress, Holds, tx
    <3> QED
      BY <1>2, <2>1, <2>2, <2>4, <3>3, <3>4 DEF Progress, tx
  <2> QED
    BY <2>3, <2>4
<1>6. StaleRolesWillBeHeard'
  <2> SUFFICES ASSUME NEW u \in User, NEW x \in roles', StaleAt(u, x)'
               PROVE  WillHear(u, x)'
    BY DEF StaleRolesWillBeHeard
  <2>1. x \in Role /\ role \notin User /\ known' = known
    BY <1>1, <1>2, RolesAssumption DEF TypeOK, clients
  <2>2. x # role
    <3> SUFFICES ASSUME x = role PROVE FALSE
      OBVIOUS
    <3>1. {g \in known'[u] : g[1] = x} = {}
      BY <1>1, <1>2, <2>1 DEF RowsHaveRoles
    <3>2. <<u, x>> \notin rows
      BY <1>1, <1>2, <2>1, RolesAssumption DEF RowsHaveRoles, TypeOK
    <3>3. <<u, x>> \notin rows'
      BY <1>2, <2>1, <3>2
    <3>4. {g \in PermissionsOf(u)' : g[1] = x} = {}
      BY <3>3 DEF PermissionsOf
    <3> QED
      BY <3>1, <3>4 DEF StaleAt
  <2>3. x \in roles
    BY <1>2, <2>2
  <2>4. <<u, x>> \in rows' <=> <<u, x>> \in rows
    BY <1>2, <2>1
  <2>5. \A p \in Perm : <<x, p>> \in rows' <=> <<x, p>> \in rows
    BY <1>2, <2>2
  <2>6. StaleAt(u, x)
    BY <2>1, <2>4, <2>5, GrantsStay DEF StaleAt
  <2>7. WillHear(u, x)
    BY <2>3, <2>6 DEF RolesInv, StaleRolesWillBeHeard
  <2> QED
    BY <1>2, <2>4, <2>7 DEF WillHear, Stage, clients
<1> QED
  BY <1>3, <1>4, <1>5, <1>6 DEF RolesInv

LEMMA RolesDeleteRole ==
  ASSUME RolesInv, NEW role \in Role, DeleteRole(role) PROVE RolesInv'
<1> DEFINE gone == {x \in rows : x[1] = role \/ x[2] = role}
<1>1. TypeOK /\ RowsHaveRoles
  BY DEF RolesInv
<1>2. /\ role \in roles \ System /\ lock[role] = NoOne
      /\ \A r \in Request : \A x \in deleted[r] \cup inserted[r] : x[1] # role /\ x[2] # role
      /\ roles' = roles \ {role} /\ rows' = rows \ gone
      /\ seen' = [r \in Request |-> seen[r] \ gone]
      /\ UNCHANGED <<unborn, lock, deleted, inserted, todo, call, told, clients>>
  BY DEF DeleteRole
<1>3. TypeOK'
  BY <1>1, <1>2 DEF TypeOK, clients
<1>4. RowsHaveRoles'
  BY <1>1, <1>2 DEF RowsHaveRoles, clients
<1>6. ASSUME NEW r \in Request PROVE Progress(r)'
  <2>1. Progress(r) /\ call[r] \in Calls \cup {NoCall}
    BY <1>1 DEF RolesInv, TypeOK
  <2>2. Stage(r)' = Stage(r) /\ seen'[r] = seen[r] \ gone
    BY <1>2 DEF Stage
  <2>3. CASE call[r] = NoCall
    BY <1>2, <2>1, <2>2, <2>3 DEF Progress
  <2>4. CASE call[r] # NoCall
    <3>1. call[r] \in Calls
      BY <2>1, <2>4
    <3>2. inserted[r] # {} => call[r].role # role
      <4>1. \A x \in Wanted(call[r]) : x[1] = call[r].role \/ x[2] = call[r].role
        BY <3>1, CallShape DEF Wanted, Op, Protected
      <4> QED
        BY <1>2, <2>1, <2>4, <4>1 DEF Progress
    <3>3. Holds(r) => call[r].role # role /\ lock[call[r].role] = r /\ call[r].role \in roles
      BY <1>2, <2>1, <2>4, RolesAssumption DEF Progress
    <3>4. ASSUME call[r].op = "updateRole", Holds(r)
          PROVE  /\ rows' \cap Scope(call[r]) = rows \cap Scope(call[r])
                 /\ seen'[r] = seen[r]
      <4>1. Scope(call[r]) = {call[r].role} \X Perm
        BY <3>4 DEF Scope
      <4>2. gone \cap Scope(call[r]) = {}
        BY <3>3, <3>4, <4>1, RolesAssumption
      <4>3. seen[r] \subseteq Scope(call[r])
        BY <2>1, <2>4 DEF Progress
      <4> QED
        BY <1>2, <2>2, <4>2, <4>3
    <3>5. call[r].op = "updateRole" => Replacing(r)'
      <4> SUFFICES ASSUME call[r].op = "updateRole", Stage(r) \in {"sweep", "insert", "commit"}
                   PROVE  Replacing(r)'
        BY <2>2 DEF Replacing
      <4>1. Holds(r) /\ Replacing(r)
        BY <2>1, <2>4 DEF Holds, Progress
      <4> QED
        BY <1>2, <2>2, <3>4, <4>1 DEF Replacing
    <3>6. Holds(r)' => Holds(r)
      BY <1>2, <2>2 DEF Holds
    <3>7. seen'[r] \subseteq seen[r]
      BY <2>2
    <3> HIDE DEF gone
    <3> QED
      BY <1>2, <2>1, <2>2, <2>4, <3>2, <3>3, <3>5, <3>6, <3>7 DEF Progress
  <2> QED
    BY <2>3, <2>4
<1>7. StaleRolesWillBeHeard'
  <2> SUFFICES ASSUME NEW u \in User, NEW x \in roles', StaleAt(u, x)'
               PROVE  WillHear(u, x)'
    BY DEF StaleRolesWillBeHeard
  <2>1. x \in roles /\ x \in Role /\ x # role /\ u # role /\ known' = known
        /\ role \notin Perm
    BY <1>1, <1>2, RolesAssumption DEF TypeOK, clients
  <2>2. <<u, x>> \in rows' <=> <<u, x>> \in rows
    BY <1>2, <2>1
  <2>3. \A p \in Perm : <<x, p>> \in rows' <=> <<x, p>> \in rows
    BY <1>2, <2>1
  <2>4. StaleAt(u, x)
    BY <2>1, <2>2, <2>3, GrantsStay DEF StaleAt
  <2>5. WillHear(u, x)
    BY <2>1, <2>4 DEF RolesInv, StaleRolesWillBeHeard
  <2> QED
    BY <1>2, <2>2, <2>5 DEF WillHear, Stage, clients
<1> QED
  BY <1>3, <1>4, <1>6, <1>7 DEF RolesInv

LEMMA RolesRefetch ==
  ASSUME RolesInv, NEW u \in User, Refetch(u) PROVE RolesInv'
<1>1. TypeOK /\ RowsHaveRoles
  BY DEF RolesInv
<1>2. /\ known' = [known EXCEPT ![u] = PermissionsOf(u)]
      /\ notified' = notified \ {u} /\ untold' = untold \ {u}
      /\ UNCHANGED <<db, tx, todo, call, told>>
  BY DEF Refetch
<1>3. TypeOK'
  BY <1>1, <1>2 DEF TypeOK, db, tx, PermissionsOf
<1>4. RowsHaveRoles'
  <2>1. \A g \in PermissionsOf(u) : g[1] \notin unborn
    BY <1>1, RolesAssumption DEF RowsHaveRoles, PermissionsOf, Grants, TypeOK
  <2> QED
    BY <1>1, <1>2, <2>1 DEF RowsHaveRoles, TypeOK, db
<1>5. ASSUME NEW r \in Request PROVE Progress(r)'
  BY <1>1, <1>2, OthersStay DEF RolesInv, TypeOK, db, tx
<1>6. StaleRolesWillBeHeard'
  <2> SUFFICES ASSUME NEW v \in User, NEW x \in roles, StaleAt(v, x)'
               PROVE  WillHear(v, x)'
    BY <1>2 DEF StaleRolesWillBeHeard, db
  <2>1. PermissionsOf(v)' = PermissionsOf(v)
    BY <1>2 DEF PermissionsOf, db
  <2>2. v # u /\ known'[v] = known[v]
    BY <1>1, <1>2, <2>1 DEF StaleAt, TypeOK
  <2>3. WillHear(v, x)
    BY <2>1, <2>2 DEF RolesInv, StaleRolesWillBeHeard, StaleAt
  <2> QED
    BY <1>2, <2>2, <2>3 DEF WillHear, Stage, db
<1> QED
  BY <1>3, <1>4, <1>5, <1>6 DEF RolesInv

LEMMA RolesNext == ASSUME RolesInv, Next PROVE RolesInv'
<1>1. ASSUME NEW r \in Request, Step(r) PROVE RolesInv'
  BY <1>1, RolesTouch, RolesDelete, RolesSweep, RolesInsert, RolesCommit, RolesAsk,
     RolesTellOrLose, RolesFail DEF Step
<1> QED
  BY <1>1, RolesBegin, RolesCreate, RolesDeleteRole, RolesRefetch DEF Next

LEMMA RolesStutter == ASSUME RolesInv, UNCHANGED grants PROVE RolesInv'
<1>1. UNCHANGED <<roles, unborn, rows, lock, todo, call, seen, deleted, inserted, told,
                  known, notified, untold>>
  BY DEF grants, db, tx, clients
<1>2. TypeOK'
  BY <1>1 DEF RolesInv, TypeOK
<1>3. ASSUME NEW r \in Request PROVE Progress(r)'
  BY <1>1, OthersStay DEF RolesInv, TypeOK, db
<1>4. RowsHaveRoles'
  BY <1>1 DEF RolesInv, RowsHaveRoles
<1>5. StaleRolesWillBeHeard'
  BY <1>1 DEF RolesInv, StaleRolesWillBeHeard, StaleAt, PermissionsOf, WillHear, Stage
<1> QED
  BY <1>2, <1>3, <1>4, <1>5 DEF RolesInv

\* A client that is wrong at all is wrong about one role.
LEMMA RolesInvHeard == RolesInv => StaleClientsWillHear
<1> SUFFICES ASSUME RolesInv, NEW u \in User, Stale(u)
             PROVE  u \in notified \cup untold \cup UNION {Audience(r) : r \in Request}
  BY DEF StaleClientsWillHear
<1>1. TypeOK /\ RowsHaveRoles
  BY DEF RolesInv
<1>2. PICK g : ~(g \in {h \in known[u] : h[1] \in roles} <=> g \in PermissionsOf(u))
  BY DEF Stale
<1>3. g[1] \in roles
  BY <1>1, <1>2, RolesAssumption DEF PermissionsOf, RowsHaveRoles, TypeOK, Grants
<1>4. StaleAt(u, g[1])
  BY <1>2, <1>3 DEF StaleAt
<1>5. WillHear(u, g[1])
  BY <1>3, <1>4 DEF RolesInv, StaleRolesWillBeHeard
<1>6. ASSUME NEW r \in Request, Stage(r) = "tell", u \in told[r] PROVE u \in Audience(r)
  <2>1. At(r, "tell") /\ ~At(r, "ask")
    BY <1>6, AtStage
  <2> QED
    BY <1>6, <2>1 DEF Audience
<1>7. ASSUME NEW r \in Request, Stage(r) = "ask", call[r].role = g[1], <<u, g[1]>> \in rows
      PROVE  u \in Audience(r)
  <2>1. At(r, "ask")
    BY <1>7, AtStage
  <2> QED
    BY <1>7, <2>1 DEF Audience, Holders
<1> QED
  BY <1>5, <1>6, <1>7 DEF WillHear

\* The list a call of updateRole was made with replaces what the role had.
LEMMA RolesReplace ==
  ASSUME RolesInv, NEW r \in Request, call[r].op = "updateRole", Commit(r)
  PROVE  rows' \cap ({call[r].role} \X Perm) = Wanted(call[r])
<1>1. /\ Stage(r) = "commit" /\ call[r] \in Calls /\ Progress(r)
      /\ Wanted(call[r]) \subseteq Scope(call[r])
      /\ rows' = (rows \ deleted[r]) \cup inserted[r]
  BY CommitEffect DEF RolesInv
<1>2. call[r] # NoCall
  BY <1>1, CallShape
<1>3. deleted[r] = rows \cap Scope(call[r]) /\ inserted[r] = Wanted(call[r])
  BY <1>1, <1>2 DEF Progress, Replacing
<1>4. Scope(call[r]) = {call[r].role} \X Perm
  BY DEF Scope
<1> QED
  BY <1>1, <1>3, <1>4

-----------------------------------------------------------------------------
(* Money: what a call remembers of the order.                              *)

Pricing(c) ==
  /\ c = [priced |-> c.priced, totals |-> c.totals, seen |-> c.seen, late |-> c.late]
  /\ DOMAIN c.priced \subseteq Line /\ \A i \in DOMAIN c.priced : c.priced[i] \in Cost
  /\ c.seen \subseteq Line /\ c.late \in BOOLEAN

MoneyInv ==
  /\ DOMAIN lines \subseteq Line /\ \A i \in DOMAIN lines : lines[i] \in Cost
  /\ overlapped \in BOOLEAN
  /\ pricing = [r \in Request |-> pricing[r]]
  /\ \A r \in Request : Pricing(pricing[r])

LEMMA NoPricing == Pricing(Money!NoCall)
  BY DEF Pricing, Money!NoCall, Money!Empty

LEMMA MoneyInit == Money!Init => MoneyInv
  BY NoPricing DEF Money!Init, Money!Empty, MoneyInv

LEMMA NewLinesAreLines == \A n : Money!NewLines(n) \subseteq Line
  BY DEF Money!NewLines, Money!Unused

\* One request's memory is replaced.
LEMMA MoneyCall ==
  ASSUME MoneyInv, NEW r \in Request, NEW c, Pricing(c),
         pricing' = [pricing EXCEPT ![r] = c], lines' = lines, overlapped' = overlapped
  PROVE  MoneyInv'
<1>1. pricing' = [q \in Request |-> IF q = r THEN c ELSE pricing[q]]
  BY DEF MoneyInv
<1>2. \A q \in Request : pricing'[q] = IF q = r THEN c ELSE pricing[q]
  BY <1>1
<1>3. \A q \in Request : Pricing(pricing[q])
  BY DEF MoneyInv
<1>4. \A q \in Request : Pricing(pricing'[q])
  BY <1>2, <1>3
<1>5. pricing' = [q \in Request |-> pricing'[q]]
  BY <1>1
<1> QED
  BY <1>4, <1>5 DEF MoneyInv, Pricing

LEMMA MoneyPrepare ==
  ASSUME MoneyInv, NEW r \in Request, NEW S \in SUBSET Line, NEW priced \in [S -> Cost],
         NEW totals, Money!Prepare(r, priced, totals), lines' = lines, overlapped' = overlapped
  PROVE  MoneyInv'
<1> DEFINE c == [priced |-> priced, totals |-> totals, seen |-> {}, late |-> FALSE]
<1>1. Pricing(c)
  BY DEF Pricing
<1>2. pricing' = [pricing EXCEPT ![r] = c]
  BY DEF Money!Prepare
<1> QED
  BY <1>1, <1>2, MoneyCall

LEMMA MoneyForget ==
  ASSUME MoneyInv, NEW r \in Request, Money!Forget(r), lines' = lines, overlapped' = overlapped
  PROVE  MoneyInv'
  BY NoPricing, MoneyCall DEF Money!Forget

\* The lines after a commit are those that stay and those that were priced.
LEMMA JoinedAreLines ==
  ASSUME MoneyInv, NEW r \in Request, NEW S \in SUBSET DOMAIN lines
  PROVE  /\ DOMAIN Money!Joined(r, S) \subseteq Line
         /\ \A i \in DOMAIN Money!Joined(r, S) : Money!Joined(r, S)[i] \in Cost
<1>1. Pricing(pricing[r])
  BY DEF MoneyInv
<1> QED
  BY <1>1 DEF Money!Joined, MoneyInv, Pricing

LEMMA LatePricing ==
  ASSUME NEW c, Pricing(c), NEW b \in BOOLEAN PROVE Pricing([c EXCEPT !.late = b])
<1> DEFINE d == [c EXCEPT !.late = b]
<1>1. d = [priced |-> c.priced, totals |-> c.totals, seen |-> c.seen, late |-> b]
  BY DEF Pricing
<1>2. Pricing(d)
  BY <1>1 DEF Pricing
<1> QED
  BY <1>2

LEMMA MoneyCommit ==
  ASSUME MoneyInv, NEW r \in Request, Money!CommitReplace(r) \/ Money!CommitKeep(r)
  PROVE  MoneyInv'
<1> DEFINE late(q) == [pricing[q] EXCEPT !.late = TRUE]
<1>1. \A q \in Request : Pricing(pricing[q])
  BY DEF MoneyInv
<1>2. overlapped' \in BOOLEAN
  BY <1>1 DEF Money!CommitReplace, Money!CommitKeep, Pricing
<1>3. DOMAIN lines' \subseteq Line /\ \A i \in DOMAIN lines' : lines'[i] \in Cost
  BY JoinedAreLines DEF Money!CommitReplace, Money!CommitKeep
<1>4. \A q \in Request : Pricing(late(q))
  BY <1>1, LatePricing
<1> HIDE DEF late
<1>5. /\ pricing' = [q \in Request |-> pricing'[q]]
      /\ \A q \in Request : pricing'[q] \in {Money!NoCall, late(q), pricing[q]}
  <2>1. CASE Money!CommitReplace(r)
    BY <2>1 DEF Money!CommitReplace, late
  <2>2. CASE Money!CommitKeep(r)
    BY <2>2 DEF Money!CommitKeep, Money!Forget, MoneyInv
  <2> QED
    BY <2>1, <2>2
<1>6. \A q \in Request : Pricing(pricing'[q])
  BY <1>1, <1>4, <1>5, NoPricing
<1> QED
  BY <1>2, <1>3, <1>5, <1>6 DEF MoneyInv, Pricing

LEMMA MoneyNext == ASSUME MoneyInv, Money!Next PROVE MoneyInv'
<1>1. PICK r \in Request :
          \/ Money!Create(r) \/ Money!PriceNewItems(r) \/ Money!PriceOldItems(r)
          \/ Money!DeleteBegin(r) \/ Money!Replace(r) \/ Money!UpdateLines(r)
          \/ Money!CommitReplace(r) \/ Money!CommitKeep(r) \/ Money!Abort(r)
  BY DEF Money!Next
<1>2. Pricing(pricing[r]) /\ DOMAIN lines \subseteq Line
  BY DEF MoneyInv
<1>3. ASSUME UNCHANGED <<lines, pricing, overlapped>> PROVE MoneyInv'
  BY <1>3 DEF MoneyInv, Pricing
<1>4. CASE Money!Create(r)
  <2>1. PICK n \in 1 .. 2 : lines' \in [Money!NewLines(n) -> Cost]
    BY <1>4 DEF Money!Create
  <2>2. DOMAIN lines' \subseteq Line /\ \A i \in DOMAIN lines' : lines'[i] \in Cost
    BY <2>1, NewLinesAreLines
  <2>3. pricing' = pricing /\ overlapped' = overlapped
    BY <1>4 DEF Money!Create
  <2> QED
    BY <2>2, <2>3 DEF MoneyInv, Pricing
<1>5. CASE Money!PriceNewItems(r)
  <2>1. /\ lines' = lines /\ overlapped' = overlapped
        /\ \E n \in 1 .. 2 : \E priced \in [Money!NewLines(n) -> Cost] : \E totals :
             Money!Prepare(r, priced, totals)
    BY <1>5 DEF Money!PriceNewItems
  <2> QED
    BY <2>1, NewLinesAreLines, MoneyPrepare
<1>6. CASE Money!PriceOldItems(r)
  <2>1. /\ lines' = lines /\ overlapped' = overlapped
        /\ \E priced \in [DOMAIN lines -> Cost] : \E totals : Money!Prepare(r, priced, totals)
    BY <1>6 DEF Money!PriceOldItems
  <2> QED
    BY <1>2, <2>1, MoneyPrepare
<1>7. CASE Money!DeleteBegin(r)
  <2> DEFINE c == [pricing[r] EXCEPT !.seen = DOMAIN lines]
  <2>1. pricing' = [pricing EXCEPT ![r] = c] /\ lines' = lines /\ overlapped' = overlapped
    BY <1>7 DEF Money!DeleteBegin
  <2>2. c = [priced |-> pricing[r].priced, totals |-> pricing[r].totals,
             seen |-> DOMAIN lines, late |-> pricing[r].late]
    BY <1>2 DEF Pricing
  <2>3. Pricing(c)
    BY <1>2, <2>2 DEF Pricing
  <2> QED
    BY <2>1, <2>3, MoneyCall
<1>8. CASE Money!Replace(r)
  BY <1>3, <1>8 DEF Money!Replace
<1>9. CASE Money!UpdateLines(r)
  BY <1>3, <1>9, MoneyForget DEF Money!UpdateLines
<1>10. CASE Money!Abort(r)
  BY <1>10, MoneyForget DEF Money!Abort
<1> QED
  BY <1>1, <1>4, <1>5, <1>6, <1>7, <1>8, <1>9, <1>10, MoneyCommit

-----------------------------------------------------------------------------
(* Sums over finite sets.                                                  *)

\* The element a fold takes first.
Picked(s) == CHOOSE x \in s : TRUE

\* f adds up g over every part of S, one element after the other.
Adds(f, g, S) ==
  f = [s \in SUBSET S |-> IF s = {} THEN 0 ELSE g[Picked(s)] + f[s \ {Picked(s)}]]

\* A set of numbers has a least one, which stands for an induction.
LEMMA LeastOfNat ==
  ASSUME NEW T \in SUBSET Nat, T # {}
  PROVE  \E m \in T : \A n \in T : m <= n
<1> DEFINE less == OpToRel(<, Nat)
<1>1. IsWellFoundedOn(less, Nat)
  BY NatLessThanWellFounded
<1> HIDE DEF less
<1>2. PICK m \in T : \A n \in T : <<n, m>> \notin less
  BY <1>1, WFMin
<1>3. \A n \in T : ~(n < m)
  BY <1>2 DEF less, OpToRel
<1> QED
  BY <1>3

\* What is left of a part without its first element.
LEMMA OneLess ==
  ASSUME NEW S, IsFiniteSet(S), NEW s \in SUBSET S, s # {}
  PROVE  LET t == s \ {Picked(s)} IN
         /\ Picked(s) \in S /\ t \in SUBSET S
         /\ Cardinality(s) \in Nat /\ Cardinality(t) \in Nat
         /\ Cardinality(t) + 1 = Cardinality(s)
<1>1. Picked(s) \in s
  BY DEF Picked
<1>2. IsFiniteSet(s)
  BY FS_Subset
<1>3. IsFiniteSet(s \ {Picked(s)})
  BY <1>2, FS_Subset
<1>4. Cardinality(s) \in Nat /\ Cardinality(s \ {Picked(s)}) \in Nat
  BY <1>2, <1>3, FS_CardinalityType
<1>5. Cardinality(s \ {Picked(s)}) = Cardinality(s) - 1
  BY <1>1, <1>2, FS_RemoveElement
<1> QED
  BY <1>1, <1>4, <1>5

\* There is such an f: it is built up by the size of the parts.
LEMMA AddsExists ==
  ASSUME NEW S, IsFiniteSet(S), NEW g
  PROVE  \E f : Adds(f, g, S)
<1> DEFINE Adding(f) == [s \in SUBSET S |-> IF s = {} THEN 0 ELSE g[Picked(s)] + f[s \ {Picked(s)}]]
           Small(n) == {s \in SUBSET S : Cardinality(s) <= n}
           UpTo(f, n) == \A s \in Small(n) : f[s] = Adding(f)[s]
           Bad == {n \in Nat : \A f : ~UpTo(f, n)}
<1>1. \A f : \A s \in SUBSET S :
        Adding(f)[s] = IF s = {} THEN 0 ELSE g[Picked(s)] + f[s \ {Picked(s)}]
  OBVIOUS
<1>2. \A n : \A s : s \in Small(n) <=> s \in SUBSET S /\ Cardinality(s) <= n
  OBVIOUS
<1> HIDE DEF Adding, Small
<1>3. ASSUME Bad # {} PROVE FALSE
  <2>1. PICK m \in Bad : \A n \in Bad : m <= n
    BY <1>3, LeastOfNat
  <2>2. m \in Nat /\ \A f : ~UpTo(f, m)
    BY <2>1
  <2>3. CASE m = 0
    <3> DEFINE zero == [s \in SUBSET S |-> 0]
    <3>1. ASSUME NEW s \in Small(0) PROVE s \in SUBSET S /\ s = {}
      <4>1. s \in SUBSET S /\ Cardinality(s) <= 0
        BY <1>2
      <4>2. ASSUME s # {} PROVE FALSE
        <5>1. /\ Cardinality(s \ {Picked(s)}) + 1 = Cardinality(s)
              /\ Cardinality(s \ {Picked(s)}) \in Nat
          BY <4>1, <4>2, OneLess
        <5> QED
          BY <4>1, <5>1
      <4> QED
        BY <4>1, <4>2
    <3>2. \A s \in SUBSET S : zero[s] = 0
      OBVIOUS
    <3> HIDE DEF zero
    <3>3. \A s \in Small(0) : zero[s] = Adding(zero)[s]
      BY <1>1, <3>1, <3>2
    <3> QED
      BY <2>2, <2>3, <3>3
  <2>4. CASE m # 0
    <3>1. m - 1 \in Nat /\ m - 1 \notin Bad
      BY <2>1, <2>2, <2>4
    <3>2. PICK f : UpTo(f, m - 1)
      BY <3>1
    <3> DEFINE h == Adding(f)
    <3>3. ASSUME NEW s \in Small(m) PROVE h[s] = Adding(h)[s]
      <4>1. s \in SUBSET S /\ Cardinality(s) <= m
        BY <1>2, <3>3
      <4>2. CASE s = {}
        BY <1>1, <4>1, <4>2
      <4>3. CASE s # {}
        <5> DEFINE t == s \ {Picked(s)}
        <5>1. t \in SUBSET S /\ Cardinality(t) + 1 = Cardinality(s)
              /\ Cardinality(t) \in Nat
          BY <4>1, <4>3, OneLess
        <5>2. t \in Small(m - 1)
          BY <1>2, <2>2, <4>1, <5>1
        <5>3. f[t] = h[t]
          BY <3>2, <5>2
        <5> QED
          BY <1>1, <4>1, <4>3, <5>3
      <4> QED
        BY <4>2, <4>3
    <3> QED
      BY <2>2, <3>3
  <2> QED
    BY <2>3, <2>4
<1>4. Cardinality(S) \in Nat /\ Cardinality(S) \notin Bad
  BY <1>3, FS_CardinalityType
<1>5. PICK f : UpTo(f, Cardinality(S))
  BY <1>4
<1>6. \A s \in SUBSET S : s \in Small(Cardinality(S))
  BY <1>2, FS_Subset
<1>7. \A s \in SUBSET S : f[s] = Adding(f)[s]
  BY <1>5, <1>6
<1> DEFINE k == [s \in SUBSET S |-> f[s]]
<1>8. \A s \in SUBSET S : k[s] = f[s]
  OBVIOUS
<1> HIDE DEF k
<1>9. \A s \in SUBSET S : s # {} => k[s \ {Picked(s)}] = f[s \ {Picked(s)}]
  BY <1>8
<1>10. ASSUME NEW s \in SUBSET S
      PROVE  k[s] = IF s = {} THEN 0 ELSE g[Picked(s)] + k[s \ {Picked(s)}]
  <2>1. k[s] = IF s = {} THEN 0 ELSE g[Picked(s)] + f[s \ {Picked(s)}]
    BY <1>1, <1>7, <1>8
  <2> QED
    BY <1>9, <2>1
<1>11. k = [s \in SUBSET S |-> k[s]]
  BY <1>8 DEF k
<1> QED
  BY <1>10, <1>11 DEF Adds

\* Sums of numbers are numbers, and the sum of sums is the sum of both.
LEMMA AddsUp ==
  ASSUME NEW S, IsFiniteSet(S), NEW f, NEW g, NEW h, NEW a, NEW b, NEW c,
         Adds(f, a, S), Adds(g, b, S), Adds(h, c, S),
         \A x \in S : a[x] \in Nat /\ b[x] \in Nat /\ c[x] = a[x] + b[x]
  PROVE  f[S] \in Nat /\ g[S] \in Nat /\ h[S] = f[S] + g[S]
<1> DEFINE Good(s) == f[s] \in Nat /\ g[s] \in Nat /\ h[s] = f[s] + g[s]
           Bad == {n \in Nat : \E s \in SUBSET S : Cardinality(s) = n /\ ~Good(s)}
<1>0. \A s \in SUBSET S :
        /\ f[s] = IF s = {} THEN 0 ELSE a[Picked(s)] + f[s \ {Picked(s)}]
        /\ g[s] = IF s = {} THEN 0 ELSE b[Picked(s)] + g[s \ {Picked(s)}]
        /\ h[s] = IF s = {} THEN 0 ELSE c[Picked(s)] + h[s \ {Picked(s)}]
  BY DEF Adds
<1>1. ASSUME Bad # {} PROVE FALSE
  <2>1. PICK m \in Bad : \A n \in Bad : m <= n
    BY <1>1, LeastOfNat
  <2>2. PICK s \in SUBSET S : Cardinality(s) = m /\ ~Good(s)
    BY <2>1
  <2>3. s # {}
    <3>1. ASSUME s = {} PROVE f[s] = 0 /\ g[s] = 0 /\ h[s] = 0
      BY <1>0, <3>1
    <3> QED
      BY <2>2, <3>1
  <2> DEFINE t == s \ {Picked(s)}
  <2>4. Picked(s) \in S /\ t \in SUBSET S /\ Cardinality(t) + 1 = m /\ Cardinality(t) \in Nat
    BY <2>2, <2>3, OneLess
  <2>5. Good(t)
    BY <2>1, <2>4
  <2>6. /\ f[s] = a[Picked(s)] + f[t] /\ g[s] = b[Picked(s)] + g[t]
        /\ h[s] = c[Picked(s)] + h[t]
    BY <1>0, <2>3
  <2> QED
    BY <2>2, <2>4, <2>5, <2>6
<1>2. Cardinality(S) \in Nat
  BY FS_CardinalityType
<1> QED
  BY <1>1, <1>2

\* The sums of calculateTotals, and that of rent and deposit.
SubtotalOf(l) == Money!MapThenSumSet(LAMBDA i : l[i].lineTotal, DOMAIN l)
DepositOf(l)  == Money!MapThenSumSet(LAMBDA i : l[i].depositAmount, DOMAIN l)
HoldOf(l)     == Money!MapThenSumSet(LAMBDA i : l[i].bookingHoldAmount, DOMAIN l)
BothOf(l)     == Money!MapThenSumSet(LAMBDA i : l[i].lineTotal + l[i].depositAmount, DOMAIN l)

\* The folds over the lines add up their prices.
LEMMA SubtotalAdds ==
  ASSUME NEW l, IsFiniteSet(DOMAIN l)
  PROVE  \E f : /\ Adds(f, [i \in DOMAIN l |-> l[i].lineTotal], DOMAIN l)
               /\ SubtotalOf(l) = f[DOMAIN l]
<1> DEFINE Adding(f) == [s \in SUBSET DOMAIN l |-> IF s = {} THEN 0
                           ELSE l[Picked(s)].lineTotal + f[s \ {Picked(s)}]]
<1>1. \A f : Adds(f, [i \in DOMAIN l |-> l[i].lineTotal], DOMAIN l) <=> f = Adding(f)
  BY DEF Adds, Picked
<1>2. PICK f : f = Adding(f)
  BY <1>1, AddsExists
<1>3. \E h : h = Adding(h) /\ SubtotalOf(l) = h[DOMAIN l]
  BY <1>2 DEF SubtotalOf, Money!MapThenSumSet, Money!MapThenFoldSet, Picked
<1> QED
  BY <1>1, <1>3

LEMMA DepositAdds ==
  ASSUME NEW l, IsFiniteSet(DOMAIN l)
  PROVE  \E f : /\ Adds(f, [i \in DOMAIN l |-> l[i].depositAmount], DOMAIN l)
               /\ DepositOf(l) = f[DOMAIN l]
<1> DEFINE Adding(f) == [s \in SUBSET DOMAIN l |-> IF s = {} THEN 0
                           ELSE l[Picked(s)].depositAmount + f[s \ {Picked(s)}]]
<1>1. \A f : Adds(f, [i \in DOMAIN l |-> l[i].depositAmount], DOMAIN l) <=> f = Adding(f)
  BY DEF Adds, Picked
<1>2. PICK f : f = Adding(f)
  BY <1>1, AddsExists
<1>3. \E h : h = Adding(h) /\ DepositOf(l) = h[DOMAIN l]
  BY <1>2 DEF DepositOf, Money!MapThenSumSet, Money!MapThenFoldSet, Picked
<1> QED
  BY <1>1, <1>3

LEMMA HoldAdds ==
  ASSUME NEW l, IsFiniteSet(DOMAIN l)
  PROVE  \E f : /\ Adds(f, [i \in DOMAIN l |-> l[i].bookingHoldAmount], DOMAIN l)
               /\ HoldOf(l) = f[DOMAIN l]
<1> DEFINE Adding(f) == [s \in SUBSET DOMAIN l |-> IF s = {} THEN 0
                           ELSE l[Picked(s)].bookingHoldAmount + f[s \ {Picked(s)}]]
<1>1. \A f : Adds(f, [i \in DOMAIN l |-> l[i].bookingHoldAmount], DOMAIN l) <=> f = Adding(f)
  BY DEF Adds, Picked
<1>2. PICK f : f = Adding(f)
  BY <1>1, AddsExists
<1>3. \E h : h = Adding(h) /\ HoldOf(l) = h[DOMAIN l]
  BY <1>2 DEF HoldOf, Money!MapThenSumSet, Money!MapThenFoldSet, Picked
<1> QED
  BY <1>1, <1>3

LEMMA BothAdds ==
  ASSUME NEW l, IsFiniteSet(DOMAIN l)
  PROVE  \E f : /\ Adds(f, [i \in DOMAIN l |-> l[i].lineTotal + l[i].depositAmount], DOMAIN l)
               /\ BothOf(l) = f[DOMAIN l]
<1> DEFINE Adding(f) == [s \in SUBSET DOMAIN l |-> IF s = {} THEN 0
                           ELSE (l[Picked(s)].lineTotal + l[Picked(s)].depositAmount) + f[s \ {Picked(s)}]]
<1>1. \A f : Adds(f, [i \in DOMAIN l |-> l[i].lineTotal + l[i].depositAmount], DOMAIN l) <=> f = Adding(f)
  BY DEF Adds, Picked
<1>2. PICK f : f = Adding(f)
  BY <1>1, AddsExists
<1>3. \E h : h = Adding(h) /\ BothOf(l) = h[DOMAIN l]
  BY <1>2 DEF BothOf, Money!MapThenSumSet, Money!MapThenFoldSet, Picked
<1> QED
  BY <1>1, <1>3

LEMMA TotalsAre == ASSUME NEW l, NEW fee, NEW discount
  PROVE LET t == Money!Totals(l, fee, discount)
            due == SubtotalOf(l) + DepositOf(l) + fee - discount
            upfront == IF due < 0 THEN 0 ELSE due
            left == upfront - HoldOf(l)
   IN t = [subtotal |-> SubtotalOf(l), depositTotal |-> DepositOf(l), bookingHoldTotal |-> HoldOf(l),
           deliveryFeeTotal |-> fee, discountTotal |-> discount, upfrontTotal |-> upfront,
           handoverDueTotal |-> IF left < 0 THEN 0 ELSE left]
  BY DEF Money!Totals, Money!AtLeast0, SubtotalOf, DepositOf, HoldOf

LEMMA SumsOfLines ==
  ASSUME NEW l, IsFiniteSet(DOMAIN l), \A i \in DOMAIN l : l[i] \in Cost
  PROVE  /\ SubtotalOf(l) \in Nat /\ DepositOf(l) \in Nat /\ HoldOf(l) \in Nat
         /\ BothOf(l) = SubtotalOf(l) + DepositOf(l)
<1> DEFINE D == DOMAIN l
           total == [i \in D |-> l[i].lineTotal]
           deposit == [i \in D |-> l[i].depositAmount]
           hold == [i \in D |-> l[i].bookingHoldAmount]
           both == [i \in D |-> l[i].lineTotal + l[i].depositAmount]
           nothing == [i \in D |-> 0]
<1>1. \A i \in D : /\ total[i] \in Nat /\ deposit[i] \in Nat /\ hold[i] \in Nat
                   /\ both[i] = total[i] + deposit[i]
                   /\ nothing[i] = 0
  BY BackOfficeAssumption
<1>2. PICK a : Adds(a, total, D) /\ SubtotalOf(l) = a[D]
  BY SubtotalAdds
<1>3. PICK b : Adds(b, deposit, D) /\ DepositOf(l) = b[D]
  BY DepositAdds
<1>4. PICK c : Adds(c, hold, D) /\ HoldOf(l) = c[D]
  BY HoldAdds
<1>5. PICK d : Adds(d, both, D) /\ BothOf(l) = d[D]
  BY BothAdds
<1>6. PICK e : Adds(e, nothing, D)
  BY AddsExists
<1> HIDE DEF total, deposit, hold, both, nothing
<1>7. a[D] \in Nat /\ b[D] \in Nat /\ d[D] = a[D] + b[D]
  BY <1>1, <1>2, <1>3, <1>5, AddsUp
<1>8. c[D] \in Nat
  <2>1. \A i \in D : hold[i] \in Nat /\ nothing[i] \in Nat /\ hold[i] = hold[i] + nothing[i]
    BY <1>1
  <2> QED
    BY <1>4, <1>6, <2>1, AddsUp
<1> QED
  BY <1>2, <1>3, <1>4, <1>5, <1>7, <1>8

\* So the totals are what the glossary says, of lines whose totals they are.
LEMMA TotalsMatch ==
  ASSUME IsFiniteSet(DOMAIN lines), \A i \in DOMAIN lines : lines[i] \in Cost,
         NEW fee \in Fee, NEW discount \in Discount,
         order = Money!Totals(lines, fee, discount)
  PROVE  TotalsMatchLines
<1> DEFINE sub == SubtotalOf(lines)
           dep == DepositOf(lines)
           held == HoldOf(lines)
           due == sub + dep + fee - discount
           upfront == IF due < 0 THEN 0 ELSE due
           left == upfront - held
<1>1. sub \in Nat /\ dep \in Nat /\ held \in Nat /\ BothOf(lines) = sub + dep
  BY SumsOfLines
<1>2. /\ order.subtotal = sub /\ order.depositTotal = dep /\ order.bookingHoldTotal = held
      /\ order.deliveryFeeTotal = fee /\ order.discountTotal = discount
      /\ order.upfrontTotal = upfront /\ order.handoverDueTotal = IF left < 0 THEN 0 ELSE left
  BY TotalsAre
<1>3. fee \in Nat /\ discount \in Nat
  BY BackOfficeAssumption
<1> DEFINE dueNow == BothOf(lines) + order.deliveryFeeTotal - order.discountTotal
<1>4. /\ dueNow >= 0 => order.upfrontTotal = dueNow
      /\ dueNow >= held => order.handoverDueTotal = dueNow - held
      /\ order.upfrontTotal >= order.handoverDueTotal /\ order.handoverDueTotal >= 0
  <2> HIDE DEF sub, dep, held
  <2> QED
    BY <1>1, <1>2, <1>3
<1> HIDE DEF due, upfront, left
<1> QED
  BY <1>2, <1>4
  DEF TotalsMatchLines, Money!TotalsMatchLines, SubtotalOf, DepositOf, HoldOf, BothOf

-----------------------------------------------------------------------------
(* Money: the totals of an order are those of its lines.                    *)

\* Totals are numbers.
LEMMA TotalsExist ==
  ASSUME NEW l, DOMAIN l \subseteq Line, \A i \in DOMAIN l : l[i] \in Cost,
         NEW fee \in Fee, NEW discount \in Discount
  PROVE  Money!Totals(l, fee, discount) # None
<1>1. IsFiniteSet(DOMAIN l)
  BY BackOfficeAssumption, FS_Subset
<1>2. SubtotalOf(l) \in Nat /\ DepositOf(l) \in Nat /\ HoldOf(l) \in Nat
  BY <1>1, SumsOfLines
<1>3. fee \in Nat /\ discount \in Nat
  BY BackOfficeAssumption
<1> DEFINE due == SubtotalOf(l) + DepositOf(l) + fee - discount
           upfront == IF due < 0 THEN 0 ELSE due
           left == upfront - HoldOf(l)
           rest == IF left < 0 THEN 0 ELSE left
<1>4. upfront \in Int /\ rest \in Int
  BY <1>2, <1>3
<1>5. Money!Totals(l, fee, discount) =
        [subtotal |-> SubtotalOf(l), depositTotal |-> DepositOf(l),
         bookingHoldTotal |-> HoldOf(l), deliveryFeeTotal |-> fee,
         discountTotal |-> discount, upfrontTotal |-> upfront, handoverDueTotal |-> rest]
  BY TotalsAre
<1> HIDE DEF upfront, rest
<1>6. Money!Totals(l, fee, discount) \in
        [subtotal : Int, depositTotal : Int, bookingHoldTotal : Int, deliveryFeeTotal : Int,
         discountTotal : Int, upfrontTotal : Int, handoverDueTotal : Int]
  BY <1>2, <1>3, <1>4, <1>5
<1> QED
  BY <1>6, BackOfficeAssumption

\* Totals of lines, of whatever fee and discount.
OfLines(totals, l) ==
  \E fee \in Fee, discount \in Discount : totals = Money!Totals(l, fee, discount)

\* Whoever will write has totals of the lines it will write.  Unless others have
\* replaced the items since its read or its deletion, no line is there besides.
CallAgrees(r) ==
  /\ pc[r] # "idle" =>
       /\ order # None /\ OfLines(pricing[r].totals, pricing[r].priced)
       /\ pricing[r].priced = [i \in DOMAIN pricing[r].priced |-> pricing[r].priced[i]]
  /\ pc[r] \in {"deleting", "commit.replace"} /\ ~pricing[r].late =>
       DOMAIN lines \subseteq pricing[r].seen
  /\ pc[r] \in {"lines", "commit.keep"} /\ ~pricing[r].late =>
       DOMAIN lines = DOMAIN pricing[r].priced
  /\ pc[r] = "commit.keep" => DOMAIN pricing[r].priced \subseteq DOMAIN lines

MoneyLabel == {"idle", "delete", "deleting", "lines", "commit.replace", "commit.keep"}

MoneyAgrees ==
  IF part = "totals"
  THEN /\ pc \in [Request -> MoneyLabel]
       /\ order # None /\ ~overlapped => OfLines(order, lines)
       /\ \A r \in Request : CallAgrees(r)
       /\ \A q, r \in Money!Writing : q = r
  ELSE order = None

LEMMA MoneyAgreesInit == BackOfficeInit => MoneyAgrees
  BY DEF BackOfficeInit, Money!Init, MoneyAgrees, MoneyLabel, CallAgrees, Money!Writing

\* A request goes on, and nothing of the order changes.
LEMMA MoneyGoes ==
  ASSUME part = "totals", part' = part, MoneyAgrees, NEW r \in Request, NEW to \in MoneyLabel,
         pc' = [pc EXCEPT ![r] = to], UNCHANGED <<lines, order, overlapped>>,
         \A q \in Request \ {r} : pricing'[q] = pricing[q],
         CallAgrees(r)', to \in {"commit.replace", "commit.keep"} => Money!Writing = {}
  PROVE  MoneyAgrees'
<1>1. /\ pc \in [Request -> MoneyLabel]
      /\ order # None /\ ~overlapped => OfLines(order, lines)
      /\ \A q \in Request : CallAgrees(q)
      /\ \A p, q \in Money!Writing : p = q
  BY DEF MoneyAgrees
<1>2. pc' \in [Request -> MoneyLabel] /\ \A q \in Request : pc'[q] = IF q = r THEN to ELSE pc[q]
  BY <1>1
<1>3. (order # None /\ ~overlapped => OfLines(order, lines))'
  BY <1>1 DEF OfLines
<1>4. \A q \in Request : CallAgrees(q)'
  BY <1>1, <1>2 DEF CallAgrees, OfLines
<1>5. \A p, q \in Money!Writing' : p = q
  BY <1>1, <1>2 DEF Money!Writing
<1> QED
  BY <1>2, <1>3, <1>4, <1>5 DEF MoneyAgrees

LEMMA MoneyCommits ==
  ASSUME part = "totals", part' = part, MoneyInv, MoneyAgrees, NEW r \in Request,
         Money!CommitReplace(r) \/ Money!CommitKeep(r)
  PROVE  MoneyAgrees'
<1>1. /\ pc \in [Request -> MoneyLabel]
      /\ \A q \in Request : CallAgrees(q) /\ Pricing(pricing[q])
      /\ \A p, q \in Money!Writing : p = q
  BY DEF MoneyAgrees, MoneyInv
<1> DEFINE mine == pricing[r].priced
<1>2. /\ r \in Money!Writing
      /\ pc' = [pc EXCEPT ![r] = "idle"]
      /\ order' = pricing[r].totals /\ overlapped' = pricing[r].late
  BY DEF Money!CommitReplace, Money!CommitKeep, Money!Goto, Money!Writing
<1>3. /\ pc' \in [Request -> MoneyLabel]
      /\ \A q \in Request : pc'[q] = IF q = r THEN "idle" ELSE pc[q]
  BY <1>1, <1>2 DEF MoneyLabel
<1>4. /\ OfLines(order', mine) /\ order' # None
      /\ mine = [i \in DOMAIN mine |-> mine[i]]
  <2>1. OfLines(pricing[r].totals, mine) /\ mine = [i \in DOMAIN mine |-> mine[i]]
    BY <1>1, <1>2 DEF CallAgrees, Money!Writing
  <2>2. DOMAIN mine \subseteq Line /\ \A i \in DOMAIN mine : mine[i] \in Cost
    BY <1>1 DEF Pricing
  <2> QED
    BY <1>2, <2>1, <2>2, TotalsExist DEF OfLines
<1>5. ASSUME ~overlapped' PROVE lines' = mine
  <2> SUFFICES \E S : S \subseteq DOMAIN mine /\ lines' = Money!Joined(r, S)
    BY <1>4 DEF Money!Joined
  <2>1. CASE Money!CommitReplace(r)
    BY <1>1, <1>2, <1>5, <2>1 DEF Money!CommitReplace, Money!Goto, CallAgrees
  <2>2. CASE Money!CommitKeep(r)
    BY <1>1, <1>2, <1>5, <2>2 DEF Money!CommitKeep, Money!Goto, CallAgrees
  <2> QED
    BY <2>1, <2>2
<1>6. ASSUME NEW q \in Request PROVE CallAgrees(q)'
  <2>1. CASE q = r
    BY <1>3, <2>1 DEF CallAgrees
  <2>2. CASE q # r
    <3>1. q \notin Money!Writing /\ pc'[q] = pc[q] /\ pc[q] \in MoneyLabel
      BY <1>1, <1>2, <1>3, <2>2
    <3>2. pc[q] # "idle" =>
            /\ OfLines(pricing[q].totals, pricing[q].priced)
            /\ pricing[q].priced = [i \in DOMAIN pricing[q].priced |-> pricing[q].priced[i]]
      BY <1>1 DEF CallAgrees
    <3>3. CASE Money!CommitReplace(r)
      <4>1. pricing'[q] = IF pc[q] \in {"deleting", "lines"}
                          THEN [pricing[q] EXCEPT !.late = TRUE] ELSE pricing[q]
        BY <2>2, <3>3 DEF Money!CommitReplace
      <4>2. /\ pricing'[q].totals = pricing[q].totals /\ pricing'[q].priced = pricing[q].priced
            /\ pc[q] \in {"deleting", "lines"} => pricing'[q].late
        BY <1>1, <4>1 DEF Pricing
      <4> QED
        BY <1>4, <3>1, <3>2, <4>2 DEF CallAgrees, OfLines, Money!Writing
    <3>4. CASE Money!CommitKeep(r)
      <4>1. pricing'[q] = pricing[q]
        BY <2>2, <3>4 DEF Money!CommitKeep, Money!Forget, MoneyInv
      <4>2. DOMAIN lines' = DOMAIN lines
        BY <1>1, <3>4 DEF Money!CommitKeep, Money!Joined, Money!Goto, CallAgrees
      <4> QED
        BY <1>1, <1>4, <3>1, <3>2, <4>1, <4>2 DEF CallAgrees, OfLines
    <3> QED
      BY <3>3, <3>4
  <2> QED
    BY <2>1, <2>2
<1>7. \A p, q \in Money!Writing' : p = q
  BY <1>1, <1>3 DEF Money!Writing
<1>8. (order # None /\ ~overlapped => OfLines(order, lines))'
  BY <1>4, <1>5 DEF OfLines
<1> QED
  BY <1>3, <1>6, <1>7, <1>8 DEF MoneyAgrees

LEMMA MoneyAgreesNext ==
  ASSUME part = "totals", part' = part, MoneyInv, MoneyAgrees, Money!Next
  PROVE  MoneyAgrees'
<1>1. PICK r \in Request :
          \/ Money!Create(r) \/ Money!PriceNewItems(r) \/ Money!PriceOldItems(r)
          \/ Money!DeleteBegin(r) \/ Money!Replace(r) \/ Money!UpdateLines(r)
          \/ Money!CommitReplace(r) \/ Money!CommitKeep(r) \/ Money!Abort(r)
  BY DEF Money!Next
<1>2. /\ pc \in [Request -> MoneyLabel]
      /\ \A q \in Request : CallAgrees(q) /\ Pricing(pricing[q])
      /\ pricing = [q \in Request |-> pricing[q]]
      /\ \A p, q \in Money!Writing : p = q
  BY DEF MoneyAgrees, MoneyInv
\* A request that gets the right to write or gives up.
<1>3. ASSUME NEW to \in MoneyLabel, NEW priced, NEW fee \in Fee, NEW discount \in Discount,
             to \in {"delete", "lines"}, order # None,
             priced = [i \in DOMAIN priced |-> priced[i]],
             to = "lines" => DOMAIN priced = DOMAIN lines,
             pc' = [pc EXCEPT ![r] = to], UNCHANGED <<lines, order, overlapped>>,
             Money!Prepare(r, priced, Money!Totals(priced, fee, discount))
      PROVE  MoneyAgrees'
  <2>1. /\ \A q \in Request \ {r} : pricing'[q] = pricing[q]
        /\ pricing'[r] = [priced |-> priced, totals |-> Money!Totals(priced, fee, discount),
                          seen |-> {}, late |-> FALSE]
    BY <1>2, <1>3 DEF Money!Prepare
  <2>2. pc'[r] = to
    BY <1>2, <1>3
  <2>3. CallAgrees(r)'
    BY <1>3, <2>1, <2>2 DEF CallAgrees, OfLines
  <2> QED
    BY <1>3, <2>1, <2>3, MoneyGoes
<1>4. ASSUME pc' = [pc EXCEPT ![r] = "idle"], Money!Forget(r), UNCHANGED <<lines, order, overlapped>>
      PROVE  MoneyAgrees'
  <2>1. /\ \A q \in Request \ {r} : pricing'[q] = pricing[q]
        /\ pc'[r] = "idle" /\ "idle" \in MoneyLabel
    BY <1>2, <1>4 DEF Money!Forget, MoneyLabel
  <2>2. CallAgrees(r)'
    BY <2>1 DEF CallAgrees
  <2> QED
    BY <1>4, <2>1, <2>2, MoneyGoes
<1>5. CASE Money!Create(r)
  <2>1. PICK n \in 1 .. 2 : \E priced \in [Money!NewLines(n) -> Cost], fee \in Fee,
             discount \in Discount :
               lines' = priced /\ order' = Money!Totals(priced, fee, discount)
    BY <1>5 DEF Money!Create
  <2>2. OfLines(order', lines')
    BY <2>1 DEF OfLines
  <2>3. order = None /\ UNCHANGED <<pc, pricing, overlapped>>
    BY <1>5 DEF Money!Create
  <2>4. \A q \in Request : pc[q] = "idle"
    BY <1>2, <2>3 DEF CallAgrees
  <2> QED
    BY <1>2, <2>2, <2>3, <2>4 DEF MoneyAgrees, CallAgrees, OfLines, Money!Writing
<1>6. CASE Money!PriceNewItems(r)
  <2>0. PICK n \in 1 .. 2 : \E priced \in [Money!NewLines(n) -> Cost], fee \in Fee,
             discount \in Discount :
               Money!Prepare(r, priced, Money!Totals(priced, fee, discount))
    BY <1>6 DEF Money!PriceNewItems
  <2>1. PICK priced \in [Money!NewLines(n) -> Cost], fee \in Fee, discount \in Discount :
               Money!Prepare(r, priced, Money!Totals(priced, fee, discount))
    BY <2>0
  <2>2. /\ order # None /\ pc' = [pc EXCEPT ![r] = "delete"]
        /\ UNCHANGED <<lines, order, overlapped>>
    BY <1>6 DEF Money!PriceNewItems, Money!Goto
  <2>3. "delete" \in MoneyLabel /\ priced = [i \in DOMAIN priced |-> priced[i]]
    BY DEF MoneyLabel
  <2> QED
    BY <1>3, <2>1, <2>2, <2>3
<1>7. CASE Money!PriceOldItems(r)
  <2>1. PICK priced \in [DOMAIN lines -> Cost], fee \in Fee, discount \in Discount :
               Money!Prepare(r, priced, Money!Totals(priced, fee, discount))
    BY <1>7 DEF Money!PriceOldItems
  <2>2. /\ order # None /\ pc' = [pc EXCEPT ![r] = "lines"]
        /\ UNCHANGED <<lines, order, overlapped>>
    BY <1>7 DEF Money!PriceOldItems, Money!Goto
  <2>3. /\ "lines" \in MoneyLabel /\ priced = [i \in DOMAIN priced |-> priced[i]]
        /\ DOMAIN priced = DOMAIN lines
    BY DEF MoneyLabel
  <2> QED
    BY <1>3, <2>1, <2>2, <2>3
<1>8. CASE Money!DeleteBegin(r)
  <2>1. /\ pc[r] = "delete" /\ pc' = [pc EXCEPT ![r] = "deleting"]
        /\ pricing' = [pricing EXCEPT ![r].seen = DOMAIN lines]
        /\ UNCHANGED <<lines, order, overlapped>> /\ "deleting" \in MoneyLabel
    BY <1>8 DEF Money!DeleteBegin, Money!Goto, MoneyLabel
  <2>2. /\ \A q \in Request \ {r} : pricing'[q] = pricing[q]
        /\ pricing'[r] = [pricing[r] EXCEPT !.seen = DOMAIN lines]
        /\ pc'[r] = "deleting"
    BY <1>2, <2>1
  <2>3. /\ pricing'[r].priced = pricing[r].priced /\ pricing'[r].totals = pricing[r].totals
        /\ pricing'[r].seen = DOMAIN lines
    BY <1>2, <2>2 DEF Pricing
  <2>4. CallAgrees(r)'
    BY <1>2, <2>1, <2>2, <2>3 DEF CallAgrees, OfLines
  <2> QED
    BY <2>1, <2>2, <2>4, MoneyGoes
<1>9. CASE Money!Replace(r)
  <2>1. /\ pc[r] = "deleting" /\ pc' = [pc EXCEPT ![r] = "commit.replace"]
        /\ Money!Writing = {} /\ UNCHANGED <<lines, order, pricing, overlapped>>
        /\ "commit.replace" \in MoneyLabel
    BY <1>9 DEF Money!Replace, Money!Goto, MoneyLabel
  <2>2. CallAgrees(r)'
    BY <1>2, <2>1 DEF CallAgrees, OfLines
  <2> QED
    BY <2>1, <2>2, MoneyGoes
<1>10. CASE Money!UpdateLines(r)
  <2>1. CASE DOMAIN pricing[r].priced \subseteq DOMAIN lines
    <3>1. /\ pc[r] = "lines" /\ pc' = [pc EXCEPT ![r] = "commit.keep"]
          /\ Money!Writing = {} /\ UNCHANGED <<lines, order, pricing, overlapped>>
          /\ "commit.keep" \in MoneyLabel
      BY <1>10, <2>1 DEF Money!UpdateLines, MoneyLabel
    <3>2. CallAgrees(r)'
      BY <1>2, <2>1, <3>1 DEF CallAgrees, OfLines
    <3> QED
      BY <3>1, <3>2, MoneyGoes
  <2>2. CASE ~(DOMAIN pricing[r].priced \subseteq DOMAIN lines)
    BY <1>4, <1>10, <2>2 DEF Money!UpdateLines
  <2> QED
    BY <2>1, <2>2
<1>11. CASE Money!Abort(r)
  BY <1>4, <1>11 DEF Money!Abort
<1> QED
  BY <1>1, <1>5, <1>6, <1>7, <1>8, <1>9, <1>10, <1>11, MoneyCommits

LEMMA MoneyAgreesRest ==
  ASSUME MoneyAgrees, UNCHANGED <<part, money>>, part = "totals" => UNCHANGED pc
  PROVE  MoneyAgrees'
<1>1. UNCHANGED <<part, lines, order, pricing, overlapped>>
  BY DEF money
<1> QED
  BY <1>1 DEF MoneyAgrees, CallAgrees, OfLines, Money!Writing

LEMMA AgreeingMatches == MoneyInv /\ MoneyAgrees => TotalsMatchLines
<1> SUFFICES ASSUME MoneyInv, MoneyAgrees, order # None, ~overlapped PROVE TotalsMatchLines
  BY DEF TotalsMatchLines, Money!TotalsMatchLines
<1>1. IsFiniteSet(DOMAIN lines) /\ \A i \in DOMAIN lines : lines[i] \in Cost
  BY BackOfficeAssumption, FS_Subset DEF MoneyInv
<1>2. PICK fee \in Fee, discount \in Discount : order = Money!Totals(lines, fee, discount)
  BY DEF MoneyAgrees, OfLines
<1> QED
  BY <1>1, <1>2, TotalsMatch

-----------------------------------------------------------------------------
(* The parts together: each keeps its invariant, and rests while another    *)
(* moves.                                                                  *)

ResetsSafe   == ResetsInv /\ TokenInForceExists
ThrottleSafe == ThrottleInv /\ CountersExpire
MoneySafe    == MoneyInv /\ MoneyAgrees

BackOfficeInv ==
  /\ part \in Part
  /\ RolesInv /\ ResetsSafe /\ ThrottleSafe /\ WeekInv /\ MoneySafe

LEMMA BackOfficeInitInv == BackOfficeInit => BackOfficeInv
  BY RolesInit, ResetsInit, ThrottleInit, WeekInit, MoneyInit, MoneyAgreesInit
     DEF BackOfficeInit, BackOfficeInv, ResetsSafe, ThrottleSafe, MoneySafe

LEMMA ResetsRest ==
  ASSUME ResetsSafe, UNCHANGED <<part, tokens>>, part = "resets" => UNCHANGED <<now, pc>>
  PROVE  ResetsSafe'
<1>1. UNCHANGED <<part, tokenKey, userKey, mailed, password, deletedUser, resetReq>>
  BY DEF tokens
<1>2. TokenInForceExists'
  BY <1>1 DEF ResetsSafe, TokenInForceExists, Resets!TokenInForceExists, Resets!InForce
<1>3. ResetsInv'
  BY <1>1 DEF ResetsSafe, ResetsInv, ResetKnows, Resets!TypeOK, Resets!InForce
<1> QED
  BY <1>2, <1>3 DEF ResetsSafe

LEMMA ThrottleRest ==
  ASSUME ThrottleSafe, UNCHANGED <<part, counts>>,
         part = "throttle" => UNCHANGED <<now, pc>>
  PROVE  ThrottleSafe'
  BY DEF ThrottleSafe, ThrottleInv, CountersExpire, Throttle!CountersExpire,
         Throttle!TypeOK, counts

LEMMA WeekRest ==
  ASSUME WeekInv, UNCHANGED <<part, hours>>, part = "hours" => UNCHANGED pc
  PROVE  WeekInv'
<1>1. UNCHANGED <<part, week, items, pending, update, updates>>
  BY DEF hours
<1> QED
  BY <1>1 DEF WeekInv, WeekTypes, WeekIsWhole, HoursOf, Week!NoDays

LEMMA MoneyRest ==
  ASSUME MoneySafe, UNCHANGED <<part, money>>, part = "totals" => UNCHANGED pc
  PROVE  MoneySafe'
<1>1. MoneyInv'
  BY DEF MoneySafe, MoneyInv, Pricing, money
<1> QED
  BY <1>1, MoneyAgreesRest DEF MoneySafe

LEMMA BackOfficeStep ==
  ASSUME BackOfficeInv, [BackOfficeNext]_backOffice PROVE BackOfficeInv'
<1> USE DEF BackOfficeInv
<1>1. CASE part = "roles" /\ Next /\ UNCHANGED <<part, now, pc, tokens, counts, hours, money>>
  BY <1>1, RolesNext, ResetsRest, ThrottleRest, WeekRest, MoneyRest
<1>2. CASE part = "resets" /\ Resets!Next /\ UNCHANGED <<part, grants, counts, hours, money>>
  <2>1. ResetsSafe'
    BY <1>2, ResetsNext DEF ResetsSafe
  <2> QED
    BY <1>2, <2>1, RolesStutter, ThrottleRest, WeekRest, MoneyRest
<1>3. CASE part = "throttle" /\ Throttle!Next /\ UNCHANGED <<part, grants, tokens, hours, money>>
  <2>1. ThrottleSafe'
    BY <1>3, ThrottleNext DEF ThrottleSafe
  <2> QED
    BY <1>3, <2>1, RolesStutter, ResetsRest, WeekRest, MoneyRest
<1>4. CASE part = "hours" /\ Week!Next /\ UNCHANGED <<part, now, grants, tokens, counts, money>>
  BY <1>4, WeekNext, RolesStutter, ResetsRest, ThrottleRest, MoneyRest
<1>5. CASE part = "totals" /\ Money!Next /\ UNCHANGED <<part, now, grants, tokens, counts, hours>>
  <2>1. MoneySafe'
    BY <1>5, MoneyNext, MoneyAgreesNext DEF MoneySafe
  <2> QED
    BY <1>5, <2>1, RolesStutter, ResetsRest, ThrottleRest, WeekRest
<1>6. CASE UNCHANGED backOffice
  BY <1>6, RolesStutter, ResetsRest, ThrottleRest, WeekRest, MoneyRest DEF backOffice
<1> QED
  BY <1>1, <1>2, <1>3, <1>4, <1>5, <1>6 DEF BackOfficeNext, Rest

LEMMA BackOfficeInvTypes == BackOfficeInv => TypesOK
<1> SUFFICES ASSUME BackOfficeInv PROVE TypesOK
  OBVIOUS
<1>1. Week!TypeOK
  <2>1. CASE part = "hours"
    <3>1. WeekTypes /\ WeekIsWhole /\ \A r \in Request : HoursOf(r)
      BY <2>1 DEF BackOfficeInv, WeekInv
    <3>2. \A d \in Day : week[d] # None => week[d].by \in Nat /\ week[d].by <= updates
      BY <3>1 DEF WeekTypes, WeekIsWhole, WeekRow
    <3>3. ASSUME NEW r \in Request, pc[r] # "update" PROVE ~(update[r] > 0)
      <4>1. pc[r] \in {"idle", "update", "ensure", "seed"}
        BY <3>1 DEF WeekTypes
      <4>2. update[r] = 0
        BY <3>1, <3>3, <4>1 DEF HoursOf
      <4> QED
        BY <4>2
    <3> QED
      BY <3>1, <3>2, <3>3 DEF WeekTypes, Week!TypeOK
  <2>2. CASE part # "hours"
    BY <2>2, BackOfficeAssumption DEF BackOfficeInv, WeekInv, Week!TypeOK, Week!NoDays
  <2> QED
    BY <2>1, <2>2
<1>2. Money!TypeOK
  BY DEF BackOfficeInv, MoneySafe, MoneyInv, Pricing, Money!TypeOK
<1> QED
  BY <1>1, <1>2 DEF BackOfficeInv, RolesInv, ResetsSafe, ResetsInv, ThrottleSafe,
                    ThrottleInv, TypesOK

LEMMA BackOfficeInvariant == BackOfficeSpec => []BackOfficeInv
<1>1. BackOfficeInit => BackOfficeInv
  BY BackOfficeInitInv
<1>2. BackOfficeInv /\ [BackOfficeNext]_backOffice => BackOfficeInv'
  BY BackOfficeStep
<1> QED
  BY <1>1, <1>2, PTL DEF BackOfficeSpec

\* The handlers of roles, reset tokens, login counters, opening hours and order
\* totals keep the types of what they store, for any number of calls at once.
THEOREM TypesCorrect == BackOfficeSpec => []TypesOK
  BY BackOfficeInvariant, BackOfficeInvTypes, PTL

\* A client of roles.service.ts that is wrong about its user's permissions hears
\* of it, whatever calls and failures interleave, but for deleted roles.
THEOREM StaleClientsHear == BackOfficeSpec => []StaleClientsWillHear
<1>1. BackOfficeInv => StaleClientsWillHear
  BY RolesInvHeard DEF BackOfficeInv
<1> QED
  BY <1>1, BackOfficeInvariant, PTL

\* The commit of updateRole leaves the role with the permissions of its call.
THEOREM UpdatesReplace == BackOfficeSpec => UpdateReplacesPermissions
<1> DEFINE Replaces == \A r \in Request : call[r].op = "updateRole" /\ Commit(r) =>
                         rows' \cap ({call[r].role} \X Perm) = Wanted(call[r])
<1>1. BackOfficeInv => [Replaces]_vars
  BY RolesReplace DEF BackOfficeInv
<1> QED
  BY <1>1, BackOfficeInvariant, PTL DEF UpdateReplacesPermissions

\* The token of the last mail to a user has its key, until it is used, expires,
\* or a request fails between two writes (auth.service.ts).
THEOREM TokenExists == BackOfficeSpec => []TokenInForceExists
<1>1. BackOfficeInv => TokenInForceExists
  BY DEF BackOfficeInv, ResetsSafe
<1> QED
  BY <1>1, BackOfficeInvariant, PTL

\* A reset link that stopped working never works again.
THEOREM LinksStayDead == BackOfficeSpec => DeadLinksStayDead
<1> DEFINE Dead == \A t \in mailed : ~Resets!Valid(t) => ~Resets!Valid(t)'
<1>1. BackOfficeInv /\ [BackOfficeNext]_backOffice => [Dead]_(Resets!vars)
  <2> SUFFICES ASSUME BackOfficeInv, [BackOfficeNext]_backOffice PROVE [Dead]_(Resets!vars)
    OBVIOUS
  <2>1. CASE part = "resets" /\ Resets!Next /\ part' = part
    BY <2>1, ResetsNext DEF BackOfficeInv, ResetsSafe
  <2>2. CASE UNCHANGED tokens
    BY <2>2 DEF tokens, Resets!Valid, Resets!InForce
  <2> QED
    BY <2>1, <2>2 DEF BackOfficeNext, Rest, backOffice
<1> QED
  BY <1>1, BackOfficeInvariant, PTL
     DEF BackOfficeSpec, DeadLinksStayDead, Resets!DeadLinksStayDead

\* Every login counter has its time to live, or a request that owes it one.
THEOREM CountersAllExpire == BackOfficeSpec => []CountersExpire
<1>1. BackOfficeInv => CountersExpire
  BY DEF BackOfficeInv, ThrottleSafe
<1> QED
  BY <1>1, BackOfficeInvariant, PTL

\* Once an administrator saved the week, all its rows are there and of one save,
\* whatever readers and seeders add meanwhile.
THEOREM WeekStaysUsable == BackOfficeSpec => []WeekIsUsable
<1>1. BackOfficeInv => WeekIsUsable
  BY WeekInvUsable DEF BackOfficeInv
<1> QED
  BY <1>1, BackOfficeInvariant, PTL

\* What a customer is asked to pay is what the lines of the order say: the totals
\* updateRentalOrder writes are sums over the lines it leaves, however many calls
\* replace or reprice them at once, but for overlapping replacements.
THEOREM TotalsFollowLines == BackOfficeSpec => []TotalsMatchLines
<1>1. BackOfficeInv => TotalsMatchLines
  BY AgreeingMatches DEF BackOfficeInv, MoneySafe
<1> QED
  BY <1>1, BackOfficeInvariant, PTL
=============================================================================
