---------------------------- MODULE LoginThrottle ----------------------------
(***************************************************************************)
(* The Redis counters of AuthService for one account: wrong passwords per  *)
(* user and per e-mail address, reset mails per e-mail address, and the    *)
(* temporary lock.  RedisService.incrWithTTL counts with INCR and, when    *)
(* the count is 1, sets the time to live with a second command.            *)
(*                                                                         *)
(* A step of a request is one round trip.  The counters of two accounts    *)
(* have nothing in common.                                                 *)
(***************************************************************************)
EXTENDS Integers

CONSTANTS
  Request,     \* HTTP requests that may run at the same time
  MaxFailures, \* AUTH_MAX_LOGIN_FAILURES
  Window,      \* LOGIN_ATTEMPT, RESET_PASSWORD_RATE_LIMIT, AUTH_LOCK, in seconds
  MaxNow,      \* bound: the clock stops here
  MaxCount     \* bound: counters stop here

VARIABLES
  now,    \* seconds
  count,  \* the counters: how many, and when the key expires
  lock,   \* when auth:lock:user:<uid> expires, 0 if there is none
  pc,     \* where each request stands
  result, \* what INCR returned for the user counter, 0 if it was not asked
  todo,   \* counters a request has still to give a time to live
  lost    \* counters whose request died before it did; no code reads it

vars == <<now, count, lock, pc, result, todo, lost>>

Counter == {"user", "email", "reset"}
Zero == [n |-> 0, expires |-> 0]  \* no key; expires = 0: no time to live

Label == {"idle", "compare", "expire", "lock"}

TypeOK ==
  /\ now \in Nat
  /\ count \in [Counter -> [n : Nat, expires : Nat]]
  /\ lock \in Nat
  /\ pc \in [Request -> Label]
  /\ result \in [Request -> Nat]
  /\ todo \in [Request -> SUBSET Counter] /\ lost \subseteq Counter
  /\ \A r \in Request : pc[r] = "expire" <=> todo[r] # {}

Init ==
  /\ now = 0
  /\ count = [c \in Counter |-> Zero]
  /\ lock = 0
  /\ pc = [r \in Request |-> "idle"]
  /\ result = [r \in Request |-> 0]
  /\ todo = [r \in Request |-> {}] /\ lost = {}

Forget(r) == /\ pc' = [pc EXCEPT ![r] = "idle"]
             /\ result' = [result EXCEPT ![r] = 0]
             /\ todo' = [todo EXCEPT ![r] = {}]

\* Where a request goes when no counter waits for its time to live: n is its
\* count of failures, and only the request that counts the limit locks.
AfterIncr(n) == IF n = MaxFailures THEN "lock" ELSE "idle"

\* INCR of the counters S in one turn; those in first now have count 1, and
\* their EXPIRE is awaited.
IncrWith(r, S, first, awaited) ==
  LET n == IF "user" \in S THEN count["user"].n + 1 ELSE 0
  IN /\ \A c \in S : count[c].n < MaxCount
     /\ count' = [c \in Counter |-> IF c \in S THEN [count[c] EXCEPT !.n = @ + 1]
                                               ELSE count[c]]
     /\ result' = [result EXCEPT ![r] = n]
     /\ todo' = [todo EXCEPT ![r] = first]
     /\ pc' = [pc EXCEPT ![r] = IF first # {} /\ awaited THEN "expire"
                                                         ELSE AfterIncr(n)]

\* Mutants: the time to live is set on the second failure; EXPIRE is sent and
\* not awaited.
IncrLate(r, S)       == IncrWith(r, S, {c \in S : count[c].n = 1}, TRUE)
IncrNotAwaited(r, S) == IncrWith(r, S, {c \in S : count[c].n = 0}, FALSE)

\* incrWithTTL
Incr(r, S) == IncrWith(r, S, {c \in S : count[c].n = 0}, TRUE)

-----------------------------------------------------------------------------
\* login: the account is there and not locked; bcrypt compares.
LockCheck(r) ==
  /\ pc[r] = "idle" /\ lock = 0
  /\ pc' = [pc EXCEPT ![r] = "compare"]
  /\ UNCHANGED <<now, count, lock, result, todo, lost>>

\* recordUserLoginFailure
WrongPassword(r) ==
  /\ pc[r] = "compare"
  /\ Incr(r, {"user", "email"})
  /\ UNCHANGED <<now, lock, lost>>

\* clearLoginFailureCounters
RightPassword(r) ==
  /\ pc[r] = "compare"
  /\ count' = [count EXCEPT !["user"] = Zero, !["email"] = Zero]
  /\ lost' = lost \ {"user", "email"}
  /\ Forget(r)
  /\ UNCHANGED <<now, lock>>

\* recordUnknownLoginFailure: no account goes by this address.
UnknownUser(r) ==
  /\ pc[r] = "idle"
  /\ Incr(r, {"email"})
  /\ UNCHANGED <<now, lock, lost>>

\* checkPasswordResetRateLimit
ForgotPassword(r) ==
  /\ pc[r] = "idle"
  /\ Incr(r, {"reset"})
  /\ UNCHANGED <<now, lock, lost>>

\* EXPIRE; a key that is gone by now is left alone.
Expire(r) ==
  \E c \in todo[r] :
    /\ count' = [count EXCEPT ![c].expires = IF count[c].n = 0 THEN 0
                                             ELSE now + Window]
    /\ todo' = [todo EXCEPT ![r] = @ \ {c}]
    /\ pc' = [pc EXCEPT ![r] = IF todo'[r] # {} THEN "expire"
                               ELSE AfterIncr(result[r])]
    /\ UNCHANGED <<now, lock, result, lost>>

SetLock(r) ==
  /\ pc[r] = "lock"
  /\ lock' = now + Window
  /\ Forget(r)
  /\ UNCHANGED <<now, count, lost>>

-----------------------------------------------------------------------------
\* A second passes; Redis drops the keys whose time has come.
Tick ==
  /\ now < MaxNow
  /\ now' = now + 1
  /\ count' = [c \in Counter |->
                 IF count[c].expires # 0 /\ count[c].expires <= now'
                 THEN Zero ELSE count[c]]
  /\ lock' = IF lock <= now' THEN 0 ELSE lock
  /\ UNCHANGED <<pc, result, todo, lost>>

\* The process or its connection dies under a request, at any await.
Abort(r) == /\ pc[r] # "idle"
            /\ lost' = lost \cup todo[r]
            /\ Forget(r)
            /\ UNCHANGED <<now, count, lock>>

Next == \/ \E r \in Request :
             \/ LockCheck(r) \/ WrongPassword(r) \/ RightPassword(r)
             \/ UnknownUser(r) \/ ForgotPassword(r)
             \/ Expire(r) \/ SetLock(r) \/ Abort(r)
        \/ Tick

Spec == Init /\ [][Next]_vars

-----------------------------------------------------------------------------
(* Properties.                                                             *)

\* A counter without a time to live is about to get one, unless a request died
\* between its INCR and its EXPIRE: whatever increments, clears and expiry do to
\* one another, only such a crash leaves a counter that counts for ever and
\* throttles an account for good.
CountersExpire ==
  \A c \in Counter : count[c].n > 0 /\ count[c].expires = 0 =>
    c \in lost \/ \E r \in Request : c \in todo[r]
=============================================================================
