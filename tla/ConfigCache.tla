----------------------------- MODULE ConfigCache -----------------------------
(***************************************************************************)
(* The cached settings: the default rental policy and the seven days of    *)
(* opening hours, read through Redis (RedisService.getOrSetJson) and       *)
(* updated in PostgreSQL with the copy deleted afterwards.  The opening    *)
(* hours are created on the first read of an empty table.                  *)
(*                                                                         *)
(* A step of a request is one round trip.  What a setting says decides     *)
(* nothing here: a value is a version.                                     *)
(***************************************************************************)
EXTENDS Integers

CONSTANTS
  Request,    \* HTTP requests that may run at the same time
  None,       \* no copy in Redis
  MaxVersion, \* bound: updates stop at this version
  Faults      \* whether Redis commands may fail and requests may die

ASSUME CacheAssumption ==
  /\ None \notin Nat
  /\ None \notin [value : Nat, ttl : BOOLEAN]
  /\ MaxVersion \in Nat /\ Faults \in BOOLEAN

VARIABLES
  db,     \* version of the rows behind each key
  cache,  \* copy in Redis: its value, and whether it has a time to live
  pc,     \* where each request stands
  key,    \* the setting a request is about
  val     \* what its loader returned

stored == <<db, cache>>
vars   == <<db, cache, pc, key, val>>

Key == {"policy", "hours"}
Absent == 0   \* no row
Default == 1  \* defaultBusinessHours

Init ==
  /\ db \in [Key -> {Absent, Default}]
  /\ cache = [k \in Key |-> None]
  /\ pc = [r \in Request |-> "idle"]
  /\ key = [r \in Request |-> "policy"]
  /\ val = [r \in Request |-> Absent]

Goto(r, from, to) == pc[r] = from /\ pc' = [pc EXCEPT ![r] = to]

Finish(r) == /\ pc' = [pc EXCEPT ![r] = "idle"]
             /\ key' = [key EXCEPT ![r] = "policy"]
             /\ val' = [val EXCEPT ![r] = Absent]

\* deleteBestEffort: a failure is logged and forgotten.
Delete(k) == \/ cache' = [cache EXCEPT ![k] = None]
             \/ Faults /\ UNCHANGED cache

-----------------------------------------------------------------------------
(* getOrSetJson.  A hit returns the copy and changes nothing.              *)

\* A miss, or a GET that failed: on to the loader.
GetMiss(r) ==
  \E k \in Key :
    /\ cache[k] = None \/ Faults
    /\ Goto(r, "idle", IF k = "hours" THEN "count" ELSE "load")
    /\ key' = [key EXCEPT ![r] = k]
    /\ UNCHANGED <<stored, val>>

\* ensureDefaultBusinessHours: count, upsert what is missing, delete the copy.
Count(r) ==
  /\ Goto(r, "count", IF db["hours"] = Absent THEN "ensure" ELSE "load")
  /\ UNCHANGED <<stored, key, val>>

\* Mutant: the upsert also writes the defaults over rows that exist.
EnsureOverwriting(r) ==
  /\ Goto(r, "ensure", "ensured")
  /\ db' = [db EXCEPT !["hours"] = Default]
  /\ UNCHANGED <<cache, key, val>>

Ensure(r) ==
  /\ Goto(r, "ensure", "ensured")
  /\ db' = [db EXCEPT !["hours"] = IF @ = Absent THEN Default ELSE @]
  /\ UNCHANGED <<cache, key, val>>

EnsureDelete(r) ==
  /\ Goto(r, "ensured", "load")
  /\ Delete("hours")
  /\ UNCHANGED <<db, key, val>>

\* The loader's query.  A policy that does not exist is null, which is
\* returned and not stored; an empty week would be stored.
Load(r) ==
  /\ IF key[r] = "policy" /\ db["policy"] = Absent
     THEN pc[r] = "load" /\ Finish(r)
     ELSE /\ Goto(r, "load", "fill")
          /\ val' = [val EXCEPT ![r] = db[key[r]]]
          /\ UNCHANGED key
  /\ UNCHANGED stored

\* Mutant: the copy has no time to live.
FillForGood(r) ==
  /\ pc[r] = "fill"
  /\ \/ cache' = [cache EXCEPT ![key[r]] = [value |-> val[r], ttl |-> FALSE]]
     \/ Faults /\ UNCHANGED cache
  /\ Finish(r)
  /\ UNCHANGED db

Fill(r) ==
  /\ pc[r] = "fill"
  /\ \/ cache' = [cache EXCEPT ![key[r]] = [value |-> val[r], ttl |-> TRUE]]
     \/ Faults /\ UNCHANGED cache
  /\ Finish(r)
  /\ UNCHANGED db

-----------------------------------------------------------------------------
(* updateRentalPolicy, updateStoreBusinessHours: commit, then delete.      *)

Update(r) ==
  \E k \in Key :
    /\ Goto(r, "idle", "del")
    /\ db[k] < MaxVersion
    /\ db' = [db EXCEPT ![k] = IF @ = Absent THEN Default + 1 ELSE @ + 1]
    /\ key' = [key EXCEPT ![r] = k]
    /\ UNCHANGED <<cache, val>>

UpdateDelete(r) ==
  /\ pc[r] = "del"
  /\ Delete(key[r])
  /\ Finish(r)
  /\ UNCHANGED db

-----------------------------------------------------------------------------
\* Redis drops a copy whose time has come.
Expire(k) ==
  /\ cache[k] # None /\ cache[k].ttl
  /\ cache' = [cache EXCEPT ![k] = None]
  /\ UNCHANGED <<db, pc, key, val>>

\* The process dies, or PostgreSQL answers with an error.
Abort(r) ==
  /\ Faults /\ pc[r] # "idle"
  /\ Finish(r)
  /\ UNCHANGED stored

Continue(r) == \/ Count(r) \/ Ensure(r) \/ EnsureDelete(r) \/ Load(r)
               \/ Fill(r) \/ UpdateDelete(r)

Next == \/ \E r \in Request : GetMiss(r) \/ Update(r) \/ Continue(r) \/ Abort(r)
        \/ \E k \in Key : Expire(k)

Spec == Init /\ [][Next]_vars

\* Redis expires keys, and the event loop goes on with what it has begun.
FairSpec == /\ Spec
            /\ \A k \in Key : WF_vars(Expire(k))
            /\ \A r \in Request : WF_vars(Continue(r))

-----------------------------------------------------------------------------
(* Properties.                                                             *)

Fresh(k) == cache[k] = None \/ cache[k].value = db[k]

\* However an update, its delete and the fills in flight interleave or fail,
\* a stale copy does not stay: when the updates stop, so do stale answers.
SettlesFresh == \A k \in Key : <>[]Fresh(k)

\* Creating the default week never undoes a week somebody configured, also
\* when the update commits between the count and the upserts.
ConfiguredWeekStays == [][db["hours"] > Default => db'["hours"] > Default]_vars
=============================================================================
