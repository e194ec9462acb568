---------------------------- MODULE OpeningHours ----------------------------
(***************************************************************************)
(* The rows of the week: an administrator saves all days in one            *)
(* transaction, a reader of an incomplete table adds the missing days in    *)
(* another, the seeder adds them one by one without any.  And the check of  *)
(* a rental's times against the week.                                       *)
(*                                                                         *)
(* A step is one upsert.  An upsert keeps its row locked until its          *)
(* transaction ends; the days of an update come in the order of the list    *)
(* that was sent.  The copy of the week in Redis is in ConfigCache.         *)
(***************************************************************************)
EXTENDS Integers, Sequences, FiniteSets

CONSTANTS
  Request,   \* HTTP calls and seeders that may run at the same time
  None,      \* no row
  Day,       \* dayOfWeek
  Time,      \* minutes of a day, from the first to the last
  WeekLists,     \* lists of items a call may send
  MaxUpdates \* bound: updates that are begun

VARIABLES
  week,    \* the committed rows
  pc,      \* what each request is doing
  items,   \* the items it has still to write
  pending, \* what its transaction has written
  update,  \* the number of its update
  updates  \* how many were begun

vars == <<week, pc, items, pending, update, updates>>

Hours(d, open, close, isOpen) ==
  [dayOfWeek |-> d, openTime |-> open, closeTime |-> close, isOpen |-> isOpen]

\* by: the update that wrote the row, 0 for a default; no code reads it.
Row(item, n) == [item |-> item, by |-> n]

NoDays == [d \in Day |-> None]

Greatest == CHOOSE t \in Time : \A u \in Time : u <= t
Least == CHOOSE t \in Time : \A u \in Time : t <= u

\* defaultBusinessHours: closed on the first day, open on the others.
Defaults == [n \in 1 .. Cardinality(Day) |-> Hours(n - 1, Least, Greatest, n > 1)]

TypeOK ==
  /\ \A d \in Day : week[d] # None => week[d].by \in 0 .. updates
  /\ \A r \in Request : update[r] > 0 => pc[r] = "update"
  /\ updates \in 0 .. MaxUpdates

Init ==
  /\ week = NoDays
  /\ pc = [r \in Request |-> "idle"]
  /\ items = [r \in Request |-> <<>>]
  /\ pending = [r \in Request |-> NoDays]
  /\ update = [r \in Request |-> 0] /\ updates = 0

\* Mutant: the days are not looked at.
ValidItems(list) ==
  \A n \in DOMAIN list : list[n].isOpen => list[n].openTime < list[n].closeTime

\* validateBusinessHours
Valid(list) ==
  /\ {list[n].dayOfWeek : n \in DOMAIN list} = Day
  /\ \A n \in DOMAIN list : list[n].isOpen => list[n].openTime < list[n].closeTime

Begin(r, kind, list, n) ==
  /\ pc[r] = "idle"
  /\ pc' = [pc EXCEPT ![r] = kind]
  /\ items' = [items EXCEPT ![r] = list]
  /\ update' = [update EXCEPT ![r] = n]

End(r) ==
  /\ pc' = [pc EXCEPT ![r] = "idle"]
  /\ items' = [items EXCEPT ![r] = <<>>]
  /\ pending' = [pending EXCEPT ![r] = NoDays]
  /\ update' = [update EXCEPT ![r] = 0]

\* updateStoreBusinessHours; a list that is not valid changes nothing.
UpdateBegin(r) ==
  \E list \in WeekLists :
    /\ Valid(list) /\ updates < MaxUpdates
    /\ updates' = updates + 1
    /\ Begin(r, "update", list, updates')
    /\ UNCHANGED <<week, pending>>

\* ensureDefaultBusinessHours
EnsureBegin(r) ==
  /\ Cardinality({d \in Day : week[d] # None}) < Cardinality(Day)
  /\ Begin(r, "ensure", Defaults, 0)
  /\ UNCHANGED <<week, pending, updates>>

\* seedStoreBusinessHours
SeedBegin(r) ==
  /\ Begin(r, "seed", Defaults, 0)
  /\ UNCHANGED <<week, pending, updates>>

\* The row of day d is not locked by another transaction.
Free(r, d) == \A q \in Request \ {r} : pending[q][d] = None

Next1(r) == Head(items[r])
Advance(r) == items' = [items EXCEPT ![r] = Tail(@)]

Upsert(r) ==
  /\ pc[r] = "update" /\ items[r] # <<>>
  /\ LET d == Next1(r).dayOfWeek
     IN /\ Free(r, d)
        /\ pending' = [pending EXCEPT ![r][d] = Row(Next1(r), update[r])]
  /\ Advance(r)
  /\ UNCHANGED <<week, pc, update, updates>>

\* update: {}, so a row that is there stays as it is.
UpsertDefault(r) ==
  /\ pc[r] = "ensure" /\ items[r] # <<>>
  /\ LET d == Next1(r).dayOfWeek
     IN /\ Free(r, d)
        /\ pending' = [pending EXCEPT ![r][d] =
                         IF week[d] = None THEN Row(Next1(r), 0) ELSE @]
  /\ Advance(r)
  /\ UNCHANGED <<week, pc, update, updates>>

UpsertSeed(r) ==
  /\ pc[r] = "seed" /\ items[r] # <<>>
  /\ LET d == Next1(r).dayOfWeek
     IN /\ Free(r, d)
        /\ week' = [week EXCEPT ![d] = IF @ = None THEN Row(Next1(r), 0) ELSE @]
  /\ Advance(r)
  /\ UNCHANGED <<pc, pending, update, updates>>

Commit(r) ==
  /\ pc[r] # "idle" /\ items[r] = <<>>
  /\ week' = [d \in Day |-> IF pending[r][d] # None THEN pending[r][d] ELSE week[d]]
  /\ End(r)
  /\ UNCHANGED updates

\* PostgreSQL breaks a deadlock, a transaction times out, a seeder is stopped.
Abort(r) ==
  /\ pc[r] # "idle"
  /\ End(r)
  /\ UNCHANGED <<week, updates>>

Next == \E r \in Request :
          \/ UpdateBegin(r) \/ EnsureBegin(r) \/ SeedBegin(r)
          \/ Upsert(r) \/ UpsertDefault(r) \/ UpsertSeed(r)
          \/ Commit(r) \/ Abort(r)

Spec == Init /\ [][Next]_vars

-----------------------------------------------------------------------------
\* assertDateWithinBusinessHours: the closing minute is still open.
DateWithin(d, t) ==
  /\ week[d] # None /\ week[d].item.isOpen
  /\ week[d].item.openTime <= t /\ t <= week[d].item.closeTime

\* assertRentalTimeWithinBusinessHours, of two instants <<day, minute>>
RentalTimeWithin(start, end) == DateWithin(start[1], start[2]) /\ DateWithin(end[1], end[2])

Updated == \E d \in Day : week[d] # None /\ week[d].by > 0

\* Once somebody saved a week, the rows are one saved list, whole: no day of an
\* older list, of another update that ran at the same time or of the defaults.
\* And every day that is shown as open accepts a rental that begins and one that
\* ends on it.
WeekIsUsable ==
  /\ Updated =>
       /\ \A d \in Day : week[d] # None
       /\ Cardinality({week[d].by : d \in Day}) = 1
  /\ \A d \in Day : week[d] # None /\ week[d].item.isOpen =>
       \E s, e \in Time : s < e /\ RentalTimeWithin(<<d, s>>, <<d, e>>)
=============================================================================
