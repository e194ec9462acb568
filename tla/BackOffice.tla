----------------------------- MODULE BackOffice -----------------------------
(***************************************************************************)
(* The parts of the back office that share no row, key or lock with one    *)
(* another: roles, reset tokens, login counters, the rows of the week, and  *)
(* the money of an order.  Whatever two of them do side by side commutes,   *)
(* so a behaviour is about one part and the others rest in their initial    *)
(* state: the reachable states are those of the parts on their own, and one *)
(* run checks them all.                                                    *)
(***************************************************************************)
EXTENDS Roles, Integers

CONSTANTS
  Part,                              \* the parts to look at
  None,                              \* no key, no row
  Token, TTL, MaxPassword, Faults,   \* PasswordResets
  MaxFailures, Window, MaxCount,     \* LoginThrottle
  MaxNow,                            \* both
  Day, Time, WeekLists, MaxUpdates,  \* OpeningHours
  Line, Cost, Fee, Discount          \* OrderTotals

ASSUME BackOfficeAssumption ==
  /\ Part \subseteq {"roles", "resets", "throttle", "hours", "totals"}
  /\ None \notin User /\ None \notin Token
  /\ None \notin [user : User, expires : Nat] \cup [token : Token, expires : Nat]
  /\ TTL \in Nat \ {0} /\ MaxNow \in Nat /\ MaxPassword \in Nat
  /\ MaxFailures \in Nat \ {0} /\ Window \in Nat \ {0} /\ MaxCount \in Nat
  /\ Day = 0 .. Cardinality(Day) - 1 /\ Cardinality(Day) \in Nat \ {0}
  /\ Time \subseteq Nat /\ MaxUpdates \in Nat
  \* A day has a first and a last minute.
  /\ \E first, last \in Time : first < last /\ Time \subseteq first .. last
  \* UpdateStoreBusinessHourItemDto
  /\ LET Item == [dayOfWeek : Day, openTime : Time, closeTime : Time, isOpen : BOOLEAN]
     IN WeekLists \subseteq Seq(Item) /\ None \notin [item : Item, by : Nat]
  /\ Line \subseteq Nat /\ Fee \subseteq Nat /\ Discount \subseteq Nat
  /\ IsFiniteSet(Line)
  \* Prices of products and of the policy are at least 0.
  /\ Cost \subseteq [lineTotal : Nat, depositAmount : Nat, bookingHoldAmount : Nat]
  /\ None \notin [subtotal : Int, depositTotal : Int, bookingHoldTotal : Int,
                  deliveryFeeTotal : Int, discountTotal : Int, upfrontTotal : Int,
                  handoverDueTotal : Int]

VARIABLES
  part,                                                       \* the part that moves
  now, pc,                                                    \* of any part that has them
  tokenKey, userKey, mailed, password, deletedUser, resetReq, \* PasswordResets
  count, loginLock, result, expiring, lost,                   \* LoginThrottle
  week, items, pending, update, updates,                      \* OpeningHours
  lines, order, pricing, overlapped                           \* OrderTotals

Resets   == INSTANCE PasswordResets WITH deleted <- deletedUser, req <- resetReq
Throttle == INSTANCE LoginThrottle WITH lock <- loginLock, todo <- expiring
Week     == INSTANCE OpeningHours
Money    == INSTANCE OrderTotals WITH call <- pricing

grants  == <<db, tx, todo, call, told, clients>>
tokens  == <<tokenKey, userKey, mailed, password, deletedUser, resetReq>>
counts  == <<count, loginLock, result, expiring, lost>>
hours   == <<week, items, pending, update, updates>>
money   == <<lines, order, pricing, overlapped>>

backOffice == <<part, now, pc, grants, tokens, counts, hours, money>>

BackOfficeInit ==
  /\ part \in Part
  /\ Init /\ Resets!Init /\ Throttle!Init /\ Week!Init /\ Money!Init

\* Transactions on roles never block for good; clocks and other bounds may stop
\* the other parts.
Rest == part # "roles" /\ UNCHANGED backOffice

BackOfficeNext ==
  \/ /\ part = "roles" /\ Next
     /\ UNCHANGED <<part, now, pc, tokens, counts, hours, money>>
  \/ /\ part = "resets" /\ Resets!Next
     /\ UNCHANGED <<part, grants, counts, hours, money>>
  \/ /\ part = "throttle" /\ Throttle!Next
     /\ UNCHANGED <<part, grants, tokens, hours, money>>
  \/ /\ part = "hours" /\ Week!Next
     /\ UNCHANGED <<part, now, grants, tokens, counts, money>>
  \/ /\ part = "totals" /\ Money!Next
     /\ UNCHANGED <<part, now, grants, tokens, counts, hours>>
  \/ Rest

BackOfficeSpec == BackOfficeInit /\ [][BackOfficeNext]_backOffice

-----------------------------------------------------------------------------
(* The properties of the parts but the roles, under their names.           *)

\* Every part keeps its types: a token in use was mailed, a request waits for a
\* time to live exactly while it owes one, a row of the week is of an update that
\* was begun.
TypesOK ==
  /\ TypeOK /\ Week!TypeOK /\ Money!TypeOK
  /\ part = "resets" => Resets!TypeOK
  /\ part = "throttle" => Throttle!TypeOK

TokenInForceExists == Resets!TokenInForceExists
DeadLinksStayDead  == Resets!DeadLinksStayDead
CountersExpire     == Throttle!CountersExpire
WeekIsUsable       == Week!WeekIsUsable
TotalsMatchLines   == Money!TotalsMatchLines
=============================================================================
