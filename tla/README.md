# Verification of the rental backend

TLA+ specifications, TLC runs and TLAPS proofs for the admin backend of a
camera rental shop (NestJS, Prisma on PostgreSQL, Redis, BullMQ, Socket.IO).
Paths are relative to the repository root; `PROJECT.json` maps every definition
to the lines it models and lists runs, hazards, findings and theorems.

## 1. The system

| Component | State it keeps | Operations | Talks to |
|---|---|---|---|
| Rental orders (`src/modules/rental-orders/rental-orders.service.ts`) | rows of `RentalOrder`, `RentalOrderItem`, `OrderStatusHistory`, `OrderEvent` | create, update, assign-assets, confirm, cancel, soft delete, list, read | PostgreSQL transactions and advisory locks; availability; pricing; socket |
| Availability (`services/rental-order-availability.service.ts`, `src/modules/availability`) | none; reads orders, items, units | `evaluateAvailability`, booked units, counts per product; product, unit and timeline pages | PostgreSQL; cached policy and opening hours; closures |
| Pricing (`services/rental-order-pricing.service.ts`) | none | price per line, totals, item data | products and tiers, policy |
| Realtime (`services/rental-order-realtime.service.ts`, `src/libs/socket`) | socket rooms | `availability:changed`, `rbac:updated` and others | called after a commit |
| Database connections (Prisma's pool) | connections, transactions, advisory locks | `$transaction` with its timeouts, queries | every service |
| Login sessions (`src/modules/auth`, `users`) | `User`; Redis: a session per login, a set of sessions per user | login, refresh, logout, change/reset password, access check, status change, delete | Redis, PostgreSQL |
| Reset tokens (`password-reset-token.service.ts`) | two Redis keys per token | forgot, verify, reset | Redis, mail queue |
| Login throttle (`auth.service.ts`) | Redis counters and a lock key | count, clear, lock | Redis |
| Cached settings (`rental-policy`, `store-business-hours`, `redis.service.ts`) | one default policy, seven day rows, a Redis copy of each | cached read, create defaults, update | PostgreSQL, Redis |
| Roles (`src/modules/roles`, `permissions`) | `Role`, `UserRole`, `RolePermission` | create, update, set permissions, assign, remove members, delete | PostgreSQL; socket events to the users concerned |
| Catalogue (`products`) | `Product`, `ProductPriceTier` | create, update with tiers, status, delete | orders, pricing, socket |
| Mail (`mail-template`, `mail`, `src/libs/queue`) | templates, layouts, BullMQ jobs | edit, render, enqueue, retry, send | PostgreSQL, Redis, SMTP |
| Closures (`store-closure`) | closure rows | create, update, delete, overlap check | read by availability |
| Fleet (`asset-units`) | units, with a search text | create, update, status, delete, list | read by orders; socket |
| Customers (`customers`), accounts (`users`, `updateMe`) | their rows, codes and search texts | create, update, status, delete, list | read by orders, sessions |
| Seeder (`src/migration/seeder`) | initial rows | one pass of upserts, repeated at will | PostgreSQL |
| HTTP shell (guards, pipes, filter, DTOs) | none | validation, error mapping | everything |

What is hard here:

* **Check, then act.** Nearly every handler reads, decides, and writes in a
  later statement. PostgreSQL runs the transactions at READ COMMITTED, writes
  name rows by id, and only `confirm` and `assign-assets` take locks.
* **Locks in two rounds.** `confirm` locks its order, reads it, then locks its
  products; `assign-assets` locks order, products and units in one sorted round.
* **Reads on another connection.** Inside a transaction, availability is read
  through the pool, not through the transaction.
* **Two stores, no transaction over both.** Sessions, tokens, counters and
  cached settings are several Redis keys, each with a time to live of its own,
  written one after the other and beside PostgreSQL.
* **A text kept beside the columns.** Lists search a `searchText` that each
  handler rebuilds from the columns it read and the ones it was given.
* **Effects after the commit.** Socket events, cache deletes and session
  revocations follow the commit and may be lost, late or out of date.
* **Delivery at least once.** The mail queue retries, and restarts what stalls.

What makes each part correct: a unit is never out twice and every confirmed
line can be served (orders); transactions end, and no two wait for each other
(locks, pool); what is logged in can be found and ended (sessions); a link that
died stays dead (tokens); a counter goes away (throttle); a stale copy goes away
(settings); permissions are what was set and clients hear of it (roles); one
price per length of rental (catalogue); a mail is whole, settled, and sent a
bounded number of times (mail); a week that was saved is whole (opening hours);
totals are what the lines say (orders); a row is found by what it holds, codes
and phones are given once, a closure closes its days (directory).

## 2. The modules

In every module a *request* is one HTTP call, `pc[r]` (in `Roles`, the rest of its
plan) is the await it stands at, and an action is what happens between two
awaits that others can observe: one statement, one Redis command or one `MULTI`.
A request may be abandoned at any await (`RollBack`, `Abort`, `Fail`): Prisma's
timeout, a lost connection, a crash of the process. Input that the code refuses
is a request that ends without a step on the stores.

### RentalOrders

The order handlers over one database; the module the project is built around.

| Handler | Actions |
|---|---|
| `createRentalOrder` | `CreateCheck` (unlocked check), `CreateInsert` (the transaction) |
| `updateRentalOrder` | `UpdateRead`, `UpdateCheck`, then `UpdateKeepItems` or `UpdateReplaceItems` |
| `assignRentalOrderAssets` | `AssignRead`, `Lock`..., `AssignCheck`, `AssignWrite`, `Emit` |
| `confirmRentalOrder` | `ConfirmBegin`, `Lock`, `ConfirmRead`, `Lock`..., `ConfirmCheck`, `ConfirmWrite`, `Emit` |
| `cancelRentalOrder` | `CancelRead`, `CancelWrite`, `Emit` |
| `deleteRentalOrders` | `DeleteRead`, `DeleteWrite` |

`orders` and `history` are committed rows. `want` and `locks` are the
advisory locks a transaction still needs and holds; `orphaned` marks requests
whose item rows were deleted by `deleteMany` after they read them, so that their
update by item id fails.

A request may die at any await: before its commit (`RollBack`), or between commit
and event (`LoseEvent`), when the answer to COMMIT or the process is lost; then the
write stays and its event is gone for good. `shown` is the booking of each order
as the clients fetched it last, with its window, its lines and their units; `untold`
are the orders that a write changed whose event died (`LoseEvent`), or that an update,
which sends none, changed while they were booked (`Untell`), and that the clients
have not fetched since.
`Emit` is the event and the refetch it causes, taken as answered at once; it
refreshes the order it is about, the least it may. `Fetch` is a client that loads
or reconnects and refetches everything (`redis-socket-bullmq-design.md:178,350`);
it happens where `Ops` has `"reload"`.

Abstractions: a price, a customer, a note or a search text decides nothing
here and is left out; opening hours and closures can only refuse a request.
`evaluateAvailability` is one step though it issues several reads. The fleet is
fixed. Rows are written whole at the commit; row locks between the statements of
two transactions are left out. Statuses after `CONFIRMED` exist in the types and
sets, but no handler of this code base moves an order there, so no action does.

### AvailabilityPages

The pages as operators over the state of `RentalOrders`, which they extend:
counts per product, the state of each unit with the time it comes back, the
limit on how many may be selected, the timeline of a unit. They use queries of
their own, so what they show is compared with what the check of an order accepts.
A timeline has a block for each item row, so a serial on two lines of an order
shows as two blocks with one window.

### BookingLedger

What the availability rules promise, with no requests, locks or reads in sight:
a ledger that books, reassigns and releases in single steps, each of which
looks at the whole ledger. `RentalOrders` implements it (`ImplementsLedger`)
under the refinement mapping `bookings`: an order that blocks a schedule is a
booking of its lines for its window. Stock is counted per instant in the
ledger and per overlapping order in the code; the refinement says that the
code's count is at least as strict.

### ConnectionPool

Who holds which connection and which advisory lock while `confirm` and
`assign-assets` read availability through the pool. It complements
`RentalOrders`, whose locks are granted by a database that always answers.
`doomed` is a transaction that timed out while its queries are still queued.

### AuthSessions, PasswordResets, LoginThrottle

Three views of `AuthService`, one per group of Redis keys. `AuthSessions`:
`session` and `index` are the keys `auth:session:<sid>` and
`auth:user-sessions:<uid>` with their expiry; `LoginCheck`, `LoginSign`, `Save` are
a login, `RefreshRead`, `RefreshUser`, `RefreshSign`, `Save` a refresh,
`RevokeList` and `RevokeDel` the end of every password change. The version of the
password a session was opened with stands for the credential. `PasswordResets`:
the key from token to user and the key from user to the token in force, over
`ForgotGet`/`ForgotSet`, `VerifyToken`/`VerifyUser`/`VerifyDel`,
`ResetFind`/`ResetWrite`/`Consume`. `LoginThrottle`: the three counters and the lock,
with INCR and EXPIRE as the two commands they are.

### ConfigCache

`getOrSetJson` for the policy and the opening hours: a reader misses, loads and
fills; an update writes PostgreSQL and deletes the copy. The first reads of an
empty table of opening hours count it and create the default week.

### Roles

The six handlers of `roles.service.ts` as plans of SQL statements at READ COMMITTED
over `RolePermission` and `UserRole`: a DELETE works on the rows it saw, waits for
those who are deleting one of them, and does not see what was inserted after;
an UPDATE of a role holds its row. `known`, `notified` and `untold` are what the
clients show, the events on their way, and the users a dead request did not tell.

### Catalog

`updateProduct` with its tiers (UPDATE of the product, UPDATE of the live tiers,
INSERT of the new ones, in one transaction), status, delete, event; and the unit
price of `calculateRentalUnitPrice` over hours, half days, days, tiers and overage.

### Mails

A template and its layouts, edited while `sendTemplateEmail` and `send-test` read and
render them; the queue with attempts, backoff, stalls, crashes and workers that
lost their lock and go on delivering. A text is the set of its placeholders.
What BullMQ and the SMTP server do is external, modelled from the options the
code gives them. The seeder may run at any time: it writes the seeded layout
and takes layout and variables of the template back, in two statements.

### Directory

Five tables whose handlers have one shape: read a row, look whether a value is
taken, write the given columns and a search text made of what was read.

| Table | Handlers | Actions |
|---|---|---|
| users | `createUser`, `updateUser`, `updateMe`, `deleteUsers`, `seedDefaultAdmin` | `CreateUserCheck`/`CreateUser`, `UpdateUserRead`/`Check`/`Write`, `MeRead`/`MeWrite`, `DeleteRows`, `SeedAdmin` |
| customers | `createCustomer` with `generateCustomerCode`, `updateCustomer`, `updateCustomerStatus`, `deleteCustomers` | `CreateCustomerCheck`/`CustomerCode`/`CreateCustomer`, `UpdateCustomer*`, `CustomerStatus*`, `DeleteRows` |
| assets | `createAssetUnit`, `updateAssetUnit`, `updateAssetUnitStatus`, `deleteAssetUnit` | `CreateUnit*`, `UpdateUnit*`, `UnitStatus*`, `DeleteUnits*`, `EmitAvailabilityChanged` |
| closures | create, update, delete, `assertNoClosureOverlap` | `CreateClosure`, `UpdateClosure*`, `DeleteRows`; `NoClosureOverlap` |
| orders | the code, note, reason and status of create, update, cancel, delete | `OrderCode`/`CreateOrder`, `UpdateOrder*`, `CancelOrder*`, `DeleteOrders*` |

The list handlers are operators, `getAllUsers` to `getAllStoreClosures`: filter,
order with the id as last key, skip and take. A search text is the columns it was
joined from; normalisation, and a search for a part of a word, are left out.
Requests on two tables share nothing, so a behaviour is about one table, which
`table` names from the start. `stale`, `twin`, `omitted` and `moved` are history:
they name the overlaps a property leaves out, and no action reads them. A write
and its event are two steps, but no process dies between them here.

### OpeningHours

The rows of the week: `updateStoreBusinessHours` upserts the days of its list in one
transaction, a reader of an incomplete week the missing ones in another, the
seeder one by one in none. A row stays locked until its transaction ends.
`RentalTimeWithin` is the check of a rental's times. The Redis copy of the week is
in `ConfigCache`.

### OrderTotals

The lines and the totals of one order, as `updateRentalOrder` rewrites them: with
items it deletes the lines it sees and inserts priced ones, without it updates
them by id, and a line that is gone fails it. `Totals` is `calculateTotals`.
`RentalOrders` has the dates, locks and serials of the same handler and no prices.

### BackOffice

`Roles`, `PasswordResets`, `LoginThrottle`, `OpeningHours` and `OrderTotals` as one
specification. They share no row, key or lock; steps of two of them commute, and
no property relates two. So a behaviour is about one part, and its run is the
five of them side by side, nothing more. Where a part other than `Roles` may stop
(its clock or its counters are used up), `Rest` stutters, so that deadlock
checking remains of use for the transactions of `Roles`.

MC modules give constants their values. `Proofs` modules hold theorems only.

## 3. The runs

Ten runs pass; two find what section 6 says of them.

| Run | Question | Distinct states |
|---|---|---|
| `orders_booking` | two requests create, assign, confirm and cancel two orders over one unit, windows that nest, overlap and touch: no unit held twice, no cycle of waiting, what a request has checked still holds when it writes (`ProtocolInv`), each step is a ledger step | 0.45 M |
| `orders_drafts` | all six handlers on one order, by two requests that may die at any await, and clients that reload: types, locks in key order, confirmed at most once, clients shown a booking as it is but for lost events and updates, and under fairness a transaction that takes locks ends | 0.17 M |
| `orders_capacity` | up to three orders over two units, of one or two lines, where assign may put one unit on both: the count per product suffices to serve every line, the pages show what the checks accept, and the timelines leave a unit for each line that waits for one | 0.36 M |
| `orders_update_race` | the same promise as `orders_booking` with `update` switched on: **violated**, see section 6 | |
| `auth_sessions` | all operations on an account by two requests, with expiry and crashes: sessions stay listed, outlive their tokens, and come back only by a refresh that had read them | 1.0 M |
| `cache` | three requests read, create, update and fail: a configured week is not overwritten by the default one, stale copies go in the end | 0.14 M |
| `pool` | three requests on three connections: with one to spare somebody can always go on; without, the timeout gets everybody to end; a lock never outlives its connection | 70 k |
| `catalog` | two administrators change one product: tiers never overlap, clients hear of it, coherent terms give prices that do not fall with time | 0.37 M |
| `mails` | edits and the seeder while a mail is rendered, queued and delivered by two workers that fail, die or stall: nothing blank, bounded copies, every mail settled | 1.1 M |
| `directory` | two requests create, edit, move and delete the rows of each of the five tables: a row is on exactly one page of every list its columns match, phones are unshared, codes keep coming, the closure check and the closure list agree with the calendar, clients hear of every moved unit | 0.93 M |
| `directory_search` | that an account is always found by its e-mail address: **violated**, see section 6 | |
| `back_office` | *tokens*: the two keys agree, a dead link stays dead; *counters*: only a crash between INCR and EXPIRE leaves one for good; *roles*: a replaced list is exactly the list, clients hear of every change but that of a deleted role; *week*: the rows are one saved list, and an open day can be rented; *totals*: they are the sums of the lines | 2.3 M |

Deadlock checking is on for `pool`, `catalog` and the roles of `back_office`. It is off in the others,
which stop legitimately: their clock, versions or ids are used up and every
request is over. Types of `AuthSessions`, `ConnectionPool` and `Catalog` are proved
and not repeated in the runs.

`orders_booking` and `orders_capacity` leave `update` out (constant `Ops`): with it
`NoDoubleBooking` fails, which `orders_update_race` shows, and with it what rests on it.

These two runs have no property of the history or of what clients show, and no handler
reads either. There states are told apart by the other variables alone (`VIEW
Schedule`): states that agree on these go on alike.

## 4. Bounds and fairness

*Requests.* Two is the smallest number that races; three are used where two that
hold something meet a third (`pool`, `cache`). The theorems of section 5 are for
any number.

*Orders.* Four instants and a turnaround of 1 give windows that nest, that overlap,
that collide by the turnaround alone, and that touch without colliding. One product
is enough for `NoDoubleBooking`: units belong to one product, and every lock a conflict
goes through is of that product; `NeverDoubleBooked` does without this bound. Two
units and three orders are the smallest instance in which counting per product and
serving line by line can differ: one window that overlaps two which only touch.
`orders_capacity` goes on from states with three lines or fewer on all orders, those
of a create under way included (`AtMostThreeLines`): three orders of one line, or one of two and one of one. Its
request is one after the other, since pages and plans depend on what is stored
alone. For `orders_drafts` one order is enough: its properties are about one order, its
locks and its events; two requests let an update or a cancel come between the read
and the write of a confirm, and a confirm between those of an assign.

*Sessions, tokens, counters.* A time to live of 2 in a clock of 2 to 4 lets a key
expire while a request that read it is still under way, and be written again
after. Three tokens give one in force, one replaced, one to come. `MaxFailures` 2
and `MaxCount` 3 let a counter reach the limit, jump past it and go on. Accounts
share no key, so one is enough; the theorems of `AuthSessions` have any number.

*Settings.* Versions 0 (absent), 1 (default), 2 and 3: two updates that overtake
each other. *Pool.* As many requests as connections: fewer never stall, more add
waiters of a kind that is there. *Roles.* One user, two roles, two permissions: a
list and its replacement, and a role that is created again under another id.
*Catalogue.* `MaxDays` 4 passes every change of regime (6 h, 24 h, tier ends, the
open tier); `MaxWrites` 3 lets two lists race and a third follow. *Mails.* One
placeholder, because the checks treat each alone; one edit beside the sending, a
choice of updates (`SomeUpdates`); `Attempts` 3 and `MaxStalls` 1 are the values of
`queue.module.ts` and of BullMQ.

*Directory.* Two rows, so that every check has another row to meet; two values,
products and statuses; dates 0 to 3 give closures apart, touching and nested;
codes up to 2 (two rows never come to the next digit, which the property leaves
out); two requests.
*Week.* Three days and three times; lists in order, backwards, with a day twice
and with no opening time; three updates. *Totals.* Four line ids, two lines at
a time, prices that are cheaper and dearer than the discount.

Symmetry is used on interchangeable model values, and never with liveness. Orders
are interchangeable although their lock keys are sorted: no request ever has the keys
of two orders, so nothing depends on which of two orders comes first. In
`orders_capacity` units are interchangeable as well: its one request waits for nobody,
so in which order it takes its keys shows nowhere.

*Fairness.* `orders_drafts`: a request in a locking transaction goes on when it
can (weak; the event loop and the database run its next statement), and a lock
that becomes free again and again is granted (strong; PostgreSQL queues the
waiters of an advisory lock). Nothing is assumed of new requests, of timeouts, or
of the handlers that take no lock. `cache`: keys with a time to live expire, and
requests that began go on or die. `pool`: queries are answered, timers fire, the
pool serves its waiters in turn; nothing says that a lock is granted or that a
transaction commits. `mails`: workers that hold a job go on, delays end, jobs are
taken in turn (strong; the queue is a list), a job without a worker is found by
BullMQ's check for stalled jobs. Nothing is assumed of the SMTP server.

## 5. Proofs

TLAPS checks these for every value of the constants that satisfies the `ASSUME`s
of the modules, `Spec` being the specification of the module (`BackOfficeSpec` in
`BackOffice`). Of the 40 properties of the passing runs 35 are theorems.

| Theorem | Statement |
|---|---|
| **`RentalOrdersProofs`** | |
| `TypeCorrect` | `Spec => []TypeOK` |
| `LocksAreOrdered`, `NeverDeadlocks` | `Spec => []LockDiscipline`, `Spec => []NoDeadlock` |
| `OrdersConfirmedOnce` | `Spec => []ConfirmedAtMostOnce` |
| `ProtocolHolds`, `NeverDoubleBooked` | without update, `Spec => []ProtocolInv`, `Spec => []NoDoubleBooking` |
| `OrdersImplementLedger` | without update, `Spec => ImplementsLedger` |
| `BookingsAreSeen` | `Spec => []ClientsSeeEveryBooking` |
| `LinesCanBeServed` | without update, `Spec => []EveryLineCanBeServed` |
| `PagesShowWhatPasses` | `Spec => []PagesAgreeWithCheck` |
| `LimitCanBeReached`, `TimelineKeepsRoom` | without update, `Spec => []LimitIsSelectable`, `Spec => []TimelineLeavesRoom` |
| **`BookingLedgerProofs`** | |
| `LedgerKeepsPromises` | `LedgerSpec => []NoUnitPromisedTwice` |
| **`ConnectionPoolProofs`** | |
| `PoolNeverStalls` | `Spec => []NoStall` |
| `PoolLocksInTransactions` | `Spec => []LocksLiveInTransactions` |
| **`AuthSessionsProofs`** | |
| `SessionsTypeCorrect` | `Spec => []TypeOK` |
| `SessionsOutliveTokens` | `Spec => []SessionOutlivesToken` |
| `SessionsStayIndexed` | `Spec => []SessionsAreIndexed` |
| `EndedSessionsStayEnded` | `Spec => OnlyRefreshRevives` |
| **`CatalogProofs`** | |
| `CatalogTypeCorrect`, `TiersStayDisjoint` | `Spec => []TypeOK`, `Spec => []TiersNeverOverlap` |
| `LongerRentalsCostNoLess` | `Spec => []LongerNeverCheaper` |
| `ClientsSeeTerms` | `Spec => []ClientsWillSee` |
| **`MailsProofs`** | |
| `MailsComplete`, `CopiesBounded` | `Spec => []MailsAreComplete`, `Spec => []CopiesAreBounded` |
| **`DirectoryProofs`** | |
| `DirectoryHolds` | `Spec => []DirectoryInv` |
| `SearchFinding` | `Spec => []SearchFindsRow` |
| `PhonesUnshared`, `CodesComing` | `Spec => []PhonesAreUnshared`, `Spec => []CodesKeepComing` |
| `ClosuresBlock`, `UnitsAreAnnounced` | `Spec => []ClosureBlocksItsDays`, `Spec => []UnitsAnnounced` |
| **`BackOfficeProofs`** | |
| `TypesCorrect` | `BackOfficeSpec => []TypesOK` |
| `StaleClientsHear`, `UpdatesReplace` | `BackOfficeSpec => []StaleClientsWillHear`, `BackOfficeSpec => UpdateReplacesPermissions` |
| `TokenExists`, `LinksStayDead` | `BackOfficeSpec => []TokenInForceExists`, `BackOfficeSpec => DeadLinksStayDead` |
| `CountersAllExpire` | `BackOfficeSpec => []CountersExpire` |
| `WeekStaysUsable` | `BackOfficeSpec => []WeekIsUsable` |
| `TotalsFollowLines` | `BackOfficeSpec => []TotalsMatchLines` |

*Assumptions.* The sets of orders, lines, units, products, connections, rows and
line ids are finite, in `ConnectionPool` the requests too; other requests, users,
tokens, roles and workers may be any. Times, dates, prices, fees and limits are
numbers that are not negative (`@Min(0)` of the DTOs), a time to live is not 0. Lock keys sort by prefix, then id
(`KeyRankAssumption`). No two lines of a cart have one id. A day has a first and
a last minute. `None` is no row and no key. There are ids for lines
(`ItemAssumption`): without one nothing could be ordered, whatever the pages show.
TLC evaluates each assumption in the runs of its module.

*Locks.* A transaction only asks for keys above all it holds: `confirm` holds
one order key, and every product key ranks above every order key. Take the
request of a supposed cycle whose awaited key is greatest; its holder waits for
a still greater one. That contradicts finiteness, which `NeverDeadlocks` uses
as an induction on the size of the cycle.

*Double booking.* `NoDoubleBooking` is not inductive: it says nothing of a
request that has checked and not yet written. `ProtocolInv` adds what such a
request knows. `LockScope` and `KeysCovered`: it holds the key of its order and
of every product whose lines it will write. `OrderIsAsRead`: while a confirm
holds its order key nobody edits the order (cancel and delete may take it away).
`CheckStillHolds`: whatever it found free is still free. The last part is the
heart: a step of another request can only make a unit of the product busy by
confirming or assigning a line of that product, and such a step holds the
product key that this request holds (`ProductLockGuards`). The argument needs
`"update" \notin Ops`: update writes without the keys.

*Refinement.* A confirm is a `Book`: the check that still holds at the write
gives `UnitsFree` and, since each line out at an instant overlaps the window,
the count that gives `StockLeft`. An assign on a confirmed order is a
`Reassign`; cancel and delete are a `Release`; all else stutters.

*Events and histories.* `ClientsSeeEveryBooking` is inductive beside the locks: what
blocks after a step is as it was, or has just been written by a confirm, an assign or an
update (`BookingWriters`). The first two go on to the event of an order they leave
blocking, the third leaves it untold, and an event is told or lost by its own request
(`BookingSteps`). It holds with updates.
`ConfirmedAtMostOnce` is not inductive: `HistoryInv` adds that a draft has no CONFIRMED
row, and that a confirm that has read its order holds that order's key and nobody
has confirmed since. It holds with updates.

*Serving every line.* `EveryLineCanBeServed` asks for a plan, which line gets which
unit; `confirm` compares two numbers. Given a plan for what is booked, the lines
whose windows overlap the new one use at most as many units as they are lines
(`LeftOver`), so the count leaves a unit for each new line (`RoomForAll`) among
those that serve nobody in its window, and the plan can be extended
(`RoomForConfirmed`, `ConfirmedAreServed`). No line has to be moved. An assign keeps
the plan, a cancel or delete shrinks it.

*Pages.* That pages and check agree is a fact about any state: both count the
same lines, once they are compared as sets. The limit can be reached because each
serial sits on a line of its product: units booked are no more than lines booked.
The timelines leave room because of the plan of `EveryLineCanBeServed`: all lines
out at an instant overlap, so the plan gives them different units, and each block
belongs to a line of its own with a serial (`RoomAtInstant`).

*Sessions.* A token is signed before its session is stored with a full time to
live; the strengthening is that a token that waits to be stored was signed no
later than now. A session stays listed because `Save` writes key and set with the
same expiry; the strengthening is that no session expires later than one stored
now would (`SessionsExpireSoon`), so that a new entry prolongs the set for the old
ones, and that whoever is about to delete the set has replaced the password
(`RevokersWroteFirst`), after which the property says nothing. Ended sessions stay
ended because a login's id is known to nobody else until it is stored
(`NewIdsAreFresh`).

*Pool.* If everybody waited, every connection would be held by a transaction,
each of a request of its own (a query that runs is a request that can go on), and
there would be no more connections than requests: a map from connections to the
requests that hold them is injective. For the locks, `HasConnection`: whoever is
in a transaction has a connection for it.

*Catalogue.* The row lock taken by the UPDATE of the product is held until the
commit, so the tiers a transaction found to retire are the tiers at its commit;
the list it inserts was validated to be disjoint before. Prices are compared
an hour at a time (`PriceOfNextHour`): within a day the hours grow, at its end the
totals of the days take over.

*Mail.* A worker that lost its job may deliver it after the next one did, so
counting what was delivered is not enough: `CopiesInv` counts the workers that
still may (`Due`) with it. Both together are at most the times the job was taken,
which are its failures, its stalls, and one more while it is active or completed.

*Directory.* `RowsInv` says that the text follows the columns unless the row is
stale, and what a request between read and write remembers; `Checked` that whoever
found a phone free learns when another writes it. On a page stands what the
number of rows before it says; the order is total, since the id is its last key.
A code is greater than all there are while texts sort as numbers do.

*Reset tokens.* `ResetKnows`: what a request read stays true enough. A token keeps its
user for as long as its key lives, and a token found replaced is not in force
again, so deleting it cannot hurt the one that is.

*Counters.* Each counter without a time to live has a request whose `EXPIRE` is to
come, which only an abandoned request breaks (`lost`).

*Roles.* `Progress` ties the plan of a call to what it holds and has done: once
`updateRole` holds the role's row, what it deleted and inserted is all there is of
the role (`Replacing`). A stale client is followed role by role: its event was
sent, is being sent, or a call on that role is about to look up its members.

*Week.* `WeekIsWhole`: if one row is of an update, all are of that update. An update
writes every day or has it still to write (`HoursOf`), and holds what it wrote; a
reader only holds days that were missing when it locked them.

*Totals.* `CallAgrees`: whoever will write has totals of the lines it will write, and
no other lines are there unless items were replaced since its read. What the sums
are is an induction over the lines, made here as a choice of the smallest set of
lines for which it fails (`AddsExists`, `AddsUp`): the fold of the library is a
function chosen by its equation, so the equation needs a solution first.

Only model-checked: liveness (`LockedTransactionsEnd`, `EveryRequestEnds`,
`SettlesFresh`, `EveryMailSettles`), which is out of the prover's reach, and
`ConfiguredWeekStays` of `ConfigCache`, of which nothing is proved yet.

## 6. Findings and observations

**Findings, with a run.** An update that read DRAFT rewrites an order confirmed in
between: `updateRentalOrder` asserts the status and checks the stock before its
transaction (`rental-orders.service.ts:239-254`), then writes by id. A unit ends
up with two customers (`orders_update_race`).

`updateMe` stores a search text of name and phone (`auth.service.ts:133`), where
`conventions.md:287` and the builder have the e-mail address in it: who edits the own
profile is no longer found by address (`directory_search`).

The following were met while modelling. The models behave so, and the
properties and theorems are worded around them; no run is devoted to them.

Orders
* A cancel between the read and the write of a confirm is undone by the confirm;
  the history then has two rows from DRAFT.
* A delete that read DRAFT soft-deletes an order confirmed since
  (`updateMany` at line 520 names ids only). A cancel that read DRAFT cancels a
  confirmed order and announces nothing (line 498), and so does an update that
  overtakes a confirm.
* The event after a commit is kept nowhere. A request that dies in between, or does
  not get the answer to its COMMIT, leaves the clients with the old availability
  until the next event of the order or a reload; `redis-socket-bullmq-design.md:396`
  has events that matter go through an outbox.
* Lines confirmed without a serial can become impossible to serve once serials
  are handed out: counts are compared per product, serials one by one.
* `assign-assets` accepts one serial for two lines of one order; the timeline of that
  unit then shows two blocks over the same time.
* Compiled as `tsconfig.json` says (ES2023), the DTO classes define every field they
  declare, so `hasOwn` finds a field that the request left out: an update of an order
  without `note`, `internalNote`, `deliveryAddress` or `assignedToId`, and one of a mail
  template without `layoutId` or `description`, stores null there. The tests pass plain
  objects. `Directory` and `Mails` allow that outcome beside the intended one.
* `getAvailabilityAssets` selects active units and then has a branch for inactive
  ones; its `genericBooked` is computed and not used.
* The transactions of `confirm` and `assign-assets` read availability on a second
  connection; as many of them as the pool has connections wait until Prisma's
  timeout (`pool`).

* Two updates that replace the items in overlapping transactions leave both lists
  on the order: the second DELETE does not see what the first inserted
  (`TotalsMatchLines` leaves that out).

Sessions and passwords
* `users.controller.ts:96` says that an administrator's password reset revokes the
  sessions of the account, and line 111 that deletion does; `resetUserPassword` and
  `deleteUsers` revoke nothing. The access check rejects deleted users, but the
  sessions opened with a replaced password go on.
* A refresh stores the session it read some round trips ago: a logout or a
  revocation in between is undone. Two refreshes of one token may both succeed.
* A session stored between the listing and the deletion of a revocation survives,
  out of the user's set, so the next revocation does not find it either.
* A crash between INCR and EXPIRE leaves a counter that never goes away.
* The lock is set by the one request whose count equals the limit (`===`); concurrent
  failures that step over it set none. `activityStatus` LOCKED is written by
  administrators only.
* A token `forgotPassword` made is in force even if its mail could not be queued,
  and the link sent before is dead.

Roles
* Two `updateRolePermissions` of one role leave the union of their lists; two
  assigns of one user leave two roles. `updateRole` and `updateRolePermissions` lock
  in opposite orders and can deadlock, which PostgreSQL resolves.
* Deleting a role announces nothing, though
  `docs/02-architecture/realtime-rbac-sync.md:39` has every change of roles announced.
  An assign that answers NotFound has committed the removal of the old roles and
  announces nothing either. Nothing keeps a last member in ADMIN.

Catalogue
* `availability.md:40` rounds days up; the code counts full days and charges the
  remaining hours by `hourlyOveragePrice`, and the tiers do not apply up to 24 h.
  An explicit `maxDays: null` is refused. A product and its tiers are read by two
  SELECTs. Renaming a product leaves the search text of its units.

Directory
* A search text is made of the row as read: of two partial updates the later one
  stores the words the other replaced. A field set to null keeps its old value in
  the text (`??` at `customers.service.ts:95-102`). The seeder writes the text of the
  administrator without the phone.
* No index holds a customer's phone or e-mail: two requests that both found it
  free share it. The lookups skip deleted customers.
* After 999999 codes the greatest text is not the greatest number, and each create
  is refused by the unique index.
* Two partial updates of one closure, one of its start and one of its end, can
  store an end before the start: each is checked against the row it read.
* A unit that another request has moved is announced for the product it was read
  with, not the one it left. Units named by confirmed orders may be deleted or moved.
* `ensureEmailAvailable` of `auth.service.ts` (459-468) has no caller.

Mail
* The seeder takes back `variables` an administrator added while the texts keep the
  placeholder: the template then renders for nobody.
* `updateMailLayout` does not look at the templates that use the layout: one new
  placeholder in it, even of an inactive layout, and reset mails are no longer sent,
  while `forgotPassword` answers success.
* Jobs carry no identity of the mail and the processor keeps no record of what was
  sent, against `redis-socket-bullmq-design.md:186-190` and `:395`; `EmailLog` does not
  exist. A mail may arrive up to attempts plus restarts times (`CopiesAreBounded`).
* The producer shares `maxRetriesPerRequest: null` with the worker, so an enqueue waits
  for Redis instead of failing fast (`:391`).

## 7. Not modelled, and the plan

| Part | Why, and what comes |
|---|---|
| Units under orders | `RentalOrders` has a fixed fleet, `Directory` has units without orders. Next: units that are deleted, moved or sent to maintenance while orders name them |
| Closures and hours in the order checks | `NoClosureOverlap` and `RentalTimeWithin` are checked on their own; in `RentalOrders` they could only refuse a request |
| Filters by role and status of an account, dates of orders in lists | conjuncts beside those modelled |
| `updateUserRoles` | not routed (`users.controller.ts:82-90`) |
| Permissions and the policy in the seeder | upserts of rows nobody else creates |
| Socket handshake and rooms | joining a room with a token that is about to be revoked |
| DTOs, controllers, HTML, error texts, Swagger | pure functions of one request |

The plan, in this order:

1. the fleet in `RentalOrders`: actions for the handlers of `asset-units`, with the
   invariants and the runs that exist, then the proofs brought up to date;
2. proofs about `ConfigCache`, and abstract specifications for components that have
   none: a set of accounts that are logged in for `AuthSessions`, a table with one
   atomic write per handler for `Directory`;
3. the closure check composed with the availability check; the socket rooms.

What stays with TLC: liveness.
