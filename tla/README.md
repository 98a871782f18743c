# Verification of the MenuScan cafe backend

TLA+ models of the backend in `src/` (NestJS, Prisma on PostgreSQL, Redis,
Socket.IO), the TLC instances that model-check them, and proofs checked by TLAPS.

The server is one Node process. A request handler runs alone between two
`await`s and other handlers run during each of them, so in every model a handler
is a record `at` that says which of its database statements comes next, and each
statement is one atomic step. A `$transaction` is one step. Nothing in the
program locks a row, and no transaction re-reads what was checked before it:
most of what can go wrong is a check or a value that is old when it is used.

## 1. Inventory

| component (under `src/src`) | state | operations | what is hard | what makes it correct |
|---|---|---|---|---|
| orders (`modules/orders`) | rows `orders`, `order_items` | create, generateOrderNumber, updateStatus | four awaits in create; two separate writes in updateStatus | numbers sequential per day, prices of one moment, table kept |
| payments (`modules/payments`) | none of its own: writes orders | createQris, handleWebhook | repeated, late and crossed notifications; several codes per order | an acknowledged payment is never lost; an expiry undoes no payment |
| tables (`modules/tables`) | rows `tables` | initSession, resetTable, create, update, remove, getTableStatus | written by orders too; number check before write | status has a cause and is announced; numbers unique |
| table zones | rows `table_zones` | create, update, remove; seed script | remove in two statements, crossing edits | no table in a zone that is gone, distinct names, edits that stand |
| menus (`modules/menus`) | rows `menu_items` and variants; cache entries | create, update, updateStatus, remove, cached reads | edits while checkouts run; cache refilled with old rows | orders priced from one menu; the cache catches up |
| categories | rows `categories` | create, update, reorder, remove; seed script | check then write; removal while an item is created or moved | no item on sale in a removed category |
| redis (`common/redis`) | cache and sessions with time to live | get, set, del, delByPattern | connection comes and goes, nobody awaits the invalidation | entries older than the last edit disappear |
| events gateway | rooms of sockets | order:new, order:status_changed, table:status_changed | broadcasts in another order than the writes, or lost | screens show the stored status in the end |
| reports | none | dashboard, revenue, sales | several queries at different instants, local day against UTC day | paid orders are revenue |
| attendance | rows `attendance`, `leave_requests` | clock-in, clock-out, leave | check then upsert, lost updates, day boundary | one clock-in per day; leave not overwritten |
| auth, payload encryption | refresh-token hash per user; keys in memory and Redis | login, refresh, logout, me; handshake, getSessionKey | crossing refresh and logout, expiry inside a request, restart | a logout lasts; a key is refused or dropped only for a reason |
| staff | rows `users` | create, update, remove, paged list; seed script | check then write against two UNIQUE columns; the list changes between and inside its pages | explained refusals, a list that misses and repeats nobody |
| settings | rows `branch_settings`, `shift_templates` | read, update, seed | seeding race, write-back of old columns | one branch row, choices that stand |
| banners, uploads, guards, filters | rows or files that nothing refers to; none | - | - | - |

Components meet in shared rows: `orders.service` writes `tables`,
`payments.service` writes `orders`, checkout reads what `menus.service` writes,
reports read all of it. After a write each service calls the gateway, in the
same process, and the gateway broadcasts.

`PROJECT.json` lists every hazard at its line with the properties that would
catch it.

## 2. Modules

| module | models | against |
|---|---|---|
| `DailyOrderBook` | abstract: per day a book into which only the next number is ever written | the doc comment of `generateOrderNumber` |
| `PaymentLedger` | abstract: codes are settled or fail once, credit has a cause, bell and answer follow it, nothing is taken back | `payments.service.ts`, the payment flow of `docs/flow/master-cafe-activity-flow.md` |
| `OrderPlacement` | concurrent `OrdersService.create`, with menu edits, table removal, midnight and crashes around it | `orders.service.ts` 36-185, `menus.service.ts` 268-394, `tables.service.ts` 299-333 |
| `CafeFloor` | the life of placed orders: `updateStatus`, `createQris`, `handleWebhook`, table sessions and edits, the three broadcasts, crashes, the payment gateway | `orders.service.ts` 273-325, `payments.service.ts`, `tables.service.ts` 83-297, `events.gateway.ts`, `reports.service.ts` |
| `MenuCache` | the public menu behind Redis: cache-aside reads, edits with an invalidation nobody awaits, time to live, a lost connection, crashes | `menus.service.ts` 19-123 and 205-401, `categories.service.ts` 169-286, `redis.service.ts` |
| `Attendance` | one row per member and day under overlapping clock-ins, clock-outs and leave requests | `attendance.service.ts` 26-213, 326-379 |
| `BranchSettings` | the settings row that the first read makes, updates that write back what they read, shift templates and their seeding | `settings.service.ts`, `settings.controller.ts` |
| `Catalog` | the rows behind the menu: categories and items under overlapping creates, moves, renames, removals, replacements of variant groups, and the seed script | `categories.service.ts` 134-287, `menus.service.ts` 182-401, `prisma/seed.ts` 182-199, 451-475 |
| `FloorPlan` | tables and zones: the administration of both, and the seed script | `table-zones.service.ts`, `tables.service.ts` 177-333, `prisma/seed.ts` |
| `StaffRegister` | accounts against two UNIQUE columns, and an admin who pages through them | `staff.service.ts`, `pagination.dto.ts`, `prisma/seed.ts` |
| `AuthSession` | login, refresh, logout and the handshake keys around every request | `auth.service.ts`, `ecdh.service.ts`, `decrypt-payload.middleware.ts`, `encrypt-payload.interceptor.ts` |
| `...Proofs` (of all modules but the two abstract ones) | theorems and their proofs; `AccountProofs` has those of `AuthSession` and of `StaffRegister`, which look at the accounts from two sides and whose names are kept apart for it | |
| `MC...` (of all modules but the two abstract ones) | values for TLC | |

The modules share no state. `CafeFloor` starts where `OrderPlacement` ends (an
order is placed in one step), and `MenuCache` and `OrderPlacement` look at menu
items from two sides: what guests are shown and what checkout charges. `Catalog`
is the third side, how the rows come to be what the other two read, and
`FloorPlan` is to `CafeFloor` what `Catalog` is to `OrderPlacement`.

### OrderPlacement

`req[r]` is the handler of one request: `Receive` (table lookup, `at = "menus"`),
`ReadMenus` (menu lookup and checks, `"count"`), `DrawNumber` (the count,
`"commit"`), `Commit` or `Refuse` (the transaction, which the UNIQUE number or
the foreign key may reject). The date is taken in `ReadMenus`:
`generateOrderNumber` computes it synchronously before its own await. An order
number is the pair of day and sequence; its formatting is abstracted, because
the prefix of one day is the prefix of no other day's numbers. Quantities,
variants and totals do not depend on shared state and are left out. `menuLog`
keeps all states of the menu so far: a history that `PricedAtOneInstant` looks
back into. `MenusService.create` adds items nobody has in a cart yet, so all
items exist from the start.

### CafeFloor

`job[h]` is a handler that writes an order (staff's PATCH or a webhook call) and
`desk[d]` one that writes a table. A first read that only looks up an id is
merged with the write after it: orders are never deleted, `tableId` never
changes and a table with an order cannot be deleted, so the read returns the
same whenever it happens. The write and the broadcast are separate steps.
`updateStatus` with PAID has two writes, `FlagTable` and `WritePaid`, in no common
transaction: the second may fail by itself (`FailUpdate`: the request is answered
with an error and the table stays flagged) or be cut off by a `Crash`. Any other
write of the two services is a single one, whose failure changes nothing. The
gateway (`codes`) is external: it settles or expires a code once and repeats its
notification until it has had an answer; in `Emit` the answer arrives or is
lost. `orderScreen` and `tableScreen` hold the last broadcast, `bells` the
orders the kitchen rang for. `disturbed` is history for `ScreensCatchUp`, `torn`
for `CleanupHasCause` (the unpaid orders whose marking as PAID broke off halfway),
and `crashes` bounds `Crash`.

`CafeFloor` implements `PaymentLedger` with the payment dates as credit, the bells
as what rang, the codes as they are, and `atTill` the orders that staff handlers are
marking (`Marking`), between `FlagTable` and `WritePaid`. The webhook's PAID is
`CreditByCode`, `WritePaid` is `CreditAtTill`, `Emit` is `Ring`, `AnswerSettled` or
`AnswerFailed`, and `FailUpdate` and `Crash` are `AbandonTill` or a stutter.

### MenuCache

`cache` is Redis: a key per item (`menus:item:<id>`) and per list query, whose
entry is the view of the rows it was made from. A read is `Lookup` (a hit answers
at once), `Query` and `Store`, three awaits apart. Each write of an item or a
category is one step that changes `menu` and starts an invalidation in `writer`;
the response does not wait for it. The invalidation is `ListKeys` (`KEYS`) and
`DeleteKeys` (`DEL`), as `delByPattern` runs them. While `connected` is false
every Redis call is a silent no-op, as in the code. Entries outlive the server.
`excused` is history for `StaleEntriesAreExcused`.

### Attendance

`rows` is the table with its unique pair of member and day; `job[h]` holds what
a handler has read: `FindIn`, `SelectRow`, `InsertRow` or `UpdateRow` for a
clock-in (Prisma's upsert with an include is a select and a write), `FindOut`
and `SaveOut` for a clock-out, `CreateLeave` and `MarkLeave` for a leave. The
date is the UTC date at the start of the handler, the times are taken between
two awaits and may be later. PIN and geofence refuse before anything is written
and are left out. `CutOff` ends a handler anywhere: a statement fails, or the server
is gone. `stale` and `replaced` are history: the requests that looked for a time
in the row, found none, and have been overtaken by another that recorded it; and
the rows whose clock-in was written over by another.

### BranchSettings

A row of settings is the value of its `storeMode`, which stands for the columns that
an update writes back when the request leaves them out (`dto.x ?? current.x`) and
for which the DTO has no default: name, address, openTime, closeTime, phone, email,
schedules and emergencyReason. It does not stand for geofenceRadius, lateGracePeriod
and timezone: the DTO fills them in (`branch-setting.dto.ts` 16, 19, 21), so a
request without them resets them. `FindSettings` and `CreateSettings` are the two
awaits of `getBranchSetting`, after which a handler goes on (`Resume`) as a read, an
update or the seeding of an empty template list. `findFirst` has no order, so it may
answer any row. The seeding is one `WipeShifts` and one `SeedShift` per default.
Templates carry an id, their code and whether they are active; their hours are
abstracted. `CutOff` ends a handler anywhere. `chosen`, `old` (the updates that read
before that choice was written), `undone` (one of them has written its mode over the
choice) and `whole` are history, `seen` in `job` the number of the last template
when the list was found empty.

### Catalog

A row's id is its place in `categories` or `items`, since rows are removed softly
and never deleted. `job[h]` is a request or a run of the seed script between two
of its statements: `CreateCategory`, `UpdateCategory`, `RemoveCategory`,
`CreateItem`, `UpdateItem`, `UpdateStatus` and `RemoveItem` are the first read of
each endpoint with its refusals, the others what follows. `SlugTaken` is the
check, which skips removed categories, `SlugIsFree` the UNIQUE index, which does
not: a slug of a removed category passes the one and fails the other. The
transaction of `MenusService.update` is two steps, `ReplaceGroups` (it deletes the
groups it sees, under READ COMMITTED) and `CommitItem` (its own groups appear);
in between others do not see either. Groups are told apart by the request that
sent them. `FindSeeded` picks any item on sale or none, because items carry no
name here. Prices, names, images, sortOrder and isActive are left out. `raced` and
`mixed` are history.

### FloorPlan

Zones and tables are deleted for good: a deleted row stays in its place with
`there = FALSE`, and what it held is reset so that equal states are equal.
`CheckZone` and `RenameZone`, `CheckTable` and `WriteTable`, `InsertZone` and
`InsertTable` are check and write; `DetachTables` and `DeleteZone` the two
statements of a zone's removal, the second with the foreign key's `SetNull`.
Prisma writes only the columns a request sends, which `Keep` stands for. A table
with orders is not deleted (`DeleteTable` may leave it): orders themselves are in
`OrderPlacement` and `CafeFloor`. `asked`, `emptied` and `halted` are history.

### StaffRegister

`edit[h]` is at the check of the email, at the check of the phone, at the write or
at the removal. The email is looked up among all accounts, the phone among those
not removed, and the indexes (`Free`) know all of them. `walk` is one admin who
reads page after page: `CountStaff` and `ReadRows` are the two queries of one
`Promise.all`, in either order, and `TurnPage` follows `hasNextPage`. `late`,
`start`, `twice`, `grown`, `shrunk` and `slipped` are history. Columns without a
check (name, role, hours, PIN) are left out.

### AuthSession

`session[u]` says that the column `refreshToken` is not null. That is all the
column decides: bcrypt compares the first 72 bytes, which end inside the user id
at the head of a token's payload, so the stored hash matches every refresh token of
that user. A request is `Arrive` (the middleware, with the lookup of its key),
`ReadUser` or `Deny`, `StoreToken` or `ClearToken`, `SendAnswer` (the
interceptor, with the second lookup) and `Finish`. `held` is the map in memory,
which is what is read; `copied` the copies in Redis, which are written and deleted
but never read. `phase` is the time of a key: before its handshake, until
`expiresAt`, after it. `Restart` empties the memory. `ended`, `crossed`, `lost`, and
`cross` and `lapsed` in a request, are history.

## 3. Runs

| run | cfg | question | answer |
|---|---|---|---|
| `order_numbers` | `MCOrderPlacement` | numbers, prices and tables under two concurrent checkouts; refinement of `DailyOrderBook` | holds |
| `cafe_floor` | `MCCafeFloor` | one order, two codes, two webhook calls, one staff and one table handler, one crash; refinement of `PaymentLedger` | holds |
| `payment_delivery` | `MCFloorDelivery` | does a settled payment reach order and kitchen (under fairness), and what does a table wait for cleanup for, with two staff handlers inside their two writes, either of which may fail or crash in between | holds; without a payment only where a marking broke off halfway |
| `menu_cache` | `MCMenuCache` | may an old menu entry outlive its invalidation, and for how long | only after a late fill or a lost invalidation, and until it expires (under fairness) |
| `attendance` | `MCAttendance` | what a day's row says after any overlap of clock-ins, clock-outs and leaves | right unless a second clock-in replaced the first, which only a request that looked before it can do |
| `branch_settings` | `MCBranchSettings` | rows of settings, lost choices and template seedings under two overlapping requests | a choice is lost only to an update that read before it; other properties hold |
| `catalog` | `MCCatalog` | is an item on sale ever in a removed category, and are its variant groups ever mixed | only when its move met the removal, or two replacements met |
| `floor_plan` | `MCFloorPlan` | may a table be in a zone that is gone, do names collide, does an edit undo another | holds |
| `staff_register` | `MCStaffRegister` | why a write is refused after its checks, and what paging through a changing list shows | refused for a named reason; misses and repeats only as named |
| `auth_session` | `MCAuthSession` | does a logout last, and when are keys refused or answers not encrypted, over two requests, two users, two keys and a restart | holds, but for the named crossings |
| `late_expiry` | `MCFloorExpiry` | is a paid order ever cancelled with no staff involved | violated: the expiry of a second code |
| `served_revenue` | `MCFloorRevenue` | is a served, paid order revenue | violated: only status PAID is summed |

The violations are findings in `PROJECT.json`, each with the line of the
document or test it contradicts. Five more departures from the documents need no
search, since one request or one call shows them, and so have no run:

- an unpaid order can be set to PREPARING: no transition is refused;
- a repeated settlement turns an order in the kitchen back to PAID;
- staff who mark an order PAID send its table to WAITING_CLEANUP at once
  (`orders.service.ts` 289-293), while the step "Bayar Lunas" of
  `docs/flow/master-cafe-activity-flow.md` (249) and the table lifecycle of
  `docs/integration/frontend-integration-guide.md` (757-766) keep it OCCUPIED
  until the guests have left. A payment by the gateway does keep it;
- `updateStatus` does not broadcast that WAITING_CLEANUP;
- seeding shift templates deletes the active ones too.

The models contain all five.

**Bounds.** Two requests, three orders and two days suffice for a collision of
numbers, a count that is outdated by a commit, and a commit after midnight; two
menu edits make a mix of old and new prices visible; the cart with a repeated
item is the one the length check refuses. On the floor, two codes for one order
give the crossing of settlement and expiry, two calls the overlap of
notifications, the staff handler and one crash the rest. The properties of
`cafe_floor` speak of one order each, and handlers of different orders meet only
in tables. `payment_delivery` has a second staff handler and a second table for
the two writes of PAID.

One item and one list query are enough for the cache: invalidation deletes every key
at once, so keys meet only in one `DEL`; two writers and a reader give the late
fill, the entry stored between `KEYS` and `DEL`, and two invalidations that cross.
For attendance the instants are an early and a late one of one date and one of the
next, which is where the UTC date changes; two requests make every lost update. For
the settings two requests and two modes make a double first read, a lost choice and
two crossing seedings; two default codes instead of three keep a loop that can be
interrupted in its middle, and admins reuse one of the default codes. In the catalog
two categories let an item move from one that is being removed to another and back,
one item is all that both properties speak of (items meet only in the count of a
removal, which one item decides), and two lists of groups are two crossing
replacements. Two zones and two tables give every collision of names, of numbers,
and of a move with a removal. Two accounts, two emails and one phone give the taken
email, the phone of a removed account and two writers that cross; pages of one
account make two accounts a list of two pages, in which an insertion or a removal
shifts the second one. Two users show that sessions do not touch each other, two
keys and two requests that a lookup for one request drops no key of the other; one
restart is enough because keys of before it stay lost.

In `branch_settings`, `catalog`, `floor_plan`, `staff_register` and `auth_session`
requests are interchangeable, no property is a liveness
property, and so the slots (and in `auth_session` users and keys) are symmetry sets.

`MaxDay`, `MaxOrders`, `MaxEdits`, `MaxOutages`, `MaxTime`, `MaxShifts`,
`MaxCategories`, `MaxItems`, `MaxLists`, `MaxZones`, `MaxTables`, `MaxStaff` and
`MaxCrashes` are the only bounds, all constants and named in guards. Deadlock is
not checked where a bounded model really ends or stops for its bound: all orders
placed at the last day (`MCOrderPlacement`), no staff and all notifications
answered (`MCFloorExpiry`), no template left to make in the middle of a seeding
(`MCBranchSettings`), no row left to insert (`MCCatalog`, `MCFloorPlan`,
`MCStaffRegister`), no key left (`MCAuthSession`).

**Fairness.** `FairSpec` asks weak fairness of the steps of a handler that
already runs (nothing in a handler waits for another one) and strong fairness of
the repeated notification, because a call slot is free only from time to time.
Guests and staff owe nothing. A webhook call whose statement fails changes nothing
and stays unanswered; that the model has no such step assumes that among the
repeated calls one is not hit by an error. Crashes are bounded, so they do not starve the
delivery; a server that crashes forever delivers nothing. In `MenuCache`
`FairSpec` asks only that an entry expires (`WF` of `Expire`): every `set` of the
menu has a time to live and Redis keeps it whatever the server does.

**Properties.** Besides one `TypeOK` per module (`StaffTypeOK` in `StaffRegister`):

- `NumbersAreSequential`, `ImplementsBook`, `DrawnNumberIsFree`: no gap and no
  duplicate, although count and insert are apart. It depends on three facts:
  the count is by prefix, orders are never deleted, and the UNIQUE constraint
  turns the loser of a race away.
- `PricedAtOneInstant`: prices and availability of an order come from one state
  of the menu between request and commit (not necessarily the last).
- `OrdersKeepTheirTable`: the foreign key repairs the check made too early.
- `AckedPaymentIsKept`: once the gateway stops repeating, the payment date is on
  the order and the bell has rung, whatever came in between.
- `ImplementsLedger`: an order is dated only for a settled code of its own or by
  a staff handler that marks this order; no failure, late or repeated, takes a
  date back; no answer and no bell overtakes the write (`BellsArePaid`, which is
  proved, follows).
- `PaidHasDate`: the two writers of PAID agree on the date.
- `ScreensCatchUp`: screens differ from the database only after overlapping
  updates or a crash, and the next update that is alone repairs it. It confines
  these two hazards and does not forbid them: the code allows both.
- `CleanupHasCause`: with no status set by hand, a table waits for cleanup because
  an order at it is paid, is being marked at this moment, or is in `torn`: its
  marking broke off between its two writes, by an error or a crash. That last case
  is a real gap of the code, which stays until the order is paid or the table is
  reset; nothing else leaves a flag without a payment, whatever overlaps.
- `SettledPaymentArrives`: liveness of the delivery.
- `StaleEntriesAreExcused`: listing and deleting the keys are apart and nobody
  awaits them, and still an entry that was current when it was stored does not
  outlive the invalidation after an edit. What remains is named: a reader that
  an edit overtook, and an invalidation lost to an outage or a crash.
- `StaleEntriesGo`: also those end, by the time to live and by nothing else.
- `StatusHasEvidence`: under any overlap, a status of presence has its clock-in,
  `COMPLETED` its clock-out, an absence its leave.
- `DayIsRight`: under any overlap the duration is the time between in and out, and
  the status is that of arrival and departure, unless a second clock-in has
  replaced the first: a clock-out that is under way then keeps the old arrival. The
  status of a day with a leave is not covered: leave and clock-in write it in
  whichever order they come.
- `FirstTimesStand`: a recorded time is written over only by a request that looked
  for it before it was recorded. Two clock-ins that find no row do that, and the
  code has nothing against it; one that comes later is always refused.
- `RowsPerReader`: the rows that overlapping first reads make stay bounded.
- `LastChoiceStands`: with one row the choice made last stands, through any number
  of overlapping updates. It is undone only by an update that read the row before
  the choice and sends no mode of its own (the write-back of old columns), and only
  until the next choice.
- `DefaultsArrive`: overlapping seedings may leave duplicates, which nothing in the
  code prevents, but no hole unless one of them is cut off.
- `AutoSeedSpares`: the seeding that a listing starts can delete what admins
  made after the list was found empty, never anything older.
- `LiveItemsAreListed`: the count before a removal and the check before a move are
  each read once and used later, and still an item on sale is in a category that is
  shown, except when that very move and that very removal had both looked before
  either wrote. A move or a creation afterwards repairs it.
- `GroupsOfOneList`: an update deletes the groups it sees and adds its own; two
  that overlap leave both lists, and the next one that is alone repairs it.
- `NamesAreDistinct`: the checks before the writes decide nothing, the indexes do.
- `LastEditStands`: an edit writes only what it was sent, so one that read the
  table before another edit, a zone's removal or a seeding does not undo it.
- `EmptiedZonesGo`: removal detaches first; only a removal that was cut off
  leaves a zone without its tables. `TypeOK` of `FloorPlan` has the foreign key.
- `RefusalsAreExplained`: who passed the checks is refused by an index only for
  another writer that was faster or for the phone it asks for, which another account
  that is removed still has.
- `GrowingListIsCovered`, `ShrinkingListDoesNotRepeat`: with offsets an insertion
  repeats rows and a removal hides some; neither does the other, except that an
  insertion between the count and the rows of one page can hide the last page.
- `EndedSessionsStayEnded`: a refresh that had read the session before a logout
  may store a token after it; nothing else brings the session back.
- `ClearAnswersAreLate`: the key is looked up twice, and the answer to an
  encrypted request is sent in the clear only if time ran out in between.
- `RefusedKeysWereLost`: a key that is not over is refused only after a restart.

## 4. Proofs

Checked by tlapm for every value of the constants that satisfies the module's
assumption (`PlacementAssumption`, `FloorAssumption`, `CacheAssumption` and
`NoEntryAssumption`, `AttendanceAssumption`, `SettingsAssumption`,
`CatalogAssumption`, `FloorPlanAssumption`, `AuthAssumption`, `StaffAssumption`):
any number of requests, tables, zones, items, categories, codes, keys, users, accounts,
defaults and crashes, and every page size.

| theorem | property | argument |
|---|---|---|
| `OrderPlacementProofs!Typing` | `TypeOK` | inductive by itself |
| `SequentialNumbers` | `NumbersAreSequential` | `NumInv`: with `DrawnInRange`, every drawn number is at most one above the present count; a commit whose number is free then writes exactly the next one |
| `FreeNumbers` | `DrawnNumberIsFree` | `NumInv`: if the book is `1..n`, then `n + 1` is free |
| `BookRefinement` | `ImplementsBook` | `Commit` is `Issue` of the day, every other step stutters |
| `TablesKept` | `OrdersKeepTheirTable` | commit checks the table, removal checks the orders |
| `ConsistentPrices` | `PricedAtOneInstant` | `PriceInv`: each request's quote is a state in its part of `menuLog`, and `menuLog` only grows |
| `CafeFloorProofs!Typing` | `TypeOK` | with `Referenced`: a handler's order and a code's order are placed |
| `PaymentsAreDated`, `BellsFollowPayment`, `AckedPaymentsAreSafe` | `PaidHasDate`, `BellsArePaid`, `AckedPaymentIsKept` | `PayInv`: an emitting handler with PAID serves an order that has its date; a handler that serves a code has written PAID exactly when the code settled; dates and bells are never taken back |
| `LedgerRefinement` | `ImplementsLedger` | with `PayInv` and `FlagsForPaid`: a write of PAID is a credit, a broadcast rings or answers, updates with other statuses stutter |
| `ScreensConverge` | `ScreensCatchUp` | `ScreenInv`: for an undisturbed order at most one broadcast is pending, and it carries the stored status |
| `OnlyASecondCodeCancels` | (none: `CancellationNeedsSecondCode`) | `PayerInv`: a PAID order has a settled code unless staff mark orders PAID; a settled code stays settled |
| `CleanupFollowsPayment` | `CleanupHasCause` | `CleanupInv`: a staff handler between its writes is always on its way to PAID; when it ends there its order is either paid already or becomes `torn`, and an order leaves `torn` only by being paid |
| `MenuCacheProofs!Typing`, `StaleOnlyByAccident` | `TypeOK`, `StaleEntriesAreExcused` | inductive; an edit makes entries stale and in the same step starts an invalidation that has all keys ahead of it |
| `AttendanceProofs!Typing` | `TypeOK` | with `JobsBacked`: a handler about to write has found the row, the clock-in or the leave its write needs |
| `EvidenceTheorem` | `StatusHasEvidence` | inductive with `JobsBacked` |
| `DayTheorem`, `FirstTimesTheorem` | `DayIsRight`, `FirstTimesStand` | `DayInv`: a request that is not stale still finds what it looked for missing (`Fresh`), the row a clock-out found still tells the arrival unless it was replaced (`FoundRowHolds`), and no time lies ahead of the clock (`NothingAhead`) |
| `BranchSettingsProofs!Typing` | `TypeOK` | inductive by itself |
| `RowsTheorem` | `RowsPerReader` | `RowsInv`: rows and reads about to make one are counted together |
| `DefaultsTheorem` | `DefaultsArrive` | inductive by itself, with the position of each loop |
| `AutoSeedTheorem` | `AutoSeedSpares` | `SeenInv`: while a handler is on its way to the wipe, every template is newer than its listing |
| `ChoiceTheorem` | `LastChoiceStands` | `ChoiceInv`: what an update has read is what the row says, unless it read before the last choice |
| `CatalogProofs!Typing` | `TypeOK` | with `RowsFound`: the rows a handler has found are there |
| `ItemsListed` | `LiveItemsAreListed` | `ListedInv`: moreover nobody has counted the items of that category and found none |
| `GroupsAgree` | `GroupsOfOneList` | `GroupsInv`: a replacement that is alone has dropped exactly the groups that are there, and two of one item know of each other |
| `FloorPlanProofs!Typing`, `DistinctNames`, `EditsStand` | `TypeOK`, `NamesAreDistinct`, `LastEditStands` | `PlanInv`, with `SentIsKept`: a handler writes what it was sent; every step is one of eight changes of the rows (`DataStep`) |
| `RemovalCompletes` | `EmptiedZonesGo` | with `EmptiedExist` and that no zone comes back |
| `AccountProofs!Typing` | `TypeOK` | inductive by itself |
| `LogoutHolds` | `EndedSessionsStayEnded` | `SessionInv`, with `OldReadIsCross`: a refresh that is about to write after a logout is marked |
| `AnswersStaySealed`, `KeysAreKept` | `ClearAnswersAreLate`, `RefusedKeysWereLost` | `KeyInv`: a key that was made is in memory, over or lost, and the key of an encrypted request is there until it runs out |
| `AccountProofs!StaffTyping` | `StaffTypeOK` | with `EditsFit`: a creation carries every column, any other request names an account that exists; a page that is turned to has a row (`EnoughPages`) |
| `ExplainedRefusals` | `RefusalsAreExplained` | `ChecksHold`: what a request has checked still holds, of all accounts for its email and of the live ones for its phone, or the request is late |
| `GrowingListCovered` | `GrowingListIsCovered` | `GrowingInv`: an account of the start that was not shown is in the list at a place not yet passed (`Behind`), and between count and rows the count is right |
| `ShrinkingListShownOnce` | `ShrinkingListDoesNotRepeat` | `ShrinkingInv`: what was shown is at a place already passed |
| `UnchangedListShownExactly` | (none: `UnchangedListIsExact`) | both of these, with `NoneNew`: nothing is shown that was not there at the start |
| `UniqueColumns` | (none: `ColumnsAreUnique`) | inductive; a column that is left out keeps a value that was unique |

The list theorems rest on four facts about places: the place of an account is the number
of live accounts after it, so it only rises when accounts are added and only falls when
they are removed (`MoreAbove`); it is less than the length of the list (`PlaceInList`);
page `p` ends where page `p + 1` begins (`SkipTyped`); and `TotalPages` pages hold all
rows (`EnoughPages`). Together they say that whoever has read the last page by its own
count has passed every place (`AllBehind`).

`OnlyASecondCodeCancels` is the other half of the run `late_expiry`: the run shows that
a paid order can be cancelled with no staff involved, the theorem that a second code of
the same order is the only way.

Four theorems state properties that no run lists (`BellsArePaid` and the three marked
"none"): they follow from, or stand beside, what the runs check. TLC finds the three to
hold as well, on the instances of `late_expiry` and `staff_register` and, for the list,
with pages of two accounts and four accounts.

The strengthenings are needed because none of the properties speaks of the
handlers in flight: `NumbersAreSequential` alone, for example, is not kept by a
`Commit` that holds an arbitrary number.

Only model-checked: `SettledPaymentArrives` and `StaleEntriesGo`, which are
liveness, and the two violations, which are single behaviours. Every safety property of
a passing run is proved.

## 5. Not modelled

- PostgreSQL, Redis, Socket.IO, JWT and bcrypt themselves: external. A statement
  or transaction is atomic; a broadcast reaches the joined screens or, in a
  crash, nobody.
- Wording, logging, response envelopes, validation of request bodies, roles.
- Uploads and banners (no interaction with other state), sums and rankings of
  the reports (arithmetic over one result set), the haversine distance
  (floating point).
- Signature check of the webhook: the model starts after it, with a notification
  of the gateway. The key that skips the check (`payments.service.ts` 84), and that
  the signature covers neither order id nor status, are outside the model.
- `reorder` and sortOrder (no other row depends on them), isActive flags, `updatePin`
  and other columns that are written once and checked nowhere in the service.
  `UpdateStaffSchema` is the partial of a schema with defaults, so an update
  that leaves `dailyShiftHours` out sets it back to 8, and in the category and
  zone schemas the default of sortOrder is applied before the branch that would
  number a new row last. An update of the settings that leaves geofenceRadius,
  lateGracePeriod or timezone out resets it. These are facts of one request, not of
  an interleaving.
- `limit = -1` of the lists (all rows in one query), `getTableStatus` (the last ten
  orders of a table, of whichever session): reads of one instant.
- bcrypt, JWT signing and the ciphers: the models have what their answers decide.

## 6. Plan

Done: the models above with their runs and both refinements, and the proofs of every
safety property that a run checks. Next, in this order:

1. The table view across sessions, composed with `CafeFloor`: which orders a new
   guest sees.
