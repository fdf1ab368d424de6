# Le Bercail: formal models of the backend

TLA+ modules, TLC runs and TLAPS proofs about the NestJS / Prisma / PostgreSQL
backend of *Le Bercail*, a food-ordering service: customers order and pay with
mobile money, the restaurant prepares, couriers deliver, and a back office may
do nearly anything by hand. Paths such as `orders/orders.service.ts` are
relative to the backend's `src/`; documents are in `docs/`.

The code runs as an event loop over a database. Handlers are asynchronous, each
`await` lets another request in, and the service is restarted at will. The
database runs its transactions at READ COMMITTED (`prisma.service.ts`, whose
comment announces serialisable ones) and the handlers check what they need
*before* their transaction, then update rows by primary key alone. Whether the
business rules survive that is what this project is about.

## 1. Inventory

| Component | State it keeps | Operations | Talks to | What is hard | What makes it correct |
| --- | --- | --- | --- | --- | --- |
| Orders (`orders/orders.service.ts`, `order-status.ts`, `unpaid-orders.ts`) | `orders`, `order_status_history` | create, updateStatus, cancel, expireUnpaid, applySystemTransition | pricing, recipes, payments, deliveries, customers, notifications | six ways to end an order; check-then-write | the state machine; no kitchen before money; every ending gives back what the order took |
| Counter sales (`orders/pos.service.ts`) | the same rows | create | recipes, announcements | sold and paid in one go, outside the state machine | the same guards |
| Payments (`payments/payments.service.ts`) | `payments`, the order's copy `paymentStatus` | doInitiate, confirm, abandon, markFailed, refund, call-back, reconciliation | operator, orders, promotions, customers | late, repeated, reordered call-backs; a closed page; a payment arriving after the deadline | money collected is undone only by a refund; the copy is right; a paid order reaches the kitchen |
| Operator (Chap Chap Pay) | the operation | opened, decided, announced, asked | payments | may never answer, may answer twice | external |
| Deliveries (`deliveries/*`) | `deliveries`, `driver_profiles.isAvailable` | assign, advance, complete, decline, fail, back-office correction | orders (system transition), drivers | two transactions per move; reassignment | a course ends with its order and frees its courier |
| Drivers (`drivers/drivers.service.ts`) | `driver_profiles`, `users.status` | availability, suspension, position | deliveries | availability is written by eight handlers | availability is deduced from the courses |
| Maintenance (`common/tasks/maintenance.service.ts`) | - | expiry, stale drivers, purges | orders, drivers | runs beside the requests | nothing stays unpaid for ever |
| Recipes (`finance/recipes.service.ts`) | `orders.stockConsumedAt`, movements | consumeForOrder | stock | concurrent preparation | one deduction per order |
| Pricing, promotions | `promotions.usageCount`, `coupon_usages` | quote, take, give back | orders, payments | the last use of a code | the count is that of the orders that hold it |
| Idempotency (`common/services/idempotency.service.ts`) | `idempotency_keys` | run, replay, purge | orders, payments | a crash between the key and the answer | an operation runs once per key |
| Stock, purchases, expenses (`finance/*`) | articles, movements, lots, documents | movements, receipts, settlement, cancellation | recipes, reports | lost updates, FIFO lots, rounding | the quantity is the sum of the movements |
| Synchronisation (`sync/*`) | outbox, applied ids, cursor, conflicts | push, pull, apply, recompute | every table | lost answers, cursors, two clocks | both nodes converge |
| Authentication (`auth/*`) | users, refresh tokens, activation and reset links, failed attempts | register, login, renew, logout, forgot, reset, change, activate, purge | users, drivers | simultaneous renewals and failures; a session that opens while the account closes | one live token per family; sessions follow the account; the count is that of the wrong passwords; a link serves once |
| Roles and permissions (`rbac/*`, `admins/*`, `common/guards/*`) | roles, individual permissions, their Redis cache | give, replace, resolve; suspend, remove; four guards on every route | every route | a cache older than the table; a right is spread over decorators, guards and handlers | nothing is used that no accepted list gave; the table of `docs/authorization.md`; a stale copy ends |
| Menu (`menu/*`, `dish-availability.service.ts`) | dishes, options, categories, stock-outs per house, cached pages | create, edit, mark sold out, remove; load | carts, orders, visitors | partial bodies; pages kept by Redis | dishes have their category; the promotional price is below the price; a page is the menu |
| Houses (`settings/*`, `kitchen-selector.service.ts`, `restaurant-router.service.ts`, `restaurant-scope.service.ts`) | restaurants, a memo per process | open, edit, close; nearest, oldest, choose | orders, carts, menu | a memo of a minute, a diversion to the next house | a closed house ends up without orders; what a cart shows is cooked by the house it names |
| Carts (`carts/*`) | cart lines | add (with its merge), edit, remove, clear, show | menu, houses, orders | the menu and the houses change under a cart | a cart opens and tells the truth; what is added while an order is created does not vanish |
| Addresses, promotions, reviews | their tables, the averages of what is rated | create, edit, default, remove; create, edit, activate, remove; rate | orders, menu | partial bodies, concurrent averages | one default; a discount below what it is taken from; averages that follow the reviews |
| Customers, favourites, throttling | their tables, counters of a window | edit, add, count | - | - | plain storage |
| Notifications, realtime, audit, reports, search, storage, mail, backup, health | logs and I/O | best effort, or read-only | everyone | - | not modelled: nothing reads their result back |

`PROJECT.json` lists each of them with its status, and under `hazards` every
place in this code that is hard to test, at its line.

## 2. What is modelled now

Six specifications: the core, which is the life of an order through orders,
payments, deliveries and drivers, over one set of tables; the idempotency keys;
the reserve, its articles, movements and purchases; the exchange between the
restaurant's server and the one online; the accounts, who has a session and what
each may do; and the public side, menu, houses, carts, address books, promotions
and reviews.

| Module | Models |
| --- | --- |
| `OrderStatus` | the order and delivery state machines, the payment guard, the driver-owned rule, as pure operators |
| `Store` | the rows, the pending requests, the shared writes (coupon, customer counters), row locks |
| `Orders` | `orders.service.ts`, `pos.service.ts`, `recipes.consumeForOrder` |
| `Payments` | `payments.service.ts` and, as an external actor, the operator |
| `Deliveries` | `deliveries.service.ts`, `driver-assignment.service.ts`, `drivers.service.ts` (status and availability), `releaseStaleDrivers` |
| `Bercail` | their composition, crashes, fairness, and all properties |
| `MCBercail` | the instances: which orders are placed, which routes are open |
| `Bercail_proofs` | the theorems of the core whatever interleaves |
| `Serial_proofs` | the theorems of the core when requests are served one after the other |
| `Idempotency` | `common/services/idempotency.service.ts`: the keys, the requests that carry one, retries, crashes, the purge |
| `OneAnswer` | abstract: while a key is remembered it has one answer, for the body that obtained it |
| `Idempotency_proofs` | the theorems of `Idempotency`, its refinement of `OneAnswer` among them |
| `Stock` | `stock.service.ts`: articles and their journal, and `applyMovement`, which the next one uses |
| `Purchases` | `purchases.service.ts`, the deduction of an order (`recipes.service.ts`), the settlement of a purchase's expense (`expenses.service.ts`); the specification and its properties |
| `Lots` | `followLot`: what is left of each purchase, first in first out, as recursive functions over the journal in the order of its dates |
| `MCStock` | the instance |
| `Stock_proofs` | the theorems of `Stock` and `Purchases` |
| `Sync` | `sync.service.ts`, `sync-apply.service.ts`, `sync.contract.ts` and the triggers of the `sync` migrations: two servers, what their applications write, the batches between them |
| `MCSync` | the instances: who owns which row |
| `Sync_proofs` | the theorems of `Sync` |
| `Catalogue` | `permissions.constant.ts`: the permissions, the base of each role, what may be delegated |
| `Routes` | the routes of the controllers with the decorators that guard them |
| `Directory` | the tables of accounts and what their handlers share; what a request holds |
| `Sessions` | `auth.service.ts`, `token.service.ts` |
| `Team` | `admins.service.ts`, `drivers.service.ts` and `customers.service.ts` over the account, `permissions.service.ts` for what is given |
| `Gate` | the four guards in their order, `jwt.strategy.ts`, the cached permissions, Redis |
| `Access` | the composition of the three, and all properties |
| `MCAccess` | the instances |
| `Access_proofs` | the theorems of `Access` whatever interleaves |
| `Sessions_proofs` | the theorems of `Access` when requests are served one after the other |
| `Shop` | the tables of the public side and what its handlers share |
| `Menu` | `menu-items.service.ts`, `categories.service.ts`, the cached pages, the memo of open houses |
| `Kitchens` | `restaurants.service.ts`, `settings.service.ts`, `restaurant-scope.service.ts`, `kitchen-selector.service.ts` |
| `Carts` | `carts.service.ts`, and what `createOrder` takes from a cart |
| `Profile` | `addresses.service.ts`, `promotions.service.ts`, `reviews.service.ts` |
| `Storefront` | the composition of the four, and all properties |
| `MCStorefront` | the instances |
| `Storefront_proofs` | the theorems of `Storefront` |

### How a handler becomes actions

A request slot (`requests[r]`) holds what a handler has read, and the next step
it will take. A handler is its first read, with its guards and early returns
(`UpdateStatusRead`, `CancelRead`, `Confirm`...), and then one action for each
later point at which another request may come between (`UpdateStatusCommit`,
`ConfirmTx`, `ConfirmCommit`...). What the code decides from a variable read
before an `await` the model decides from `requests[r].seen`, `.driver`,
`.previous` or `.target`; what the code reads again in its transaction the
model reads from the row.

A READ COMMITTED transaction is one step, at its commit: nobody sees its writes
before. Three are split because another request can change what they do half
way: `confirm` and `abandon` write the payment first (which locks its row:
`PaymentUnlocked`), then read the order and act on what they read;
`consumeForOrder` reads the mark and then writes it. Two writes outside any
transaction (`doInitiate`) are two steps. Retries of a deadlocked transaction
are the same step taken later. Handlers that call others (`abandon` and the
poll call the reconciliation, which calls the call-back, which calls `confirm`
or `markFailed`) name the step to return to in `back`. A crash (`Abort`) drops a
request at any step and keeps what it had committed; `CronCrash` is the error
that ends `expireUnpaid`'s loop, which has no handler.

### What is abstracted

- Amounts: each order is worth one. Prices, fees and points are left out.
- Payment methods: cash, or mobile money. An online order has a customer
  account; a counter sale has none.
- One promotion and one customer: the ledgers are sums, so one of each shows
  whether they balance.
- Time: an order is fresh, past the cancellation window (10 min), or past the
  payment deadline (45 min).
- Reasons: nobody, the closed page, the deadline, a person. The code recognises
  its own reasons by their text; the model keeps the result of that recognition.
- Availability requests: the four combinations of flags the application sends.
- Confirmation codes, positions, estimates, notifications, audit: left out; no
  modelled state depends on them. A courier who gives the wrong code takes no
  step.
- `AccountStatus` `PENDING`: no driver is created in it.
- The idempotency wrapper of `initiate` and `create`: a specification of its
  own (`Idempotency`); without it the core allows more, never less.

In `Idempotency`, a body is its hash, an answer is the effect it came from, and
an operation either takes effect and may then fail (what `createOrder` does after
its commit is in the same `try`), or fails before. In the reserve:

- Quantities are whole numbers of the smallest unit that `roundQuantity` keeps
  (a thousandth); prices are the unit cost, rounded as `Math.round` does.
- A purchase has one line and an order one ingredient: a document's lines are
  treated one after the other, in one transaction.
- Units, alert thresholds and reasons are left out.
- A journal is in commit order, and each movement carries its date. "Now" is the
  position the movement would take in its journal (`now`), so later movements are
  dated later; a date given (`Dates`) is any other number, 0 being before all that
  is recorded; none given (`NoDate`) is now (`dateOr`). `followLot` reads the journal
  by date, then by position, which is `createdAt` (`byDate`).
- A transaction that reads an article and writes it is two steps (`MoveRead`,
  then the commit), since another may read in between.

In the exchange (`Sync`):

- The application of each server is any sequence of writes the routes allow: an
  order moved (its row and a row of history, one transaction), edited without
  moving, a document written or deleted by a server that does write it. A
  transaction may stay open while others commit; it is not rolled back otherwise
  than by a restart. A write that changes nothing is not journaled by the
  trigger, and is no step here.
- A row is the write it comes from, how far the order has gone, and `updatedAt`;
  two updates of different columns are two versions of the row, as they are to
  an upsert of the whole row. Documents stand for the rows of one owner
  (`Owner`), and `Writers` says which servers write them: the write of a server that
  does not own a document is journaled like any other and refused by the peer
  (`refusedBy`), for good. They have one rank in a batch: the ranks between documents
  only order them among themselves, and they do not depend on each other here.
- `clock` is the time of both servers. `Gaps` says how far it moves between two
  writes: `{1}` when no two share a millisecond, `{0, 1}` when they may.
- `applyOne` is two steps, the examination of a change and its write. The
  recomputation of a status is two as well. A database error during the
  recomputation, and a conflict that could not be recorded, are only logged by
  the code and are left out.
- A request may be lost on the way or on the way back, or be given up after ten
  seconds while the other server still works on it; then there are two runs of
  `apply` at once (`Handlers`). Either server may restart at any step.

In the accounts (`Access`):

- A refresh token or a link is the number of its row; an access token is worth
  what its account is, as `JwtStrategy.validate` reads it again at each request.
  A password is how often somebody chose one, and whether a request shows the
  right one is a choice. Hashes, signatures, mails, user agents are left out.
- The clock is three external actions: a token, a link or a lock ends.
- Roles never change, as in the code. One SUPER_ADMIN, who has every right, is
  behind the requests of staff.
- Handlers are split as in the core. `Sessions` splits where the code reads, and
  only then opens a transaction or issues a token.
- `wrong`, `opened`, and the passwords a family or an activation remember, are
  ledgers: the code does not read them.

On the public side (`Shop` and what extends it):

- Houses stand on a line, addresses and applications too; the distance is the
  difference. `MaxDistance` and the fee of the delivery are left out.
- A dish has one group of options; a body holds any part of what its DTO allows
  (`UsualBodies`: one thing at a time, or a price with its promotion, which are
  compared together). Prices are small numbers, and amounts are those of one line.
- The cached pages are one page, with the houses it was loaded for: every key
  of the menu is deleted by one pattern.
- The opening hours are whether a house is open now, which its staff change.
- A body of a dish or of a promotion writes what it holds and leaves the rest, as
  Prisma ignores `undefined`: among them `isAvailable`, by which the edition of a
  dish sets what `setAvailability` sets (without its rule on the houses), and the cap
  and the switch of a promotion.
- Redis may fail to delete the pages, which then stay (`InvalidateFails`), and its
  entries end. It failing to read or to keep a page only makes a visitor load the
  tables once more, which the model allows anyway.
- A copy of each house's row is kept ten minutes by Redis (`getRestaurantCached`) and
  deleted by each edition. What it serves is the fees, the minimum, and whether a
  house is open to a customer without a point: the model reads the table there, so a
  copy that is older than the row is not shown.
- `written` is a ledger: how often the menu was written and its pages to be deleted.
  `mix` is not code: it bounds which
  routes one behaviour calls, and is chosen at the start.

## 3. Runs

Four runs are on `MCBercail`, one on `Idempotency`, one on `MCStock`, two on
`MCSync`, two on `MCAccess` and one on `MCStorefront`. `CHECK_DEADLOCK FALSE`
everywhere: the number of requests in a behaviour is bounded (`MaxCalls`), and a
restaurant may have nothing to do.

**Passing.**

- `serial_ledgers` - one request at a time (`MaxInFlight = 1`), two orders, up
  to six requests, plus cron, clock and operator. Coupon and customer ledgers
  balance (`LedgersBalance`) through every cancellation, expiry,
  closed page and revival; the copied payment status is right
  (`CopyWhileOpen`); every move is one of the state machine or the revival
  of an order that no person has cancelled (`StatusMachine`); only a refund undoes a payment (`CollectedUntilRefunded`).
  Six calls are enough to create both orders, pay one, lose it, revive it and
  cancel it again. The back office's `fail` route is closed here: it breaks
  `CollectedUntilRefunded` by itself (section 5).
- `serial_courier` - one request at a time, one cash or counter order, two
  drivers, up to ten requests: assigned, handed over, declined, failed,
  corrected, served. A course under way is that of an order that has not ended and
  of a driver who is not suspended (`NoStrayCourse`); a driver whose last course ends,
  or is taken from him, is free at once (`FreedWithItsCourse`); the customer's total is what
  was served, and the ingredients left the stock once (`CountedOnce`). Ten calls are one more than
  the longest way from creation to a delivered course with one hand-over.
  Refunds and unpaid expiries are closed here: sections below show why.
- `race_kitchen` - two requests interleaved at every step, crashes, every route
  of orders and payments and most of the couriers': no online order reaches the
  kitchen, its stock or a courier before its money
  (`KitchenOnlyAfterMoney`), and the tables and the suspended requests keep their
  types (`TypeOK`, which says what each step knows).
- `race_deadline` - two requests interleaved, fair: an unpaid order past its
  deadline is closed (`StaleUnpaidCloses`), a paid one is announced to the
  kitchen (`PaidReachesKitchen`). No crash here: announcing after the commit is
  lost with the process, and nothing repeats it.
- `idempotency` - one key, two bodies, two request slots, up to four requests:
  first attempts, retries with the same body or another, failures before and
  after the effect, crashes and the purge. The operation of a key runs once at a
  time (`OneAtATime`), takes effect again only for each effect that went
  unanswered (`RunOncePerAnswer`), every answer is the first one
  (`KeepsPromise`, the refinement of `OneAnswer`), and a key left in progress is
  freed (`KeyComesBack`). `RunOncePerAnswer` says no more because the code does
  no more: an operation that took effect and then failed is run again by the
  retry, since the same `catch` deletes the key in both cases. The purge takes
  a key only when no request holds it: keys live 24 h, requests seconds.
- `stock` - one article, two purchases and an order, one request at a time, any
  of them failing between two steps, up to five requests. The journal justifies
  the counter (`JournalJustifies`), only a preparation goes below zero
  (`PreparationAloneGoesBelow`), a purchase agrees with its expense and its goods
  came in once and went back once (`PurchaseAccounted`), the average cost stays between the
  prices given (`CostBetweenPrices`), the lots, replayed by the
  dates people gave, are used oldest first and add up to the counter
  (`LotsMatchStock`). A movement or a purchase is dated as it is recorded, or before
  everything; `LotsMatchStock` asks of these dates that nothing go out before it had
  come in (`neverShort`), and that an article of which an inventory was made have its
  movements dated in order. Five requests are enough to create an
  article, buy twice, take some out, and cancel a purchase partly consumed; a
  quantity of 0 reaches the limits, the portion of an order (3) exceeds a
  purchase (2), and a line of 5 for 2 units rounds (two prices then, 1 and what the line costs).
  `CostBetweenPrices` is about articles never below zero; section 5 shows why, and
  what each condition of `LotsMatchStock` leaves out.

- `sync` - four documents: one of each owner that only it writes (a menu, an
  address), one of each that the peer writes too (a promotion, whose uses the orders
  placed online count; a course, whose courier the back office names) and whose
  writes there the peer refuses. Three writes, two changes per request, one lost
  request, timeout or restart, no database error (section 5 has one). The cursor
  passes nothing that was not treated (`NothingSkipped`), the copy of a document
  that only its owner writes equals it once all is received (`OwnedCopyFollows`),
  and what an owner writes is applied by the other side, past the changes it refuses
  (`Arrives`), unless these fill LOCAL's page: `push` takes the refused with the
  rest, oldest first (`sync.service.ts:120-124`), so a page of them lets nothing newer
  leave (`heldUp`). Three writes are one refused change beside two versions of a
  document, which is what a late or repeated batch could swap; or two refused
  changes, which fill the page before a third.
- `sync_shared` - one order, created online and moved or edited by both servers,
  five writes in batches of two, a lost or late answer and a database error. A
  change is written once on the peer (`WrittenOnce`), what is marked as sent was
  applied there (`SentWasApplied`). Five writes
  are an order created and moved once more (two changes each) and an edit; two
  runs of `apply` are what one lost answer can leave.

  In both, the clock gives every write its millisecond and one transaction is
  open at a time: without either, the cursor skips a change (section 5).
- `sessions` - an ADMIN, a customer and a driver who have no account yet, one
  request at a time, four requests and the clock in between, two wrong
  passwords before a lock. A family has one live token (`OneLivePerFamily`),
  sessions follow the password and the status of their account
  (`SessionsFollowTheAccount`), failures are counted (`FailuresCounted`), a link
  chooses one password (`LinkOpensOnce`), whoever is inside a route has the
  right of the table of `docs/authorization.md` (`FollowsTheMatrix`) and still has
  the permission its guard asked (`EntersWithPresentRights`). Four requests open
  an account, use a session, change what it rests on and come back; `TheDoors`
  holds the routes of the table and one at least of every kind of guard.
- `gate` - two requests of an ADMIN interleaved at every await of the guards,
  while a SUPER_ADMIN changes his permissions and Redis goes away and returns.
  No permission is in the table, the cache or a request that no accepted list
  gave (`OnlyWhatWasGiven`), and a cache that disagrees with the table ends
  (`StaleCacheEnds`).
- `storefront` - one desk for staff and customers and one visitor of the menu,
  three houses of which two are open at the start, four requests of one of
  eleven mixes of routes. Categories, dishes and carts hold together
  (`MenuHoldsTogether`), no sequence of partial editions makes a promotion worth
  more than the price (`PricesSound`), a cart opens and names a house that cooks
  what it shows (`CartTellsTheTruth`), a page loaded since the last change is the menu
  (`CurrentPage`), an address book has one default (`OneDefault`), averages follow
  the reviews (`NotesFollowReviews`), and what is kept for a while and is no
  longer true ends (`OldReadingsEnd`). Four requests fill a cart, change what it
  rests on twice and order. Two desks cross in section 5.

**Violation.** `find_terminal` (`TerminalStays`) - a cancelled order confirmed by
a request that had checked it earlier, against `docs/orders.md:17`. The others are
in section 5.

**Bounds.** `MaxInFlight` (1 or 2) is how many requests may be between two of
their steps; the expiry job counts as one while it runs. Every race found in
this code is between two actors. `MaxCalls` bounds the requests of a behaviour,
`UsageLimit` is the promotion's limit. In `Access`, `MaxTokens` and `MaxLinks` are
the rows a behaviour may issue (a request that may open a session finds room for
it), and `MaxAttempts` is 2 where the code says 5. In the public side, a book holds
two addresses instead of 20 and a line two pieces instead of 50, so that both
limits are reached, and a rating is shown from two reviews. In `Sync`, `MaxWrites` bounds the changes
journaled, `MaxCuts` what is lost, late or restarted, `MaxErrors` the database's
errors, `MaxOpen` the transactions open at once. Orders and drivers are symmetric where
no liveness is checked. The theorems need none of these bounds.

**Fairness.** The event loop resumes a suspended request (`WF` on `Proceed(r)`
for each slot) and the scheduler runs `expireUnpaid` again and again and each
selected order is treated (`WF` on `ExpireSelect` and `ExpireOne`): Node.js and
`@Cron` provide that. In `idempotency`, the same of the slots, and of the hourly
purge (`WF` on `Purge`). In `sync`, a transaction ends (`WF` on `Commit`), a run of
`apply` goes on (`WF` on `Apply(h)`) and the cycle runs again and again (`WF` on
`Exchange`, which `setInterval` provides); requests may be lost, up to
`MaxCuts`. In `gate`, a request goes on (`WF` on `Proceed(r)`) and an entry of Redis
reaches its five minutes (`WF` on `CacheExpires(a)`): both are needed, since a reader
may write late what he read early. In `storefront`, what is kept for a time ends,
the pages of Redis and the minute of the router (`WF` on `PageExpires` and
`MemoExpires`); nothing is assumed of requests. Nothing is assumed of customers, staff, couriers or the
operator, so no property waits for them.

## 4. Theorems

**The core, whatever interleaves** (`Bercail_proofs`), for any number of orders,
drivers, request slots, requests in flight and calls, under `StoreAssumption` (the
null markers are not ids; a counter sale has neither coupon nor delivery, as
`pos.service.ts` has no field for them):

- `TypeCorrect`: `Spec => []TypeOK`. Besides the tables, a request past its first
  read names an order (and the driver, status or target its next step writes):
  the handlers never write to a row they have not found.
- `NothingStarts`: `Spec => []NothingStartedUnpaid`.
- `NoKitchenBeforeMoney`: `Spec => []KitchenOnlyAfterMoney`.

`KitchenOnlyAfterMoney` is not inductive: a request that has passed the payment
guard and not yet written could move an unpaid order, and a course given to an
unpaid order would move it later. The strengthening says why neither can be:
while an online order's money has never come in, the order is pending or
cancelled, its payment and its copy say neither paid nor refunded, nothing left
the stock, no course exists, and *no suspended request is past a guard*
(`PastTheGuard`, and no caller waits to announce it). `everPaid` is a history
variable, set where a payment becomes `PAID` and never reset; so a refund does
not reopen the question, and the property is exactly "no kitchen before money",
not "no kitchen without money now" (which is false after a refund). The proof
goes action by action: those that leave the order's rows and requests alone are
dispatched by one lemma, the others each show the conjunct they touch.

**The core, one request after the other** (`Serial_proofs`: `OneByOne` is
`MaxInFlight <= 1`; the clock, the operator, the cron job and crashes still come
between two steps of a request). Any two crossing requests break most of these
(section 5), so the hypothesis is the result: the guards of the code are right,
and nothing but the order of arrival makes them enough.

| Theorem | States | Routes closed, and why |
| --- | --- | --- |
| `TheTableIsFollowed` | `StatusMachine` | none |
| `TerminalIsTerminal` | `TerminalStays`, which `find_terminal` breaks with two requests | none |
| `RefusalsStand` | `RefusedStaysRefused`, `RefundOnce` (section 5 breaks both with two) | none |
| `LedgersAreBalanced` | `LedgersBalance` | none |
| `CollectedStays` | `CollectedUntilRefunded` | the back office's `fail`, which has no guard |
| `CopyTellsTheTruth` | `CopyWhileOpen` | crashes: `doInitiate` writes its two rows outside any transaction |
| `CoursesEndWithOrders` | `NoStrayCourse` | expiry, or else both `refund` and `fail`: an order whose money was taken back may expire with its course |
| `ServedOnce` | `CountedOnce` | `refund`, which takes back what was not counted yet |

The argument has three steps. `SInv` says that what a suspended request has read is
still so when it writes (`StillTrue`, step by step), that what the cron job has
selected is still unpaid, and that an online order and its payment agree on
whether the money is there. Under it, every step of `Bercail`, whichever handler it
comes from, is one of eight effects on the rows of one order - created, sold,
moved, closed, revived, billed, carried, deducted - or moves none (`Summary`). Each
property is then proved of the eight effects. The two ledgers are sums over sets of
orders; a step moves one order, so a lemma on cardinalities relates the set before
and after.

**Idempotency**, for any number of keys, bodies, slots and requests, crashes
included:

- `Implements`: `Spec => KeepsPromise`, the refinement of `OneAnswer` where the
  answer kept is the one stored in the key's row;
- `OneRunAtATime` and `RunsAreAnswered`: `OneAtATime` and `RunOncePerAnswer`.

The inductive invariant adds to the types that a request past the creation of
its key is the only one to hold it and that the key is then in progress
(`HeldBy`), and that a completed key has an answer (`KeysOK`): a holder may then
complete or delete the key without looking, as the code does.

**The reserve**, for any number of articles, purchases, orders and requests, any
quantities and costs. Whatever the interleaving:

- `SupplyTypes`: `Spec => []TypeOK`; a suspended request knows what it works for,
  and nobody settles or cancels a purchase that does not exist.
- `CounterIsLatest`: `Spec => []CounterEndsJournal`. A
  movement writes the counter and the journal in one commit, and the article's
  row lock orders the commits: losing a movement (section 5) breaks
  the chain between two movements, never the end of it.
- `CostsBetweenPrices`: `Spec => []CostBetweenPrices`. The strengthening says the
  same of the cost a suspended request has computed and not written
  (`ComputedBetween`); lemmas on products, quotients and rounding show that a
  weighted average of two costs, as `Math.round` leaves it, is between them.

Under `OneSlot` (there is one request slot; section 5 breaks each with two):

- `SumOfMovements` and `OrdersAloneGoBelow`: `JournalJustifies` and
  `PreparationAloneGoesBelow`. The
  strengthenings are that a movement about to be written was computed from
  where the journal now ends (`WriteLinks`), which is what interleaving breaks,
  that what the journal holds is already linked (`Chained`), and that an
  article not created yet has neither movement nor quantity (`BeginsEmpty`).
- `PurchasesAccounted`: `PurchaseAccounted`. `Documents` goes case by case through a
  purchase and its expense (`Paired`; the pair is out of step between the two
  writes of a settlement), counts its goods in the journals (`Goods`) and says what a
  request half way may count on (`MayClose`).
- `LotsMatchCounter`: `LotsMatchStock`, for any dates. `followLot` sorts the journal
  by date, then replays it: recursions over the journal and over the lots each
  movement is served from. The lemmas say what a recursive function over `0..n` is
  (`Iterated`, `Same`), what serving a quantity does to the lots (`Serving`, `Served`),
  what one movement does (`Replayed`), hence that lots replayed without ever running
  short hold the sum of the effects, in the order of the dates. That sum is the
  counter's: an insertion keeps it where no movement is an inventory
  (`InsertedAdds`, `ByDate`), since the effect of an entry or an exit does not depend on
  where it stands, and where the dates are in order the sorted journal is the journal.
  An induction is `Climb`: a set that holds zero, and with each number the next,
  holds them all, from the well-foundedness of `<`.

**The exchange**, for any number of rows, writes, runs of `apply` and any batch
size, under `SyncAssumption` (an order is not a document; owners and bounds have
their types):

- `SyncTypes`: `Spec => []TypeOK`, where a batch in flight is always part of what
  the peer journaled.
- `EachChangeOnce`: `Spec => []WrittenOnce`. The strengthening ties the ledger to
  the key: a change written on the peer of its author is in `sync_applied`
  there, and that table is a key. Nothing else prevents the second write: two
  runs of `apply` may both have found the change unknown.
- `SentIsApplied`: `Spec => []SentWasApplied`. A run only ever accepts what is
  applied where it works, and what LOCAL waits for is a run on CLOUD that
  carries LOCAL's changes (`Accepted`, `Assigned`).
- `CursorSkipsNothing`: `Alone => (Spec => []NothingSkipped)`, where `Alone` says
  that at most one transaction is open and that no two writes share a
  millisecond. The page being applied holds, or the tables already do, all that
  comes before its last change (`WholePage`); what commits meanwhile comes after
  everything journaled (`ComesLater`). Both hypotheses are needed: section 5 has a
  trace without each.
- `OwnedCopies`: `Steady => (Spec => []OwnedCopyFollows)`, where `Steady` adds that no
  write fails on the peer: one that fails is set aside and sent again after later
  ones (section 5). `Copies` says that both rows of a document are the last of the
  writes that reached them (`Follows`), that the peer has applied a beginning of them,
  with no hole, and that every run takes them in their order (`InOrder`), even when
  two runs carry the same ones.

**The accounts**, for any number of accounts, tokens, links, requests and calls,
any lists asked for and any routes, under `DirectoryAssumption` and
`GateAssumption` (roles, lists and statuses are what the schema and the DTOs
allow). Whatever the interleaving:

- `TypeCorrect`: `Spec => []TypeOK`; the strengthening is what each step needs of
  what its request holds (`GoodRow`): an account, a token to renew, a link to
  spend.
- `NothingElseIsGiven`: `Spec => []OnlyWhatWasGiven`. Three places hold
  permissions - the table, the cache, a request under way - and each is filled
  from another, later: the invariant is about the three at once, and about the
  list a SUPER_ADMIN's request was allowed to write but has not written yet.
- `TableIsFollowed`: `Spec => []FollowsTheMatrix`. What a request inside has shown to
  the guards is kept in its row (`Entered`); the rest compares, route by route, the
  decorators with the table of `docs/authorization.md`.

Under `OneByOne` (`Sessions_proofs`; section 5 breaks each with two requests, time
passes between their steps):

- `OneTokenRenews`, `SessionsFollow`, `FailuresAreCounted`, `LinksOpenOnce`:
  `OneLivePerFamily`, `SessionsFollowTheAccount`, `FailuresCounted` and `LinkOpensOnce`,
  from one invariant: two live tokens of a family, one is being renewed (`LiveOnce`);
  a session its account may not keep is about to be closed (`WorthySessions`); the
  row of an account is its ledger of wrong passwords (`Persons`); two unused links
  are never rivals (`LinksGood`); and what a request has read is still so (`Held`).
- `WithdrawnAtOnce`: `EntersWithPresentRights`, with Redis up (`"outage"` closed): the
  cache is the table, or the request that made it older is about to drop it
  (`CInv`).

**The public side**, for any menu, houses, carts, promotions, readers and calls,
under `ShopAssumption` (prices and percentages are naturals, option groups and
the opening menu have their types, there is a customer). For any number of desks:

- `TypeCorrect`: `Spec => []TypeOK`, with what each step needs of what its request
  holds (`RowOK`) and each reader has read (`ReaderRows`).
- `PromotionsHold`: `Spec => []PromotionsSound`. The
  strengthening says of a row about to be written what it says of those on offer
  (`OffersKept`): type, value and dates are written together, read or sent, so two
  crossing editions overwrite each other and never mix.
- `PageIsTheMenu`: `Spec => []CurrentPage`. While no request is about to delete the
  pages, a page, or what a visitor is about to keep, that is as recent as the last
  write is the menu (`PageInv`).

Under `OneDesk` (requests come one at a time; visitors still read between their
steps; section 5 shows what a second desk does):

- `MenuHolds`, `PricesHold`: `MenuHoldsTogether` and `PricesSound`. The strengthening,
  `Pending`, says that what a request has read still holds when it writes: the
  category of a dish about to be created is there, a category about to go is empty.
- `OneDefaultAddress` and `AveragesFollow`: `OneDefault` and `NotesFollowReviews`
  (`BookInv`, `ReviewInv`: the same of the next default and of the averages computed).
- `CartTruthful`: `CartTellsTheTruth`. What a cart shows is computed from the tables
  when it is shown; what has to be kept is that a line counts at least one
  (`CountInv`), with what the theorems above keep (`Held`, `BookInv`).

**Only model-checked.** The liveness properties - `StaleUnpaidCloses`,
`PaidReachesKitchen`, `KeyComesBack`, `Arrives`, `StaleCacheEnds`, `OldReadingsEnd` -
rest on fairness and `ENABLED`, which are out of the prover's reach.
`FreedWithItsCourse` is not proved: the eight effects of `Summary` say of a driver
whether he is suspended, not whether he is free. Every other property of a passing
run is stated by a theorem.

## 5. Disagreements without a listed run

These were met while modelling. Each row is an instance that shows its trace: a
configuration, what to change in it, and the property to check instead of its
own (`tlc -config <file> <module>`).

**The core** (`find_core.cfg`, `MCBercail`). "One request" is `Requests = {r1}` and
`MaxInFlight = 1`.

| Changes | Property | What happens |
| --- | --- | --- |
| none | `RefundOnce` | two refunds that both read a collected payment both commit (`payments.service.ts:776`, against `docs/payments.md:65`) |
| `Ops <- AbandonOps` | `CollectedUntilRefunded` | closing the payment page overwrites a payment confirmed a moment before (`payments.service.ts:614`, against its comment at 586-588) |
| one request, `Ops <- StaffFailOps` | `CollectedUntilRefunded` | `POST /payments/:id/fail` has no guard (`payments.service.ts:696`): a paid payment becomes failed |
| `Ops <- RefusedOps` | `RefusedStaysRefused` | a payment that read an expired order revives it after the restaurant has cancelled it (`payments.service.ts:405`) |
| one request, `Ops <- ExpiryOps`, `MaxCalls = 7` | `NoStrayCourse` | a refunded order, assigned while confirmed, expires and leaves its course under way (`orders.service.ts:917`, against the comment at 987) |
| one request, `Orders = {o1, o2}`, `Shapes <- CashOnly`, `Ops <- BusyOps`, `MaxCalls = 8` | `AvailableIsDeduced` | a cancellation frees a driver who still carries another order (`orders.service.ts:818`, against `docs/deliveries.md:164`) |
| one request, `Shapes <- CashOnly`, `Ops <- SettleOps`, `MaxCalls = 7` | `CopyFollowsDelivery` | a cash order with a failed payment is delivered: copy paid, payment failed (`orders.service.ts:1076`) |
| `Shapes <- CashOnly`, `Ops <- PrepareOps`, `MaxCalls = 5` | `DeductedOnce` | two moves to preparation both read an order not yet deducted |
| `Orders = {o1, o2}`, `Shapes <- CouponOnly`, `Ops <- CreateOps`, `MaxCalls = 2` | `CouponWithinLimit` | two creations take the last use of a code; a revived order takes one beyond the limit, too |
| one request, `Shapes <- CashOnly`, `Ops <- EarlyOps`, `MaxCalls = 8` | `DeliveredTogether` | an order assigned while confirmed is delivered by its courier, and stays confirmed |
| one request, `Shapes <- CashOnly`, `Ops <- NoCourierOps`, `MaxCalls = 8` | `HomeDeliveryHasDriver` | the back office serves a home delivery nobody carried |
| one request | `SpentIsWhatWasKept` | a refund before delivery makes the customer's total negative (`payments.service.ts:801`; `docs/payments.md:66`) |

The comment of `consumeForOrder` (`recipes.service.ts:249`) and
`docs/gestion.md:190` say that the mark is set first so that it survives a
failure of the movements. It does not: both are in one transaction, and a
failure rolls back the mark with the rest, which is what `ConsumeCommit` does.

**The reserve** (`find_stock.cfg`, `MCStock`).

| Changes | Property | What happens |
| --- | --- | --- |
| none | `JournalJustifies` | two movements of one article read the same quantity: the journal keeps both, the counter one (`stock.service.ts:421`, against `docs/gestion.md:98`) |
| `MaxCalls = 4` | `CancelledStays` | a settlement that had read the purchase commits after its cancellation: cancelled goods, paid document |
| `MaxCalls = 4` | `ReturnedOnce` | two cancellations of one purchase take its goods out twice |
| `Requests = {r1}`, `MaxCalls = 4` | `CostAlwaysBetweenPrices` | an entry after a negative stock: the average cost leaves the range of the prices, and may be negative |
| `Requests = {r1}`, `MaxCalls = 4` | `LotsAlwaysMatchStock` | dates in order, after a negative stock, the lots no longer add up to the counter: what was missing is not served from the next entry |
| `Requests = {r1}` | `LotsMatchWhateverTheDates` | stock entered today, an exit dated yesterday (`stock.service.ts:390`; `purchases.service.ts:282` for an entry): the replay, by date (`purchases.service.ts:419`), serves the exit from nothing, and the lots hold more than the counter |
| `Requests = {r1}`, `MaxCalls = 4` | `LotsMatchInventories` | an inventory dated before what it counted: replayed there, the quantity it found is compared with a reserve that did not exist yet, and the lots hold more than the counter |

**The exchange** (`find_sync.cfg`, `MCSync`).

| Changes | Property | What happens |
| --- | --- | --- |
| none | `NothingSkipped` | a transaction journals, another one journals later and is pulled, the first commits: it is before the cursor, and the restaurant never receives it |
| `Orders = {}`, `BatchSize = 1`, `Gaps <- Ties`, `MaxWrites = 2`, `MaxOpen = 1` | `NothingSkipped` | two changes of one millisecond, the page ends between them: the second is never pulled |
| `Orders = {}`, `Documents = {menu}`, `MaxWrites = 2`, `MaxOpen = 1`, `MaxErrors = 1` | `OwnedCopyFollows` | a change whose write failed is sent again after a newer version was applied, and puts the older one back: an owner's word is never dated (`sync-apply.service.ts:133`) |
| `SPECIFICATION FairSpec`, `Orders = {}`, `Documents = {menu, course}`, `BatchSize = 1`, `MaxWrites = 2`, `MaxOpen = 1` | `EveryWordArrives`, a `PROPERTY` | a course named by the back office is refused by the online server and sent again at every cycle (`sync.service.ts:120-124`, against its comment at 146-147): it fills the page, and a newer menu never leaves. The code's page holds 200 by default |
| `Documents = {}`, `BatchSize = 6`, `MaxWrites = 6`, `MaxOpen = 1` | `StatusFollowsHistory` | an edit of an order carries the status its sender knew: applied after the order has moved here, it puts it back, and no row of history comes with it to have it recomputed |
| `Documents = {}`, `BatchSize = 4`, `MaxWrites = 4`, `MaxOpen = 1` | `NeverOverNewer` | the application writes an order between its arbitration and the write of the peer's version (`sync-apply.service.ts:99-105`) |
| the same | `SetAsideWaits` | what the peer set aside is sent again at every cycle: `push` selects the failed too (`sync.service.ts:121`, against its comment at 146-147) |

**The accounts** (`MCAccess`).

| Configuration | Property | What happens |
| --- | --- | --- |
| `find_sessions.cfg` | `OneLivePerFamily` | two uses of one refresh token both find it good: two live tokens in its family (`token.service.ts:159`) |
| `find_sessions.cfg` | `FailuresCounted` | two wrong passwords read the same count and write the same next one (`auth.service.ts:228`) |
| `find_sessions.cfg` | `LinkOpensOnce` | a link read twice before it is marked chooses two passwords (`auth.service.ts:551`) |
| `find_sessions.cfg` | `SessionsOfThisPassword` | a sign-in that has compared the former password opens its session after the change has closed the others |
| `sessions.cfg` | `RemovedHasNoSession` | a removed customer's or driver's account, whose deletion leaves a status that signs in or a link, opens a session again |
| `find_gate.cfg` | `EntersWithPresentRights` | a permission is withdrawn while Redis is away, or a reader caches late what he read early: it serves until the entry expires, five minutes at most, where `permissions.service.ts` says "sur la requête suivante" |

`docs/authorization.md:80` announces 34 permissions for an ADMIN; the constant
gives 36, and not the writing of cards. A `PENDING` account that is suspended
becomes `ACTIVE` by its activation link (`auth.service.ts:668-677`), which closes
no other session.

**The public side** (`find_storefront.cfg`, `MCStorefront`, two desks). The routes
named replace `Mixes`; the first property is an action property (`PROPERTY`), the
others are invariants.

| `Mixes`, `MaxCalls` | Property | What happens |
| --- | --- | --- |
| `{{"addItem", "checkout"}}`, 3 | `EmptiedWhatItOrdered` | a dish added by another request of the customer while the order is being created vanishes with the cart (`orders.service.ts:443`) |
| `{{"updateDish"}}`, 3 | `PromoBelowPrice` | the price is lowered while a promotion is being set: each was right (`menu-items.service.ts:247`) |
| `{{"createDish", "removeCategory", "removeDish"}}`, 3 | `NoOrphanDish` | a dish is created in a category being removed |
| `{{"addItem", "removeDish"}}`, 3 | `CartsHoldTheMenu` | a dish is added to a cart after its removal has emptied the carts of it |
| `{{"createAddress", "setDefault", "removeAddress"}}`, 5 | `OneDefault` | the next default is chosen, and removed, before it becomes one |
| `{{"createReview"}}`, 3 | `NotesFollowReviews` | two averages are computed by transactions that do not see each other's review |

Also: an update `isActive: false`, or two closures at once, close the last house
(`restaurants.service.ts:199-207` counts in `close` only); once the oldest house is closed, a customer without an address is still served by it
(`restaurant-scope.service.ts:96-122`); an option withdrawn from a dish closes the
cart that holds it (`carts.service.ts:68-69`); an update of an address with
`isDefault: false` leaves a customer without a default.

## 6. Not modelled, and what could come next

- Opening hours, delivery zones and fees, loyalty points, the limit of a code per
  customer: arithmetic on settings; nothing else depends on them.
- Expenses typed by hand, payroll, suppliers, recipes as documents, the finance
  report, dashboards, search, exports: rows written one at a time, or read-only.
- Realtime, notifications, push, mail, storage, audit, backup, health,
  configuration: I/O whose result nobody reads back.
- Throttling and favourites: counters and a set.
- Controllers and DTOs, beyond the guards of the routes (`Routes`) and the values
  the actions take; generated code.

Next, in this order: `OrderContract`, what the core promises a customer, and the
serial core shown to implement it, from `Summary`; the pricing of an order; what one
mutex per order, which the code does not have, would make of section 5.
