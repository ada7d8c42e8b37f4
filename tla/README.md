# A TLA+ development of the WorksAuto API

WorksAuto is the back end of a car workshop: appointments, work orders, stock,
invoices, payments and customer accounts, for many tenants. It is a NestJS
service on PostgreSQL (through Prisma), Redis and BullMQ. This directory holds
models of the parts of it that several requests change at once, the
configurations that check them with TLC, and proofs checked with TLAPS.
`PROJECT.json` is the index: it maps every definition that models code to its
lines, lists the runs, the mutants that show each property can fail, the
findings, the hazards and the theorems.

Paths below are relative to the repository; `modules/` is `src/modules/`.

## 1. The system

### How its parts interact

A request passes the guards (JWT, tenant, role, consent, idempotency key), the
idempotency interceptor, and then a use case or service. That reads rows, checks
them, writes through a repository and finally broadcasts a WebSocket event,
queues notifications and writes an audit row; errors of the last three are
swallowed. There is one database and there may be several processes; nothing is
shared between requests but PostgreSQL, Redis and the BullMQ queue (in Redis).

Two facts about the persistence layer decide most behaviours:

* `PrismaService` runs every operation that is not already in a transaction in
  one of its own, at READ COMMITTED. So *two repository calls of a use case are
  two transactions*: what the first read may be false when the second writes, and
  the process may die in between.
* Within `prisma.$transaction` reads take no lock. What serialises writers is an
  advisory lock, a conditional `UPDATE ... WHERE`, a unique or exclusion
  constraint, or nothing.

### Inventory

| Component | State | Operations that change it | Hard behaviour | What makes it correct | Module |
|---|---|---|---|---|---|
| invoices | invoices, their items, the customer's account row, provider settings | create (with offset of an advance), cancel with reversal, settings | advisory lock taken after the first checks; absolute writes next to increments | the account is the sum of its documents; one invoice in force per work order; a cancelled invoice is final | Billing, Workshop (settings) |
| payments | payments, PayTR attempts, invoice amounts, account row | cash payment, advance, token for PayTR, PayTR notification | repeated and concurrent notifications; checks before the lock | an attempt is booked once; an invoice is never overpaid | Billing |
| current-accounts | balance, debits, credits | written by invoices and payments only | two writers with different techniques | balance = debits - credits | Billing, Ledger |
| work-orders | orders, items, totals, product stock, notes, numbers | create, add/update/remove item, status, rollback, cancel with return of parts, notes, assignment, messages | status check outside the transaction; totals summed from a snapshot; two transactions for a cancellation | stock never negative; parts are conserved; numbers differ | WorkOrders, Workshop, Staff, Notices |
| inventory | products, movements, shelves, cells | create, edit, movement, archive, places, shelves deleted | an edit writes the row it read; the movement row comes in a second transaction | each change of stock has its movement; a product's shelf is that of its cell | Warehouse, WorkOrders |
| appointments | appointments | create (staff, online), reschedule, approve, no-show, set status, cancel, status written by work orders | whole row written from an old copy; several lock keys for overlapping slots | no mechanic or lift booked twice; a cancelled booking stays cancelled | Appointments, Staff, Customers, Workshop, Reminders |
| idempotency interceptor | a key in Redis: PROCESSING or an answer | acquire, look up, store, release, expiry | lock with a time to live, Redis failing, process dying, lost COMMIT answer | one effect per key; answers replayed to the same request only; a dead holder does not block the key | Idempotency |
| auth | refresh tokens in families, codes and counters in Redis | send/verify code, register, refresh, logout, the check of each call | read-then-set counters; claim, revoke and insert in separate transactions | a family has one live token; a logged-out one has none; at most 5 wrong codes | Sessions |
| notifications, events | notification rows, settings, sockets | create (fan out over channels), settings, socket joins | the staff, sockets and settings change between the steps; errors swallowed | rows and sockets tell the same people; a channel switched off stays silent | Notices |
| queues | BullMQ jobs | add, retry, stall, worker | the text is repeated with the job; an appointment moves while its reminder waits | one reminder, of the present start; every job ends | Reminders |
| staff, admin users | users, mechanics, leaves, administrators | create, edit, remove, leaves, administrators suspended and deleted | every check is in an earlier transaction than its write | owners are changed by owners; leaves do not overlap; one administrator remains | Staff |
| customers, vehicles | customers, vehicles, consents, links | create, edit, archive, restore, anonymise, import, transfer, consent links | no constraint on phones; whole entity written by id | phone and identity of an anonymised customer stay gone (the address is kept); no archived debtor; no vehicle without owner | Customers, Workshop (odometer) |
| tenants, services, media, legal | bays, services, photos, logo, consents, tenants | create, edit, delete, onboarding, uploads, signatures | count then insert; object store and row written apart | bookings keep service and bay; a listed photo and an uploaded logo have their objects; an opt-out holds | Workshop |
| guards | none | admission to a route | what the token says is older than the account | no call after the logout | Sessions, Staff |
| audit, dashboard, health, bootstrap | append-only log; none | - | - | - | not modelled |

The hazards this gives rise to are listed at their lines in `PROJECT.json`, with
the properties that would catch each, or with the reason why none does. Hazards
with one cause are one entry (a check before the transaction that writes, for
leaves and for bookings, say).

## 2. The modules

| Module | Role |
|---|---|
| `Totals` | the sum of a column over a finite set of rows: the number of its units, each a pair of a row and a count |
| `Billing` | invoices, payments, PayTR attempts, accounts: the advisory-lock protocol |
| `Ledger` | abstract specification: what the accounts promise, without locks or requests |
| `WorkOrders` | orders, items, stock, cancellation and return of parts, edits of products |
| `Appointments` | the appointment book and the exclusion constraints |
| `Idempotency` | one idempotency key, its attempts, and Redis |
| `Sessions` | one-time codes, families of refresh tokens, the check of each call |
| `Staff` | accounts, mechanic profiles, leaves, who may be booked, administrators |
| `Notices` | a notification from its callers to rows, sockets and the queue |
| `Reminders` | the queue's jobs, the worker, the provider, a clock |
| `Warehouse` | products, movements, shelves and cells |
| `Customers` | customers, vehicles, consents and the links that give them |
| `Workshop` | bays, services, photos, notes, numbers, odometer, settings, logo, consents, tenants |
| `MC*` | instances of these for TLC |
| `TotalsProofs`, `BillingProofs`, `WorkOrdersProofs`, `AppointmentsProofs`, `IdempotencyProofs`, `SessionsProofs`, `StaffProofs`, `WarehouseProofs` | theorems and proofs |

What composes what: `Billing`, `WorkOrders` and `Warehouse` use `Totals`, `Billing` refines
`Ledger`. The others meet through what one does to the other's tables, modelled
as an action of its own: work orders write statuses in `Appointments`
(`OrderWrites`), take and return parts in `Warehouse` (`Take`, `Return`), hold a
customer in `Customers` (`Hold`); a cancelled appointment cancels an order in
`WorkOrders` (`CancelAppointment`), an invoice completes one and its cancellation
reopens it (`WriteInvoice`, `CancelInvoice`). Products of whole modules are beyond TLC.

Operators whose name ends in an underscore and a word (`MayConfirm_Always`) are
variants: what the operator after them would be with a plausible bug. No
specification uses them; each property is seen to fail with one of them.

Everywhere: a step of the model is one statement, or one transaction whose parts
nothing else can observe or disturb. A rejection made before the first write has
the same effect as a request never made, so checks that involve no modelled
state (a date is not past, a field is not empty) are left out, and checks that do
are guards of the `Start...` actions. A request that stops half-way (a failed
statement, the end of the process) is modelled wherever it leaves something behind.

Two components are proved about in one module where their names do not clash:
`Reminders` in `AppointmentsProofs` (both are about the start of an appointment),
`Notices` in `StaffProofs` (both about the staff), `Customers` in
`IdempotencyProofs`, `Workshop` in `WorkOrdersProofs` (both about orders). These four
name their specification after themselves: `QueueSpec`, `NoticeSpec`, `CustomerSpec`,
`WorkshopSpec`, with `QueueInit`, `QueueNext` and so on.

### Billing

`modules/invoices/infrastructure/prisma-invoice.repository.ts`, the create and
cancel use cases, and `modules/payments/payments.service.ts`. Tables are
functions; a row is named by the request that inserts it. A request goes
`idle -> ready -> locked -> read -> idle`: `Start*` are the checks before the
transaction, `AcquireLock` is `pg_advisory_xact_lock`, `Read` the locked checks
and the values kept for the writes (`seen`), `Commit*` the writes and COMMIT,
`Reject` a check that throws under the lock, `Abort` a statement that fails, a
transaction that times out, or the end of the process. `ChangeWorkOrderStatus` is
the work-order module, which takes no such lock. Amounts are integers in cents.
The unique indexes of the schema are left out on purpose: the properties show
that no statement runs into them.

`Billing` implements `Ledger` under the mapping at its end: an invoice is a
charge, reversed when cancelled; cash or PayTR money is a receipt; an advance
offset is nothing. Every commit is exactly one posting.

### WorkOrders

`modules/work-orders/infrastructure/persistence/prisma-work-order.repository.ts`
and its use cases, plus the writers of the same tables elsewhere: the cancellation
of an appointment, the edit of a product, the creation of an invoice and its
cancellation. An item request goes
`checked` (the status seen without a lock) `-> ready` (item read, rows to write
known) `-> worked` (product and item rows updated, hence locked until COMMIT;
items summed) `-> idle`. A status change is one write; a cancellation then owes
the parts, reads the items (`ReadRestore`) and returns them in another
transaction (`Restore`). `Abort` is a failure or the end of the process anywhere.
An invoice reads the order without a lock and completes it (`WriteInvoice`); the
advisory lock of the customer keeps other invoices of the order away, not the writers
of its status. Its cancellation sets the order to IN_PROGRESS whatever it is by then
(`CancelInvoice`): an order that was rolled back, cancelled and whose parts were
returned comes back with its lines, and its parts are on the shelf as well. It looks
for no other active order of the vehicle either. `PartsLostOnlyWhenOutdated` names
that step, and names an invoice whose status was outdated when it was written.
The total of an order is the sum of its quantities; prices and tax rates only
weigh that sum.

### Appointments

`modules/appointments/`. A request reads a booking into its copy (`entity`), makes
the mechanic and the lift check as separate reads, and writes the whole copy
(`Write`, which is `save` and the insertion of `create`). `create` first takes its
advisory lock and repeats the checks (`Lock`). `Cancel` writes only the status.
`Accepts` is the pair of EXCLUDE constraints of the last migration that touches
them; PostgreSQL applies them to every write, so they are the guard of `Write` and
`OrderWrites`. The initial book is any book the constraints allow. `read` and
`cancelled` are history variables.

### Idempotency

`shared/interceptors/idempotency.interceptor.ts` on top of
`redis.service.ts`. One key; keys do not interact. `Acquire` is SET NX EX 60,
`Lookup` the GET of a key held by another, `CommitHandler`, `Return`, `Throw` the
handler (which may throw after its commit when the answer of COMMIT is lost),
`Store` and `Release` what the interceptor does with the outcome, `Die` the end of
the process, `Expire` the time to live, `RedisFails`/`RedisReturns` its
availability. A command that fails may have taken effect (`FailAcquire`).
`lapsed` is history: the key expired, or a handler ran without it.

### Sessions

`modules/auth/auth.service.ts`, `shared/security/access-identity.ts` and
`jwt.strategy.ts`. `StartSend`, `StoreCode`, `Deliver` send a code;
`StartVerify`, `CheckCode`, `Consume` verify one; `StartRefresh`, `Claim`,
`CheckAccount`, `Grant` rotate a token; `StartCall`, `CheckSession` admit a call.
`Got` and `Put` are Redis: a read may find nothing, any part of a write may be
lost. `RevokeFamily` is the `updateMany` of a logout and of a reused token. `spent`
and `sealed` are history: used codes, and families revoked while no refresh held
a claim. A family revoked *while* a refresh holds its claim gets one more token
(the insertion comes later); the property excludes that case by `Claimants`.

### Staff

`modules/staff/staff.service.ts`, `modules/admin/services/admin-users.service.ts`,
the leave check of the appointments, the assignment of orders and the role guard.
A request reads and checks (`Start...`), keeps what it saw (`row`, `seen`), and writes
later. A user stands for its phone, which is unique. A request names rows by their
ids: when an account or a leave is deleted, the requests that hold it find nothing
any more, even if a new account takes the same phone (`Forget`). `DeleteProfile` and
`DeleteAccount` are two transactions.

### Notices

`notifications.service.ts`, `events.gateway.ts` and the seventeen places that call
`createNotification` (`Call` takes the roles, the recipient and the channels of
any of them). The phases are the awaits of `createNotification`: targets, rows,
emission, settings, queue, and after them the caller's write of `lastNotifiedAt`
(`stamp`). An error is swallowed (`failed`); where the process has no queue, or
delivery is suppressed, `addNotificationJob` returns null and nothing is queued
(`Bypass`). The caller whose answer needs the id of the notification fails without one,
and when `lastNotifiedAt` cannot be written, which nothing catches (`StampFails`): both
are `refused`, with the customer's message queued already.

### Reminders

`notifications/workers/notification.worker.ts`, `queues/queue.service.ts` and the
planning of a reminder by the appointments. `Office` opens, moves, ends and reopens
an appointment, or dies before it has planned the reminder; `Work` is one step of the
worker on a job (`Take`, `Look`, `Send` and its failures, `Record`); `Stall` is a worker
that died, `StallSending` one that died when the provider already had a message. BullMQ's attempts and stalls are modelled
from the options the code passes. `Post` hands a message in: it waits for the morning
only if its caller gave a text for the customer and a phone (`quiet`). The approval of
an appointment gives no such text, and its SMS leaves at night as well
(`Reminders_night.cfg`).

### Warehouse

`modules/inventory/`. `Resolve` finds the place of a product, `Write` is `save`
of the entity as read, `Record` the movement in its own transaction. `book` is the
sum of the movements, `drifted` the products whose stock left it by a count, an
edited stock, an overwritten row or a movement that was lost. `Pending` is what the
requests in the phase `record` have written and not yet booked.

### Customers

`modules/customers/`, `modules/vehicles/` and the public booking. Requests look
(`seen`, `held`), then write. `Standard` is the normal form an import gives a phone
and the other writers do not, `Forms` the forms it looks for. A row of an import
without a phone is not looked for: it makes a customer, and every such customer gets
one phone, `Unknown` (`'05000000000'` in the code), with no race at all. Of the other
columns the model keeps two parts (`Data`): the identity, which an anonymisation
removes (names, e-mail, tax number and office, notes), and the address with its city
and district, which it leaves in the row. The address is given when a customer is made
and by no later write. Anonymisation locks the customer's row, hence the
chain `CustomerChained` of its log. A booking that finds the customer's vehicle in
use is done when it has looked (`BookLooks`); it writes only one that is archived or
not there (`BookVehicle`).

### Workshop

Rows that few requests touch, but from several modules at once: tenants (bays,
onboarding), services, media, legal, admin tenants, and of the work orders the
notes, the number and the odometer, of the invoices the settings. Each operation
is a `Start` and one or more writes; rows are numbered by insertion. `DrawNumber` is
the atomic upsert of `DocumentSequence`. Deleting a tenant fails once its contract
was signed: `tenant_consents.signed_by_user_id` is ON DELETE RESTRICT (migration
`20260911220000`, line 58), and `Drop` says so. An empty secret in the settings never
clears the stored one (`Stores`). The link of the logo is written by the upload and,
as any text, by the profile (`UpdateProfile`), for which nothing is stored: `typed` says
which of them wrote last. The odometer is written by a new order, by an edit of the
vehicle, and by an import, without a comparison (`ImportVehicle`). A tenant's id is a fresh uuid: `FreshTenant`.

## 3. What is checked

| Run | Instance | What it shows |
|---|---|---|
| `billing_books` | 3 requests, 1 customer, 1 order, 1 attempt | the books in every interleaving, and that `Billing` implements `Ledger` |
| `billing_answers` | 2 requests, fair | every request ends |
| `orders_stock` | 2 requests, 1 order, 2 items, 1 product, every operation, invoices included | stock is never negative; parts appear or vanish only in the steps `PartsLostOnlyWhenOutdated` names |
| `appt_book` | 2 requests, 2 bookings, 1 mechanic, 1 lift, every operation | no double booking; a closed booking is reopened only in the named ways |
| `idem_keys` | 3 attempts, 2 payloads, Redis failing | exclusion while the key lasts, faithful replays, the key is freed |
| `sessions` | 1 user, 2 requests in flight for ever, 3 tokens, 1 code | a family never forks, a sealed one stays so, nobody late is admitted, the count of wrong codes falls only by the named race |
| `staff` | 2 users, 3 requests, 2 leaves, 1 booking, 2 days | owners, profiles, bookings, leaves and the last administrator |
| `notices` | 2 of the staff, 1 call, 2 channels, 2 changes | rows and sockets agree; switched-off channels are silent; what an answer, a written `lastNotifiedAt` and an error say of the queue |
| `reminders` | 1 appointment, 1 message, 2 attempts, 1 stall, 4 instants, fair | no unexplained repetition, quiet nights for messages with a text for the customer and a phone, the reminder tells the row, every job ends |
| `warehouse` | 1 product, 2 shelves, 2 cells, 2 requests | stock is the sum of its movements; places agree |
| `customers` | 2 customers, 1 phone in two forms and the one of rows without, 1 plate, 2 requests | phone and identity stay gone; shared phones, archived debtors, ownerless vehicles only by the named races |
| `workshop` | 2 requests of any kind | photos and uploaded logos have objects, numbers differ, six rules are broken only by a request that read an older state |

Properties that hold exactly are stated as such (`LedgerBalanced`,
`NoDoubleBooking`, `SessionsConsistent`, ...). Where the code leaves a window open
the property says precisely how wide it is (the names ending in
`OnlyWhenOutdated`, the premise `~lapsed` of `KeyExcludes`, the history variables
`drifted`, `emptied`, `stripped`), so that a new window would be noticed.

### Counterexamples that are kept

Seven further configurations are not part of the checked runs; each asks for more
than the code gives, and TLC answers with a trace of the window.

| Configuration (module) | Property | What happens | What is said elsewhere |
|---|---|---|---|
| `Orders_cancel` (`MCWorkOrders`) | `StockBalanced` | the return of parts is guarded by the status read before the cancellation was written (`update-work-order-status.use-case.ts:94`); two that overlap both return them, one whose process dies returns none | `docs/architecture/WORKS_AUTO_MODUL_VE_OPERASYON_DOKUMANI.md:120`: the stock is balanced without error |
| `Orders_totals` (`MCWorkOrders`) | `TotalsMatchItems` | two overlapping changes of items of one order leave the totals of one of them (`prisma-work-order.repository.ts:555`) | the same document, line 119: stock and totals are synchronised at once |
| `Orders_vehicle` (`MCWorkOrders`) | `OneActiveOrderPerVehicle` | the look-up of an active order and the insertion are two transactions | the comment at `create-work-order.use-case.ts:54` |
| `Appointments_revived` (`MCAppointments`) | `CancelledStays` | `save` writes every column of an old copy (`prisma-appointment.repository.ts:311`), so a reschedule undoes a cancellation that came after its read | the message at `appointment.entity.ts:104` |
| `Idempotency_once` (`MCIdempotency`) | `FinancialAtMostOnce` | the key is lent for 60 seconds (`idempotency.interceptor.ts:93`), after which a retry runs the handler again | `README.md:120`; but `docs/REMEDIATION_PLAN.md:69-71` says the key is no exactly-once ledger |
| `Reminders_night` (`MCReminders`) | `EveryNightIsQuiet` | a message is delayed only with `customerMessage` and `recipientPhone` (`notifications.service.ts:160`); the SMS of an approval has no such text (`update-appointment-status.use-case.ts:65-74`) and is due at once | the comment at `notifications.service.ts:158`: messages to customers wait for the morning from 21:30 to 08:30 |
| `Customers_address` (`MCCustomers`) | `NothingPersonalLeft` | an anonymisation writes neither address nor city nor district (`prisma-customer.repository.ts:761-775`) | the note it leaves, line 771: the personal data were anonymised |

### Bounds, and why they are enough

Two requests show every race of two actors on unlocked reads, since a request
reads and writes once or twice.

* `billing_books` has a third slot because slots name rows and the interesting case
  is a payment and a cancellation of an invoice a third request made.
* `orders_stock`: one product and two items show both a shared and a separate row.
  The shelf begins with one part (`StockOfOne`), quantities are 1 and 2, so the last
  part is wanted twice; `Levels = {1}` is what the warehouse may enter, and
  `MaxStock = 1` stops refunds of refunds from growing without end (a guard on new
  requests only, `Begin`). The counterexample configurations use two parts.
* `appt_book`: slots `<<0,2>>` and `<<1,3>>` overlap without sharing a start, so they
  have different lock keys, and `<<1,0>>` ends before it starts. The earlier booking
  is any row of the one mechanic at `<<0,2>>`, in any status, with or without the
  lift (`EarlierRows`).
* `sessions`: request slots are reused, so a behaviour has any number of requests, two
  at a time; three tokens are a login and two rotations; two wrong codes stand for
  five and one code an hour for five, the limits being reached in both. The theorem
  of section 4 is for any of these numbers.
* `staff`: three requests, because a removal or a change is disturbed by a second
  actor whose own account a third changes (the last administrator).
* `notices`: `MaxChanges = 2` changes of accounts, sockets or settings in one call.
* `reminders`: times 1 and 2 are the night, `Lead` is 1; two attempts and one stall
  for three and BullMQ's own limit; one worker at a time shows a job waiting.
* `warehouse`: stocks up to 2, so that two parts are received and taken apart.
* `customers`: three beginnings: one customer with an address, two, or one that is
  archived. A customer who holds the phone of rows without one is
  joined by an import of such a row. An
  update that is given no phone and writes back the one it read (`WritesBack`) makes
  two share it only beside a third request; the theorem covers that case.
* `workshop`: beginnings with and without bays, service, booking and consent; the
  notes begin with one of a mechanic (a manager's has fewer cases) and the settings
  with one stored secret.

Symmetry is used in runs of safety properties only; `billing_answers`, `idem_keys`
and `reminders`, which check liveness, use none. Deadlock is checked in Billing,
Sessions and Notices, which never run out of requests. The other modules use up
their requests, bookings or time, and may stop.

### Fairness

* `Billing`: weak fairness of the steps of an accepted request after its lock
  (the event loop runs it, the database answers or the transaction times out) and
  strong fairness of `AcquireLock`, because PostgreSQL grants an advisory lock to
  its waiters in the order they asked. Nothing makes clients send requests.
* `Idempotency`: weak fairness of `Expire` alone; Redis expires keys whether or
  not it is reachable. Handlers may hang or die.
* `Reminders`: weak fairness of the clock and of `Work` on each job: every API
  process starts the worker, and the job of one that died is handed to another. The
  provider answers, fails or is given up after its time-out; it need not be fair.
* All others: safety only.

## 4. What is proved

For every value of the constants that satisfies the named assumptions (finite
sets of requests and items, `None` not a row, amounts natural, slots pairs of
integers, positive limits, the job of an appointment not that of a message, no
initial customer archived who was never made, in `Workshop` finitely many names and
tenants and initial rows of the schema's types):

| Theorem | Says |
|---|---|
| `BillingProofs!TypeCorrect`, `BalanceIsDebitsMinusCredits`, `InvoicesCoherent`, `WorkOrderInvoicedOnce`, `AttemptBookedOnce`, `CancellationFinal` | the books, except sums |
| `BillingProofs!MoneyIsItsDocuments`, `AdvanceSpentOnce` | the sums |
| `BillingProofs!BillingImplementsLedger` | the refinement |
| `WorkOrdersProofs!TypeCorrect`, `NeverOversold` | stock is never negative |
| `WorkOrdersProofs!PartsAreConserved` | parts appear or vanish only in the steps the code leaves open |
| `WorkOrdersProofs!StoredIsThere` | a listed photo has its object (but for a deletion half way), and the logo unless its link was typed; no two orders have one number |
| `WorkOrdersProofs!SetupBrokenWhenOutdated` | the six rules of `Workshop` are broken only by a request that read an older state, or gives an older odometer |
| `AppointmentsProofs!TypeCorrect`, `NeverDoubleBooked` | no double booking |
| `AppointmentsProofs!ReopenedByRacesOnly` | a closed booking is reopened only in the named ways |
| `AppointmentsProofs!QueueIsConsistent` | a text sent twice is paid for by a failed attempt or a dead worker; messages with a text for the customer and a phone wait for the morning |
| `AppointmentsProofs!RemindersTellTheRow` | a reminder tells the start in the row, unless that changed after the worker looked |
| `IdempotencyProofs!TypeCorrect`, `Exclusion`, `FaithfulReplay` | the key |
| `IdempotencyProofs!RedactionsAreChained` | no two redactions of a customer follow the same one; commercial consents have the KVKK consent |
| `IdempotencyProofs!RedactedStaysRedacted` | phone and identity return only by a save or an import that had found the customer |
| `IdempotencyProofs!RulesBrokenWhenOutdated` | shared phones, customers put away while held, ownerless vehicles: only by the named races, or by rows imported without a phone |
| `SessionsProofs!RotationNeverForks` | families of refresh tokens never fork, sealed ones stay sealed |
| `SessionsProofs!NobodyIsLate` | a used code or an ended session admits nobody |
| `SessionsProofs!TriesFallByRacesOnly` | the count of wrong codes falls only by the named races |
| `StaffProofs!StaffStaysConsistent` | technicians have their profile, ids and types |
| `StaffProofs!OwnersAreProtected`, `LastAdminGoesByRacesOnly`, `BookingsKeepTheirMechanic`, `LeavesOverlapByRacesOnly` | who may change whom, and how far the unlocked checks reach |
| `StaffProofs!NoticesAreConsistent` | rows and sockets tell the same people, and what an answer, a written `lastNotifiedAt` and an error say of the queue |
| `StaffProofs!SwitchedOffIsOutdated` | a channel switched off is used only on settings that are outdated or could not be read |
| `WarehouseProofs!WarehouseStaysConsistent` | stock is the sum of its movements; cells named are there |
| `WarehouseProofs!PlacesGoByRacesOnly` | a product's place is lost only by the two races |

**Billing.** The properties are not inductive: a commit writes what was read
earlier. `IInv` adds why that is safe. `LockHeld`: a request inside its
transaction holds the lock of its customer. `RequestOK`: the rows a request
names exist and belong to the customer it locks. `ReadStillValid`: what was read
under the lock is still what the tables say, and the checks that passed still
pass, up to the COMMIT. With it each commit step is arithmetic. The one value
excluded from `ReadStillValid` is the status of the work order, which nothing
locks; the proof shows that no property needs it. `MoneyInv` adds that payments
belong to the customer of their invoice (`PaymentsKnown`) and that the payments
attached to invoices in force are what these say is paid (`AttachedIsPaid`);
sums change by one row per step, by the lemmas of `TotalsProofs`, which reduce
`Total` to facts about finite sums without induction in this development.

**WorkOrders.** `LocksExclusive`: no two transactions have locked one row.
`TakenIsThere`: what a transaction in progress takes is still on the shelf. An
outdated item row makes `Delta` wrong but never makes the stock negative, since
the conditional UPDATE looks at the stock itself. `Sources` adds where the rows
come from: a new line has an id no other request holds (`NewRowsAreNew`), a changed
one is the line asked for, live when it was read (`ChangesWhatWasRead`), and a line
never moves to another order (`ItemsKeepTheirOrder`). With it a commit whose
reads are not outdated moves each part exactly once between shelf and order, and a
return gives back the lines of its own order only; both are sums over the items,
by the lemmas of `TotalsProofs`. An invoice moves no part while its order is in force
(`InvoiceAccount`), and the cancellation of one adds the lines of its order once where
that was cancelled (`ReopenAccount`).

**Appointments.** `Prepared`: a request past its checks has a booking and a
well-formed copy, or a row that exists to cancel. The checks of the use cases
play no part in `NeverDoubleBooked`: the constraint alone carries the proof.
`ReopenedByRacesOnly` needs them: `Purpose` keeps which operation a request came
from and the status it had read (a reschedule or a no-show never of a closed booking),
and `Reserved` that the booking a request is about to insert is in nobody else's hands.

**Idempotency.** `KeyHeld`: until it lapses the key stays while a handler is
active and after an effect. `Alone`: an active attempt is the only active or
effective one. `StoredIsFaithful` and `CommittedRan` carry the replays.

**Sessions.** A live token is not enough to count: `Claim` looks at `isRevoked` only,
so an expired token is found as well, and the one that counts is `Usable`. `OneUsable`:
a family has one usable token or one refresh that has claimed one, never both.
`Refreshes`: a refresh belongs to the family of its token, and that family keeps
its tokens, so a login never meets a claim in its new family. `Sealed` carries the
same for revoked families. `Bounds` and `Rows` keep counters and rows in their types.
Most steps follow from one lemma, `Kept`: where tokens keep their family, none
becomes usable and no request gains a claim, everything stands. `Claim` and `Grant`
are the two steps that need their own argument.

**Staff.** Every check is in an earlier transaction than its write, so the
invariant is about the requests in flight. `Sound`: what a request checked of
itself and of the row it kept stays true, since nobody changes a request. `Fits`:
what it read of the account it will write stays true while the id names a row: an
account never changes between a tenant's staff and the administrators, who has a
mechanic's profile keeps it while somebody plans to book it, and the leaves it saw
keep their days. `TenantsOnly`: profiles and leaves belong to staff. What may *not*
stay true (a role, the number of administrators, a new leave) is exactly what the
properties name as the race.

**Notices.** `NoticeIInv` follows one call through the awaits of `createNotification`
(`CallSound`): nothing is emitted or queued before its phase, the targets are those
the staff table gave when it was read (`Found`), what is queued lies within what the
settings that were read permit, and a call that goes wrong before its end says so in
`failed` or `bypassed`. A socket that hears without a row is one whose account had another role by
then. Calls do not disturb each other: the row, the sockets and the queue of a call are
its own.

**Reminders.** `QueueIInv` speaks of one job at a time. `Counted` is the account behind
"no unexplained repetition": messages that went out are at most the failed attempts and
the stalls, plus one when one was taken. `Quiet`: a message marked so that has not
failed waits for a due time that is not in the night. `Fresh`: between a worker's look and its send
the row still says what it saw, or the change is on record. `PlannedOnce` and
`NothingToPlan`: an appointment whose reminder is still to be planned has no job yet, which
holds only because the ids of appointments and of messages differ (`JobsAssumption`:
the job of a reminder is named after its appointment, `queue.service.ts:100`, the
others are numbered by BullMQ). The morning of a message is found with the least number of a
set (`LeastNatural`, from the library's well-founded induction).

**Customers.** `Knows`: what a request under way has read stays usable because no
customer is ever unmade: the customers it found are made, an update found none but the
customer it is about, an archive or an anonymisation saw nothing that keeps the
customer. `Chained`: a redaction follows a smaller one, and a customer whose row is
taken has one redaction in progress, which has read the last of its log; hence no two
follow the same one. The action properties need no more: a step changes one customer at
most, in one of six ways (`Changes`: made, saved, filled in, archived, brought back,
redacted; one that is made takes a phone that was looked for, or the one of rows
without), and a vehicle only as `Moves` says (`Sound`); each property is then a case
split over these.

**Warehouse.** `Onwards`: rows stay, archived ones stay archived, and a shelf is
new, there, gone, in this order. `RequestFits`: what a request holds fits the rows in
the form that survives every step of the others: the product is made; a cell to be
written was made once, so it is there or gone for good (and then refused); the
place found with it is its shelf; no cell is written only for a row that had none;
what lay on a shelf to be deleted was archived. The stock is followed through
`Pending`: a write and its movement are two transactions, and one request changes it
by its own movement and no other's (`PendingStep`).

**Workshop.** Almost every rule is about rows numbered by insertion, so the invariant
says what numbers survive. `Given`: what a request was given, and has by its phase, is
of the kind its writes need; a row it names was there, and tables only grow. `Kept`:
what was read and cannot come back is still so. A workshop found without bays either
still has none, or its bays have numbers above all those there were (`Emptied`); the
object of a photo or logo that an upload has stored is there, and no row names the photo
yet. `UploadsAlone`: an upload shares its photo with no other request, because the
object's name holds a fresh uuid (`media.service.ts:148`). Each request is disturbed by the others only through the
tables, and one lemma per table says how a step may change it; numbers differ because
`DrawNumber` is one statement. The action property is a case split over the same lemmas.

The inductive invariants of Billing, WorkOrders and Warehouse are in the component's
module, after its properties; the others are with their proofs.

**What the proofs found.** Four proofs failed at first because the model or the
property was wrong where TLC's instance was too small to show it, and was repaired:
`spent` in `Sessions` did not say whose code it was, so that with two users the code
of one counted as used for the other; `Staff` let a request that held a deleted
account write to a new one with the same phone, where the code writes by id; `Workshop` gave a new tenant an id that a request in flight still named; and
`OrphanOnlyWhenOutdated` in `Customers` missed a race of four requests: a booking finds
its customer's archived vehicle, a transfer gives the vehicle to another customer, who
is archived with it, and the booking, which writes by the id, brings it back without an
owner in the books (`prisma-appointment.repository.ts:580`). Writing the cases of
that proof also showed `BookLooks` to go on where the code is done.

**Only model-checked:** `EveryRequestEnds`, `KeyIsFreed` and `EveryJobEnds` (liveness
under fairness, and ENABLED, are outside the prover). Every other property a run checks
is stated by a theorem. No module declares a RECURSIVE operator; a result
that needs induction over data (what a recursive definition computes) would be
outside the prover as well.

## 5. What is not modelled, and why

* Amounts: rounding of DECIMAL(12,2), tax rates, line prices.
* What the automatic invoice of a completed order adds up: it needs Billing and
  WorkOrders in one state, which is too large for TLC. Its hazard is listed.
* Tenants and row level security: one tenant (but for the slugs and phones of
  `Workshop`); every lock key and constraint contains the tenant.
* E-invoice providers: each of them is a stub that reports failure, and the internal
  one leaves a draft, so no cancellation is ever sent. The signature of PayTR, the wire
  formats of SMS, WhatsApp and mail, the object store beyond put and remove.
* `AddWorkOrderPhotoUseCase` and `getNextInvoiceNumber`: nothing calls them. Nothing calls
  `decrementAtomic` and `incrementAtomic` of inventory either, but work orders run the
  same two statements themselves, which is what `Take` and `Return` of `Warehouse` are.
* The audit log, which is append-only and read back by nobody; dashboard, health and
  lists, which only read; bootstrap, deployment and maintenance scripts.
* Profile (but for the logo's link), opening hours, prices and descriptions: data no property tells apart.

## 6. Plan

What is left, in this order:

1. `Billing` with `WorkOrders`: the automatic invoice with the totals read before, and
   the accounts of an order reopened by a cancellation, in a module small enough for TLC.
2. Abstract specifications: a session that is live or ended, refined by `Sessions`; a
   shelf of parts, refined by `Warehouse` where no row is written back.
3. Amounts in cents, with rounding, against a reference definition.
