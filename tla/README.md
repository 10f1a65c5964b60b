# A verification development for the enterprise demo and rfc7807-errors

This directory holds TLA+ models of the repository's payment service
(`apps/enterprise-demo`) and of its error library (`libs/rfc7807-errors`), the
TLC configurations that model-check them, and TLAPS proofs about them. `PROJECT.json` ties every definition to the lines it
translates, every property to the run that checks it, and every property to a
mutated form of the code that the run rejects. All paths below are relative to
`src/`; `A/` stands for `apps/enterprise-demo/src/` and `L/` for
`libs/rfc7807-errors/src/`.

## 1. The system

An HTTP service creates and processes payment transactions. A request passes
the context middleware, JWT and role guards, the rate-limit guard, the RLS and
the idempotency interceptors, a controller and a command or query handler. Any
number of replicas of the server share a PostgreSQL database, a Redis and an SQS
queue. Inside a replica everything is asynchronous callbacks on one thread:
handlers interleave at their `await`s. Across replicas nothing is ordered but by
the database and by Redis.

| Component | State it keeps | Operations | What makes it correct |
|---|---|---|---|
| Transaction commands (`A/modules/transaction/application/commands`, the entity, the controller) | `transactions` rows, with a status machine and a version column | create, process | one capture per transaction; row, outbox events, charges and answers agree; the status machine holds on disk and not only in memory; a reserved row is settled. The first does not hold (section 3), and what is promised of a race is less |
| Payment gateway (`.../infrastructure/adapters`) | captures, outside the service | processPayment, refund (never called) | a lost answer is never reported as a decline |
| Idempotency (`A/shared/idempotency`) | `idem:lock:<key>` and `idem:resp:<key>` in Redis | lookup, acquire, store, release | executions with a key exclude each other; a lock is only freed by its owner; only real responses are replayed; whoever got the lock lets go of it |
| Outbox and relay (`A/shared/outbox`, `A/shared/sqs`) | `outbox_events` rows; an `isProcessing` flag per process | saveEvent, a cron tick every 5 s, sendMessage | PUBLISHED means delivered; duplicates only after failures; attempts are bounded; every event settles |
| Notification consumer (`A/modules/notification`) | none; the queue's visibility timeouts and receive counts | handleMessage | at-least-once notification of every committed event; poison messages end in the dead-letter queue and take nothing with them |
| Rate limiter (`A/shared/rate-limit`) | a counter with a TTL per route and principal | canActivate | at most `limit` requests pass per window; a counter always has an expiry |
| Tenant isolation (`A/shared/database/rls`, the RLS migration, `A/shared/context`) | role and tenant settings of a pooled connection; an async-local context | executeInTenantContext, queryInTenantContext | a request only reads and writes rows of its tenant; a connection returns clean to the pool, and does return |
| Exception filter (`L/filters`, `L/mappers`, `L/exceptions`) | none, but user-supplied mappers may share objects | catch, map, finalize, serialize | every exception becomes one well-formed problem; the most specific mapper wins; nothing leaks in production |
| Transaction queries (`.../queries`, the repository) | none | findAll with page arithmetic, findById | a walk through the pages misses nothing |
| JWT and role guards (`A/shared/auth`) | the request's context | canActivate, validate | the tenant in the context is that of the token |
| Money, validation, health probes, configuration, logging | none that outlives a request | arithmetic, flattening, probes | stateless |

**Interactions.** The process handler loads the row in one database transaction and
then runs two more around a gateway call; each of those writes the row and an
outbox row together. The relay reads
the outbox table and sends to SQS; the consumer receives from SQS. The
idempotency interceptor surrounds the create and process handlers and shares
nothing with them but the request. The rate limiter runs before it. Every handler
reaches the database through `executeInTenantContext`, whose connections all tenants
share, and finds its tenant in the context that the middleware opened and the JWT
strategy filled.

**What is hard.** Requests racing between loading and saving a row; a save that
is two statements; a COMMIT, a SET or a send whose answer is lost; a crash
between the reservation and the settlement, between a send and its save, or with
a lock held; locks that expire under a slow holder; replicas of the relay that
save stale copies of rows over each other; a `catch` that covers two different
failures; settings left behind on a shared connection; messages delivered twice,
out of order, or deleted with an old receipt. `PROJECT.json` lists each of these under `hazards`, at its line.

## 2. Modules

| Module | Models | Extends / uses |
|---|---|---|
| `TransactionStatus` | the status enum, `VALID_TRANSITIONS`, `isValidTransition`, `isTerminal` | |
| `ReservedCharges` | what processing promises: who may reserve a transaction, who may charge it and how often, and when its settlement is final (abstract specification) | |
| `TransactionProcessing` | `CreateTransactionHandler`, `ProcessTransactionHandler`, the entity's domain methods, `executeInTenantContext`'s commit and rollback, the gateway, the ORM's `save` | `TransactionStatus`, `ReservedCharges` by refinement |
| `TransactionProcessing_proofs` | theorems about it | |
| `Idempotency` | `IdempotencyInterceptor` and `IdempotencyService`, and the Redis commands they issue | |
| `Idempotency_proofs` | theorems about it | |
| `OutboxRelay` | `OutboxRelayProcessor`, the table it reads, `SqsService.sendMessage` | |
| `OutboxRelay_proofs` | theorems about it | |
| `RateLimit` | `RateLimitGuard.canActivate` and the Redis commands it issues | |
| `RateLimit_proofs` | theorems about it | |
| `DatabaseExceptionMapper` | the class of that name: its tables of codes, detection by shape, `build` | |
| `ProblemFilter` | `Rfc7807ExceptionFilter`, `ProblemDetailException` and its subclasses, the user's mappers and callback | `DatabaseExceptionMapper` |
| `ProblemFilter_proofs` | theorems about it | |
| `TenantIsolation` | `RequestContext` and its middleware, the guards, the connection pool, `executeInTenantContext`, the policy of the migration, the repository's `findById` and `findAll` and their handlers | |
| `TenantIsolation_proofs` | theorems about it | |
| `Delivery` | what outbox, relay, queue and consumer promise together: a committed event is told or set aside, and taken back only if two replicas contended for it (abstract specification) | |
| `EventPipeline` | the SQS queue and `NotificationConsumer`, composed with the relay | `OutboxRelay` as an instance, `Delivery` by refinement |
| `EventPipeline_proofs` | theorems about it | `OutboxRelay_proofs` as an instance |
| `Counting` | lemmas about the sizes of sets that grow one element at a time, for the proofs that count | |
| `MC...` | instances for TLC: initial values, assignments of executions to processes, deployments, the exceptions thrown | the module they are named after |

### TransactionProcessing

`rows` is the table, `log` the outbox rows of each transaction in commit order,
`charged` the requests for which the gateway captured money (a fact of the outside
world; no code reads it), `reserved` the requests whose first database transaction
committed (a history). A *request* is one execution of the process handler:
`pc` says at which await it is, `mem` is the entity it loaded, `snap` the row that
the save in progress selected, `answer` the HTTP status.

    idle --Load--> reserve select --SelectForSave--> reserve write --Reserve-->
    charging --Approve | Decline | GatewayThrows--> settle select
    --SelectForSave--> settle write --Settle--> done (200)

`NotFound` and `RejectTransition` end a request with 404 and 409. `DatabaseFails`
is any query that fails (rollback, 500), `CommitAnswerLost` a commit that took
effect although the handler saw an error, `Crash` the death of the server. Two
requests of two clients, a client's retry, and the same client's duplicate are all
just requests.

*The save.* `repo.save` of a loaded entity selects the row and updates by primary
key the columns in which entity and row differ. TypeORM compares versions only for
`find` and `setLock` with an optimistic lock, which this code never asks for, so
the save never throws `OptimisticLockVersionMismatchError`. The handler's `catch`
for it (`process-transaction.handler.ts:74`) is therefore no action of the model,
and the version column, which nothing reads, is no column of it. There is one save
in the project, the one the program performs, and everything is checked and proved
for that one.

*What is then true of a race.* Requests that load a pending row together may all
reserve it, one after another, each charges, and each settles over the others.
`Sole(t)` says that at most one request has reserved t. `OutboxTellsTheStory` and
`AnswerIsDurable`, which a race really breaks, exempt transactions for which it is
false; all other properties hold of races as well.
`ReservedCharges` states the whole: only who found the transaction pending gets
into the race, only who reserved may charge, once each, and for as long as one
request alone has reserved, its settlement is the last.

*Abstracted:* the event payload is the columns that processing changes; amounts,
tenants and timestamps never change and are left out; the gateway's delay is an
interleaving; a request identifies the capture it made, so `externalId` is a
request or the fallback `no-external-id`.

### Idempotency

One scoped key; different keys share nothing. `lock` and `response` are the two
Redis entries, `returned` the requests whose handler returned a body, `pc` and
`answer` as above. The token that `acquireLock` draws is unique to the
acquisition, and so is the body for what the properties ask: the request stands
for both. Each Redis command is one step and may fail before taking effect, or
after it. ioredis resends a command after a reconnect
(`A/config/redis.config.ts`), so a `SET NX` whose answer is lost may find its own
token and answer null (`AcquireAnswerLost` with 409): the lock is then orphaned
until its TTL runs out. `catchError` surrounds `persistAndRelease` as well as the
handler, so that a failing store or release is followed by a second release
(`Cleanup`). `InitialResponses` lets the response key hold an entry that does not
parse, for the branch that deletes it.

The lock's 30 s may be less than a holder needs: the code neither enforces nor
checks that. `LockExpires` may hit a live holder, and nothing forces it to happen; the history variable
`overran` remembers whom it hit; `forgotten` remembers whether a stored body has
been deleted, by its TTL or by a `DEL` meant for an entry that did not parse. No
action reads them. They say precisely for which requests exclusion is promised,
and until when retries are replayed, instead of a model in which neither happens.

### OutboxRelay

`table` is the outbox, an event being its rank in `createdAt` order. An
*execution* is one run of `handleCron`: `batch` holds the entities it loaded and
has still to handle, exactly as they are in memory (the catch leaves `PUBLISHED`
on an entity whose save failed), `snap` the row a save has selected. `sent` and
`refused` are what the broker did, which no code reads. Executions of one process
share `isProcessing`; processes share the table. Rows may become visible out of
`createdAt` order, since the timestamp is drawn before the commit. `contested` is
a history variable, the events that two processes had in hand at once: for those
the stale saves of one process overwrite the other's (`attempts` may pass the limit, a
row may leave FAILED), for the others the relay promises as much as a single process
would.

### RateLimit

The requests of one principal on one route share one counter. `counter` and `ttl`
are the Redis key (0: no key, or no expiry), `counted` the requests counted since
the key was created, `prolonged` whether a resent PEXPIRE has reset its expiry
(histories that nothing reads), `count` what INCR answered to each. `Tick` is the clock: it
runs down the expiry of the key and the `Retry-After` that refused clients wait
out (`wait`), so that the two can be compared. INCR, PEXPIRE and PTTL are three
steps; each may fail before or after it took effect, and ioredis may resend a
command whose answer was lost (`IncrResent`, `PExpireResent`). A failed command
lets the request through (`open`): those requests are told apart from the ones
that the counter let pass (`passed`), for only the latter are limited. Properties that
a failure would break name the failure they exempt.
*Abstracted:* the key's text, the response headers other than `Retry-After`.

### ProblemFilter and DatabaseExceptionMapper

One step is one `catch`, which is synchronous. An exception is a record of what
the filter looks at: its class, the constructor's name, the codes, what it states
for the client. A problem is a record of the members that tell answers apart; of
a `detail` only the origin of its text is kept (`raw` is the message of an unknown
error), of a type URI whether it is `about:blank`, made from the base and a title,
or given. Most of the modules is operators: one for each private method of the
filter. What makes it a state machine is `object`: the filter writes the instance,
the type and the stack trace into the object that a user's mapper returned, and a
mapper in `Reuses` returns the same one again. `last` is the last exception with its
answer and what the callback was told; `CallbackThrows` is the step in which
`onProblem` throws and nothing is sent. The options of the module are constants.
Assumed of the user's mappers (`MappersMask`): what they return shows nothing that
should be masked. The `extensions` of a problem exception may overwrite its type,
title, status and instance; one that overwrites the detail or the stack trace puts the
thrower's own text there, which counts as a stated detail. *Abstracted:* texts and
slugs, the `errors` member, the order in which the serializer writes members. A user's
mapper that throws is left out.

### TenantIsolation

A *client* sends one request after another with one token: `claim` is the tenant in
it, perhaps none, perhaps one that is no UUID. `context` is the tenant in the
request's `RequestContext`, `conn` the connection its database transaction has
taken, `role` and `setting` what `SET LOCAL ROLE` and `set_config` left on each
connection. An HTTP request to process a transaction runs three database
transactions: one that loads (kind `process`), one that saves the reservation
(`reserve`) and one that saves the settlement (`settle`). After the load the request may
also end, with the 404 or the 409 of the handler.

    idle --Ask...--> guards --Authenticate--> dispatch --Begin--> role --SetRole-->
    tenant --SetTenant--> working --Create | FindById | Reserve | Settle--> idle or dispatch
                          working --FindPage--> counting --CountAndAnswer--> idle

`RefuseToken`, `RefuseRole`, `AnswerNoTenant` and `ConnectTimesOut` end a request
before it has a connection, `Fail` after. `Visible` is what PostgreSQL shows and lets
a statement update: everything, or, where the policy binds the role, the rows of the
session's tenant. `Scoped` adds the repository's own filter. `Confined` says
when the policy counts: it binds only `rls_app`, and only where it is in place
(`policy`; a database where it was dropped shows what the filter does alone). The last statement
of a transaction and its COMMIT are one step, since no other transaction sees what it
has not committed. `writers` and `walk` are histories: who wrote a row, and what a
client has seen of the rows that were there when it asked for the first page.
`Windows` is the set of answers that ORDER BY, OFFSET and LIMIT allow, rows with one
`created_at` in any order; `Total` follows TypeORM's `getManyAndCount`, which counts
with a second statement unless the page shows where the rows end. `context` is a
variable of each client: that `AsyncLocalStorage` hands a request its own context after
an await is taken for granted; when the context is filled, and what is read and set
with it, is modelled.
*Abstracted:* the columns other than tenant and time, the filters by status and
type, `app.current_user_id`, which no policy reads, the roles a token may have.

### EventPipeline and Delivery

`EventPipeline` instantiates `OutboxRelay` and adds the queue. A message is `<<e, n>>`,
the n-th that the broker accepted for event e, so that whatever `sent` counts arrives
(`WithQueue`). `queue` says where each message is, `receives` how often it was
received, which is also its last receipt; `stage`, `message` and `receipt` are the
consumer of each process; `handled` counts calls of `processNotification`. A
consumer may be slower than the visibility timeout (`HandlerTooSlow`), fail to delete
(`DeleteFails`), delete with a receipt that is no longer the last, with or without
effect (`Delete`), or die with its process and its relay (`Die`). `Foreign` are
messages that others put on the queue: one whose Body is no JSON, one without a Body.
That a handler which returns `undefined` acknowledges its message is how the consumer
uses `sqs-consumer` (`notification.consumer.ts:47`: "Throwing error prevents message
deletion"). Receiving (`Poll`) is that library's polling; `onModuleDestroy`, which stops
it, has no action of its own, since a process that polls no more and is replaced is one
that dies between two messages. `Delivery` has the sets of the events committed, told and
set aside, and those `contested`; `EveryEventArrives` is the refinement, fairness
included. What is set aside stays there, except for contested events: of two replicas
that have loaded the same row, one may give the event up and the other, with an older
entity, publish it, and the row goes from FAILED to PUBLISHED (`TakeBack`).

## 3. Runs

Requests that never come, events that are all settled: the systems may stop, so
the configurations disable the deadlock check (except `problem_filter` and
`isolation`, which never stop). That nothing gets stuck halfway is what the liveness
properties say instead.

| Run | Instance | Shows |
|---|---|---|
| `processing` | 1 transaction, 3 requests, fair | the refinement of `ReservedCharges` (`IdealSpec`); COMPLETED is only said where money was captured, however saves mix columns (`CompletedIsCharged`); a 409 is never spurious (`NoSpuriousConflict`); every charge was announced by an event of its own (`EveryChargeAnnounced`); retries after a race, a failure or a crash change nothing (`SequentialRetriesAreSafe`); where one request alone reserved, the outbox is the exact history of the row (`OutboxTellsTheStory`) and a 200 stays true (`AnswerIsDurable`); the inductive invariant of the proof (`ReservationInv`); PROCESSING leads to COMPLETED or FAILED, unless a request that reserved the row crashed or got a 500 (`ReservationSettles`) |
| `processing_double_charge` | 1 transaction, 2 requests | **violation**: two captures for one transaction |
| `idempotency` | 3 requests, empty or junk response, fair | the inductive invariant behind exclusion (`LeaseInv`); after some client received a body no new request reaches the handler, while the body is kept (`RetryAfterSuccessReplays`); a lock is only freed by its owner (`OnlyOwnerFrees`); whoever got it lets go of it without the help of its expiry, unless the server died or Redis failed in the acquisition or in the last release (`HolderLetsGo`); clients only receive bodies a handler returned (`AnswersAreGenuine`); a client that got its body or the handler's error left no lock (`AnsweredMeansReleased`) |
| `idempotency_rerun` | 2 requests, no failure needed | **violation**: the handler runs again with the response in the cache |
| `relay` | 2 events, 2 overlapping ticks of one process and a replica, MAX_ATTEMPTS 2, batches of 2, 1 mishap, fair | an execution in progress holds the flag of its process (in `TypeOK`); PUBLISHED was delivered (`PublishedWasSent`); every event settles for good (`EventsSettle`); for events that were not contested each duplicate is the price of a mishap (`DuplicatesArePaidFor`), and they are parked exactly at MAX_ATTEMPTS (`ParkedAtMaxAttempts`) |
| `relay_gives_up` | 1 event, 1 process, MAX_ATTEMPTS 5, batches of 50, 1 mishap | **violation**: an event is FAILED after four failed publishes and one delivery |
| `rate_limit` | 3 requests, limit 1, windows of 3 ticks, 2 ticks a second, 1 resend, fair | the inductive invariant behind the quota (`QuotaInv`); a client is refused only if the principal really exceeded its limit, or resent INCRs did (`RefusalsAreEarned`); one that waits out its `Retry-After` meets a new counter, unless a resent PEXPIRE prolonged it (`RetryAfterIsHonest`); a window ends unless a request counted in it met a failure (`UndisturbedWindowEnds`) |
| `rate_limit_immortal` | 2 requests, limit 1, fair | **violation**: a counter whose creator's PEXPIRE failed never expires, and refuses the principal for ever |
| `problem_filter` | exceptions of every class and of the shapes of TypeORM, pg, Prisma and Node, problems with extensions, 4 URLs, 2 overlapping mappers, each of which returns one constant problem, the first without an instance, production | nothing leaks, also not through reused objects (`MaskInv`); no unknown database error gets a 4xx, every known one gets its status (`DatabaseStatusesAreTrue`); one title and type per status across the four tables, unless whoever throws states others (`OneTitlePerStatus`) |
| `problem_filter_constant` | the same | **violation**: an answer whose instance is the URL of an earlier request |
| `isolation` | 2 clients, 1 or 2 connections, with and without the policy; the second token's tenant is the same, another, no UUID or missing; 3 transactions, an old one and two of one later moment; pages of one and of two rows (asked for as 0 and 5, where 2 is the largest granted); fair | contexts, connections and sessions belong to one request at a time (`IsolationInv`, the inductive invariant of the proof); nothing of another tenant is read or written, with either layer alone (`TenantsAreApart`, `PolicyIsExact`); a walk through the pages misses nothing that was there when it began, while newer rows push it to later pages (`WalkMissesNothing`); every connection is free again and again (`ConnectionsReturn`) |
| `pipeline` | 1 event, MAX_ATTEMPTS 2, a relay, 2 consumers, 2 receives before dead-lettering, 2 mishaps, a garbled and an empty message, fair | what leaves the queue was processed or empty, and nothing is processed without a receipt (`QueueInv`); each repeated notification is the price of a mishap (`RedeliveriesArePaidFor`); an event's message is dead-lettered only after a mishap at each receive (`DeadLettersAreEarned`); the queue drains, garbled messages included (`QueueDrains`); every committed event is told or set aside, and no other is (`EveryEventArrives`, the refinement of `Delivery`) |

**Bounds, and why they are enough.** Three requests: two that race and a third
that arrives when they have ended, or finds what one of them left behind. One
transaction: a request reads and writes one, and the proofs are for any number. Three requests
with a key: a holder, one that takes over, and one that is refused or replayed.
Two events and batches of two: an event behind the one that fails, and a batch that an error
ends early; two executions of one process for the flag, a third of another for
stale saves. `MaxAttempts` is reduced from 5 to 2, so that the limit is reachable
by refusals alone and by a refusal mixed with a mishap; `relay_gives_up` uses the
code's 5. `MaxMishaps` bounds crashes, failed saves and lost answers, which also
makes "from some time on saves succeed" true, without which nothing can be
promised to settle; refusals by the broker are not bounded. With two mishaps
`relay` holds as well, in four times the time, and its safety properties hold
with three events, of which a batch leaves one behind, and no mishap. `sent` saturates at `SentCap =
MaxMishaps + 2`, one more than the bound of `DuplicatesArePaidFor` allows, and
`refused` at `MaxAttempts`, beyond which no property looks. Three requests
against a limit of 1: one that passes, one refused, and one that is counted when
the window has ended; a window of 3 ticks with 2 ticks a second is no whole
number of seconds, so that rounding shows. Symmetry is used only in
`processing_double_charge`, whose property names no request. Two
clients: one that has used a connection and one that gets it next; a third adds
nothing that a property could tell apart, since all of them relate two requests.
Three transactions in pages of one row and of two: a page that is full, one that is
not, and the old row, the only one whose place is defined, which two inserts push from
the first page to the second or the third while a walk is between them. The page it
ends on exists only by the later total: a walk that trusts the first total, or
rounds pages down, misses it (these are the mutants). In `pipeline` one event
suffices, for messages of different events share nothing but the consumers, and the
two foreign messages compete for those. Both processes consume and one relays: what two
relays do to the table is checked by `relay`, up to the settling of every event, and
that nothing but contested events is ever taken back, with any number of relays, is
proved (`NothingElseArrives`). Two mishaps against two
receives let a message be redelivered, be dead-lettered, or be handled twice and
published twice. The repository's settings differ, 3 receives in `docker-compose` and
5 in terraform, and nothing depends on the number. Questions about one
instance share a run; a run of its own has what needs another instance or is
refuted.

**Fairness.** `WF(Progress(r))`: a request that has started is resumed after each
await, by the event loop; its awaits settle, with a result or an error. Nothing
forces a request to arrive, and nothing forces or prevents failures and crashes, or
makes a lock expire: `HolderLetsGo` holds without that. `WF(Tick)`: time
passes. Relay: the schedule
fires every 5 s in a live process, so some execution of each process keeps
getting its tick; a crashed process is restarted. Isolation: requests are resumed
after each await, and nothing else: no connection is ever promised to a request that
waits for one, but it gives up after `connectionTimeoutMillis`. Pipeline: the fairness
of the relay; a live consumer polls and is resumed; the queue keeps its timeouts and
its redrive policy. Messages can be received only so often, so that fairness of
receiving any message is enough for each.

**Mutants.** For every property of a passing run, `PROJECT.json` names a definition
and a mutated form of it (the operators commented `Mutant:`), the way a slip in
that code would look: a transaction not awaited, a `catch` that swallows, a plain
`DEL` for the compare-and-delete, an attempt not counted, a setting that outlives its
transaction, a page count that rounds down. With the mutant
in place the run finds the property violated.

### Disagreements between code and text

1. *Double charge.* `transaction.entity.ts:76-78` says that TypeORM "rejects writes
   against a stale version, preventing two concurrent "process" requests from
   double-charging the same transaction". The save of a loaded entity compares no
   version: two requests that load PENDING both pass the in-memory check, both
   save, both charge (`processing_double_charge`).
2. *Re-execution.* `idempotency.interceptor.ts:23-25` says duplicates "return cached
   responses instead of re-executing the handler". The lookup precedes the lock
   and is not repeated under it: a duplicate that looked up before the response
   was stored, and locks after the release, executes again (`idempotency_rerun`).
3. *Attempts.* `outbox-event.entity.ts:38-41` says attempts counts failed publish
   attempts. The `catch` counts a failed save of a delivered event as well
   (`relay_gives_up`).
4. *Atomic windows.* `rate-limit.guard.ts:26-27` says the window "is enforced
   atomically with INCR + PEXPIRE". They are two commands: when the second fails,
   or the server dies between them, the key has no expiry and no later request
   gives it one (`rate_limit_immortal`).
5. *Instances.* `exception-mapper.interface.ts:7` says of the context that a mapper is
   given: "Request URI, used as the problem `instance` when a mapper omits it."
   `finalize` writes the URI into the object that the mapper returned, so that a
   mapper which omits the instance and returns one constant problem answers all later
   requests with the first one's URI (`problem_filter_constant`).

Observed on the way, and not counted among these: with replicas `attempts` may
pass MAX_ATTEMPTS, and a PUBLISHED row may go back to PENDING, since stale
entities are merged column by column; the deletion of an entry that did not parse
may delete a good response stored in the meantime; a row left PROCESSING by a
crash is never resumed; and `onProblem`, "invoked on every caught exception" by
`rfc7807-module-options.interface.ts:39`, is called for instances of `Error` only,
as its test intends.

## 4. Proofs

The theorems hold for any number of transactions, requests, events, processes,
executions, clients, connections, tenants, exceptions and mappers, and any batch size, attempts limit, quota and
window.

**TransactionProcessing_proofs.** All of it is about the save that the program
performs. `AtMostOneCharge` is false of it and not among the theorems. What holds of
rows, outbox and answers does not hold by an invariant of its own; `ReservationInv`
adds what each request knows:

 - a row that nobody has reserved is as created, and it leaves PENDING with the first
   reservation for good (`RowShapes`);
 - before its reservation a request holds a copy of the row as created; its save
   overwrites that row, or one that somebody else has reserved in the meantime
   (`RequestShapes`), and in the latter case the transaction has more than one
   reservation from then on;
 - from its reservation until its settlement a request that reserved *alone* finds the
   row as it wrote it; one that did not knows only what is in its own entity, which is
   what the gateway told it (`SettledBy`).

`Sole(t)`, once false, stays false, so a commit that makes a second reservation lifts
what was claimed of t, and everything else is carried along in one lemma per group of
actions. `CompletedWasCharged` is the part that survives races: a save writes whole
columns, each of which comes from an entity whose request captured, or from the row.

`Implements` is the refinement of `ReservedCharges`, step by step: a create opens the
transaction, loading a pending row enters the race, an error or a crash leaves it, the
commit of the first save reserves (also when its answer is lost), an answer of the
gateway may capture, the commit of the second save settles, and everything else
stutters.

`ConflictsAreReal`: what a request that is past its load knows of its row is only
that the row exists, and that it has left PENDING if the request found it so or has
reserved it (`ConflictInv`); rows never come back. `ChargesAreAnnounced` counts: the
requests that have reserved a transaction and may still capture, or have captured
(`Owners`), are at most as many as its TransactionProcessingEvents (`AnnouncedInv`),
since the commit that makes an owner appends an event. `RetriesAreSafe`, an action
property, needs beside the types only that whoever has captured has loaded before.

**Idempotency_proofs.** `LeaseInvariant` and `LockExcludes`: whoever executes and
has not outlived its lock owns it, so of two that execute together one has. The
invariant adds that nobody owns the lock before acquiring it. `LockIsProtected`
(the action property `OnlyOwnerFrees`) and `AnswersGenuine` rest on the
compare-and-delete and on the store being reached only by a handler that returned.
`AnswersRelease`: a request that has its answer is done and does not own the lock
(`Settled`), which others keep, since a lock is only taken for oneself.
`RetriesReplay`: from the first success on, and unless a body was deleted, the
response key holds a body (`Remembered`), so that a lookup that succeeds finds it and
one that fails ends in an error.

**OutboxRelay_proofs.** `PublishedOnlyIfSent`, with any number of replicas saving
stale entities over each other. "PUBLISHED was sent" is not inductive for the table
alone: the invariant `DeliveryInv` extends it to the entities in every batch and to
the fact that deliveries are never undone, so that whatever mixture of columns a
save writes, a PUBLISHED status comes from an entity that was sent or from a row
that was. `TypeCorrect` needs `RunInv`, one execution at a time in each process.

`ParkedWhenUsedUp` and `DuplicatesPaid` are about the events that no two processes
had in hand at once, among any number of replicas. An uncontested event is in one
batch at most, and the entity there is what its row says, but for what the loop has
done to the entity at which it stands (`HandsInv`). A duplicate is charged to a mishap
*before* it happens: an event that was sent, is still PENDING and that nobody is
publishing will be sent again (`AtRisk`), and `PaidInv` counts those deliveries with
the duplicates made. Counting only what was sent is not inductive: the mishap comes
first, the second delivery when no budget is left.

**RateLimit_proofs.** `QuotaHolds`, whatever fails and however often commands are
resent. `QuotaPerWindow` counts; the invariant `QuotaInv` says instead that no two
requests counted since the key was created hold the same answer of INCR, and that
only answers up to `Limit` pass. The requests let through are then mapped
one-to-one into `1 .. Limit`, which bounds their number. `RefusalsEarned` counts in
the other direction: the counter is at most the number of requests that INCR answered
and of INCRs sent again (`Accounted`). `RetryAfterHonest`: what a refused client has
still to wait covers what the key has still to live, or a PEXPIRE was sent again
(`WaitCovers`); the rounding up of milliseconds to seconds is where that is earned.

**ProblemFilter_proofs.** `ProductionIsMasked`: whatever is thrown, in whatever
order, an answer in production shows no stack trace, no driver's message and no
message of an unknown error. That is not inductive where mappers reuse objects,
since an answer may show what an earlier step left in one; `MaskInv` adds that the
objects stay masked. One lemma per link of the chain says what it returns.
Titles and type names range over a constant set, `Names`, that includes the
library's own. `TitlesAreOne` has no hypothesis: an answer that no mapper of the user
made, and that does not come from a problem thrown with a status or title other than
those of the concrete classes, carries the title that the filter's own table gives its
status. `StatusesAreTrue` assumes of the exceptions what the code
outside the library makes true and the model does not force (`DriversStateOneCode`):
that the code TypeORM puts on its error is the driver's, and that no SQLSTATE comes with
Prisma's class name; for an error that states two codes "the status of its code" means
nothing. The exceptions in `MCProblemFilter` satisfy it. `InstanceIsOwn` is false
(section 3) and not a theorem.

**TenantIsolation_proofs.** `TenantsStayApart`: no request is shown another tenant's
rows or writes them, whatever fails and with the policy or without it; and
`PolicyShowsOwn`: where it is in place, the policy alone would do. Neither is
inductive. That a statement sees the right rows depends on what is set on its
connection, which depends on nobody else holding that connection (`OneHolder`), on
how it came from the pool (`PooledAreClean`), and on the context being the token's
own (`ContextIsOwn`); that what was found *stays* one's own depends on inserts
hitting unused ids (`CreatesAreFresh`). `IsolationInv` is their conjunction, and
`IsolationInvariant` proves it from one lemma per kind of step: outside of
transactions (`OutsideStep`), taking a connection (`BeginStep`), setting
(`SettingStep`) and ending (`EndStep`).

`WalksAreComplete` is the action property `WalkMissesNothing`, for any number of
clients and rows and any page sizes. Its invariant `WalkOf` says where a row is that
was there when the walk began, has a `created_at` of its own and has not been shown:
behind at least as many of the client's rows as the pages so far hold. Inserts only
push it further. `BehindWindow` is the lemma about a page: a row that lies no earlier
than the offset and is not on the page lies behind the whole of it, and the page is
full; `PagesRoundUp` the one about `Math.ceil`: the row makes the total exceed the
pages so far, so that the answer says there are more. That the total is counted by a
second statement, after further inserts, does no harm for the same reason. It needs
`IsolationInv`, since the rows a page is cut from are the client's own only then.

The constants are unconstrained but for
`NoTenant` and `NotAUuid` being no tenants and deployments having their type.

**EventPipeline_proofs.** `QueueAgrees`, for any number of consumers, messages and
foreign messages. That a message is processed at most as often as it was received is
not inductive, since a slow handler may run beside the next one: the invariant
`QueueStrong` says that every handling under way and every one that ended has had a
receipt of its own, and counts them (`Counted`). `RedeliveriesPaid` and
`DeadLettersEarned` rest on `RepeatInv`, which charges mishaps in advance as `PaidInv`
does: a message that was received and that no consumer holds with the last receipt
will be received again (`Lost`), or is dead.

`OnlyCommittedIsTold`, for any number of replicas that save stale entities over each
other: whatever was notified has a row in the table. `NothingElseArrives` is the safety half of the refinement `EveryEventArrives`: every
step of the pipeline is a step of `Delivery` or leaves its sets alone. What a
relay's step does to the table is taken from `OutboxRelay_proofs`, instantiated here
(`RowsInv`, `WrittenInv`, `RowOutcome`). It holds for any number of relaying processes.
Were an event never taken back, it would be false with two, since stale saves move rows
out of FAILED; `Delivery` allows that for contested events only. That a parked row of
any other event never changes again follows from `HandsInv` (`RowOutcome`), and
an event becomes contested in a tick, which leaves the table alone (`ContestedOutcome`).

The assumptions are those of the relay, that a message can be received at least once,
that garbled messages are foreign ones, and that foreign messages are none of the
relay's own (`ForeignAssumption`).

**Counting.** What the counting proofs share: a finite set that gains at most one
element grows by at most one.

Some definitions are proved and no longer run, because an invariant that a run does
check implies them: `ExecutionsExclude` (by `LeaseInv`), `QuotaPerWindow` (by `QuotaInv`),
`NothingLeaksInProduction` (by `MaskInv`).

**Only model-checked:** the liveness properties (`ReservationSettles`,
`HolderLetsGo`, `EventsSettle`, `UndisturbedWindowEnds`, `ConnectionsReturn`,
`QueueDrains`, the fairness half of `EveryEventArrives`), which are out of the
prover's reach. Every invariant and action property of the passing runs is proved,
`DatabaseStatusesAreTrue` under the hypothesis named above.

## 5. Not modelled, and the plan

Left out:

 - Health probes, logging, the Swagger decorators, the module wiring and the
   bootstrap keep no state a protocol depends on. `RlsInterceptor` passes requests on.
 - `Money` is used by no handler. `cancel` and `retry` of the entity are called by no
   handler, and neither are `save` and `update` of the repository.
 - `flattenValidationErrors` is a recursion over the errors of one request that keeps
   no state; the demo's `main.ts` has a flat factory of its own and does not call it.
 - That `AsyncLocalStorage` keeps the contexts of requests apart, and the `catch` for a
   version conflict that the save never reports (section 2).
 - Of authentication, signatures, expiry and the comparison of role names. A
   client's token names one tenant for good.
 - Isolation does not follow the process request's gateway call, and processing does
   not follow its connections: the two modules share `executeInTenantContext` and meet
   at the loaded row.
 - `parseInt` of a page that is no number gives NaN, which TypeORM refuses: it appears
   as a request whose query fails.
 - SQS long polling, batching and the consumer's own retries of ReceiveMessage, which
   change when a message is received and not what becomes of it.

Planned, in this order:

1. `TransactionApi`: idempotency composed with creating and processing, where a second
   execution after a failed store is absorbed by the status machine or, for a create,
   is not.
2. All domain methods of the entity including `cancel` and `retry`, should a handler
   come to call them; Money's arithmetic.
