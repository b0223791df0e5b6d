# Verification of qbo-invoice-sync in TLA+

The service keeps the invoices and payments of an internal PostgreSQL system and
of QuickBooks Online ("the accounting system") alike. Each side notifies the
service of its changes; a notification becomes a row of a durable inbox; a worker
takes one row at a time, reads both sides, decides who wins and writes. This
directory models that program in TLA+, checks small instances with TLC and proves
properties of its parts for every instance with TLAPS. Paths below are relative
to the repository's `src/` directory.

## 1. Inventory

| Component | State | Operations | Correct when |
|---|---|---|---|
| Event inbox (`queue/pgEventQueue.ts`) | `inbound_events`: status, attempts, `next_attempt_at`, `locked_until` | publish, claim, ack, deadLetter, retryLater, requeue | one row per dedupe key; a claim is exclusive for its lease; nothing is lost or reopened |
| Sync worker (`workers/syncWorker.ts`) | running, the event in hand, `currentProcessing` | tick, handleError, start, stop | every event ends processed, skipped or dead; dead letters are audited |
| Conflict resolver (`services/conflictResolver.ts`, `models/invoice.ts`) | none | resolve, toComparable, snapshotHash | one-sided changes win; two changes go to the later one, and what loses is kept |
| Invoice pipeline (`services/syncService.ts`) | `invoices`, `entity_links`, `audit_log`, the accounting system's records | handleUnlinkedInternal/External, linkExisting, handleLinked, applyResolution | both sides agree once the inbox is empty; one external invoice per number; the sync comes to rest |
| Payment pipeline (`services/syncService.ts`) | `payments` with `external_ref`, payment links | processInternalPayment, processExternalPayment | each payment is replicated exactly once and in whole; divergence is audited |
| Internal repository (`models/repositories/internalInvoiceRepository.ts`) | invoices, lines, customers, payments | create, update, setLifecycle, addPayment, applyCanonical, applyExternalPayment | version grows with each write; external payments are idempotent |
| Links, audit (`models/repositories/`) | `entity_links`, `audit_log` | find, create, updateExternalId, markSynced, record | a link is unique on either id |
| QuickBooks provider, mapper, fake | the remote records | get, find, create, update, void, parseWebhook | a stale SyncToken is refused |
| QuickBooks HTTP client | timestamps of the last minute's requests | request, rateLimit | error classes tell what may be retried; the requests of a minute are limited; no token is sent that has run out |
| OAuth tokens (`providers/quickbooks/qboAuth.ts`) | the token row, `refreshInFlight` | buildAuthorizeUrl, handleCallback, getAccessToken, forceRefresh, saveTokens | one refresh at a time; the row has the token that is accepted next |
| Webhook ingestion, emitter | none | handleInternal, handleProvider, emit | every change is published at least once |
| Webhook switch (`deploy/webhook-switch/server.mjs`) | mode and target, in a file; forwards in flight | handleWebhook, forward, handleControl, load and save, shutdown | a delivery is answered before the deadline; what is answered as stored is stored; an answered change survives |
| Money, item mapping, admin API, views, config, scripts | little or none | conversions, lookups, reads | conversions round-trip |

Interactions: user → repository → emitter → ingestion → inbox; accounting system →
switch → ingestion → inbox; inbox → worker → pipeline → provider, repository, links, audit;
provider → HTTP client → tokens → accounting system; the pipeline's external writes →
accounting system → switch → ingestion → inbox (echoes).
Payments depend on the invoice link that the invoice pipeline makes.

What is hard: two claims at once and claims that outlive their lease; a crash
between any two awaited calls; an answer that is lost after the write; users of
either system writing between the worker's read and its write; notifications that
are reordered by backoff; echoes of our own writes; hard deletes, whose time is not
known; retries that compete with the webhook of what they retry; transactions that
lock one row in different modes; refresh tokens that are good for one use; an
acknowledgement given before the work is done. `PROJECT.json` lists each with its line.

## 2. Modules

| Module | Models | State ↔ code |
|---|---|---|
| `EventQueue` | inbox and workers | `inbox[k]` is the row with dedupe key `k`; `wk[w]` is a process: where `tick` stands, the event in its local variable, `stop()` |
| `EventPort` | the `EventQueue` interface, abstractly | `phase[k]`: absent, open, held, done or parked (dead); `holder[k]`: who works on it; `interventions`: requeues by operators. `EventQueue` defines the mapping (`Port`) |
| `EventQueueProofs`, `EventQueueLimitProofs` | – | theorems about `EventQueue`, and that it implements `EventPort` |
| `ConflictResolver` | `resolve`, `ComparableInvoice` | pure operators |
| `InvoiceSync`, `InvoiceSyncProofs`, `InvoiceConvergenceProofs` | invoice pipeline, the two records, link, audit, users, provider faults | `internal`, `external`, `link`, `audit`; `wk[w]` holds the handler's locals (`i`, `x`, `l`, `d`: what was read and decided), one awaited call per action, a read of the internal invoice being two, of the row and of its lines (the audit row and the acknowledgement that ends a job are one action: a process that stops between them leaves the job to be run again, with an audit row more, which is not modelled) |
| `PaymentSync`, `PaymentSyncProofs` | payment pipeline, the allocations the accounting system really stores | `rows`, `qbo`, `links`, `divergent`; `stage` of each invoice is what this pipeline reads of `InvoiceSync` |
| `InternalInvoices`, `InternalInvoicesProofs` | the repository's transactions on one invoice | `row`, `paid`, `refs` are what is committed; `tx[c]` is an open transaction: its statement, its row lock, the row as it sees it, what it has read; one SQL statement per action |
| `QboClient`, `QboClientProofs` | `request`, `rateLimit`, `QboAuth`, the token row | `calls[c]` is a call and the token it read; `refreshing` is `refreshInFlight`; `stamps` is `requestTimestamps`, the ages instead of the instants, oldest first, and `forgotten` those that a restart has taken from it; `grants` and `current` are Intuit's side; one await per action |
| `WebhookSwitch`, `WebhookSwitchProofs` | the switch, and `handleProvider` at the sites it forwards to | `state`, `file`; `control` is the POST in progress; `flights` are the forwards, with how many events the site's handler has stored; `pending` and `answer` are Intuit's view; `inbox` is each site's |
| `MC...` | – | constants for TLC |

Abstractions, and why they keep the properties meaningful:

* **Invoices.** A comparable invoice is a lifecycle, a body and whether a void has
  zeroed its amounts. The body is the instant of the edit that made it, so two
  edits never produce one content by accident, and equality of hashes is equality
  of records. `fetchFull` reads the row and its lines by two statements outside a
  transaction: a write in between gives a mixture, a body that no record has had.
  A payment on either side makes its invoice newer with the body it had. One invoice
  number is modelled: the pipeline never looks at two.
* **Payments.** A payment entered internally is of two units and a line of the
  accounting system's payments of one, so that it can be applied as a whole, in part,
  over two invoices, or not at all.
* **Clocks.** In `InvoiceSync` one clock stands for `updated_at`, `version`,
  `LastUpdatedTime` and SyncToken, all new after every write and no other step;
  equal timestamps and clock skew between the systems are left out. In
  `EventQueue` time is countdowns, and `Skews` is the difference between the
  application's and the database's clock.
* **The inbox in the pipelines.** `InvoiceSync` and `PaymentSync` take any pending
  event that no worker holds, which covers each order that delivery, backoff and
  lease expiry can produce; attempts and dead letters are kept.
* **Notifications** are pending from the write they tell of. Lost ones (the
  emitter does not wait) are outside the model: the code has nothing that repairs
  them, so nothing can be claimed.
* **Row locks** (`InternalInvoices`) are PostgreSQL's: READ COMMITTED statements, the
  FOR KEY SHARE lock that a foreign key takes, FOR NO KEY UPDATE of an UPDATE, FOR
  UPDATE. Lines and customers are left out: they are written under the same lock.
* **Tokens** (`QboClient`) are numbered grants with a life in ticks; a tick stands for
  half of the margin of three minutes. An answer reaches the row within a tick, as
  the 15 s and 20 s timeouts of `fetch` are much shorter.
* **The switch** runs one handler at a time. Of a body it matters whether it is too
  large; headers, the delivery log and the pages are left out; both sites run the
  application's handler.
* **The accounting system** is modelled from the provider and mapper and from
  `fakeProvider.ts`, which the repository's tests use as its behaviour.

## 3. Runs

| Run | Bounds | Shows |
|---|---|---|
| `EventQueueSafe` | 2 events, 2 workers, 2 faults (crash, database error, redeploy), 2 attempts, 1 requeue | `ExclusiveClaim`, the invariant `HolderOwnsRow` behind it, `AttemptsBounded`, `DoneIsFinal`, `StopWaits`, and the refinement `ImplementsPort` |
| `EventQueueLive` | 1 event, 2 workers, 2 faults (crash, database error, an ack that was taken and threw among them), lease overruns, skewed clocks | `EventuallySettled`, `DeadIsAudited` |
| `InvoiceSyncAll` | 4 user operations of any of the 10 kinds, 1 worker | `Convergent`, `ExternalLossAudited`, `LossAuditedUndisturbed`, `LastEditWins` |
| `InvoiceSyncFaults` | 3 user operations, 1 fault of any kind, 1 worker, no external creates or hard deletes | `Convergent`, `OneExternalInvoice`, `ComesToRest` |
| `PaymentSyncOrdered` | 2 internal payments, 1 external, 1 worker, 2 provider errors, transient or permanent; a payment is stored as credit, or on the first of the invoices, in part or as a whole, which for a payment of the second is a reallocation | `NoDoubleCount`, `DivergenceAudited`, `EventuallyReplicated` |
| `PaymentSyncFaults` | 1 internal payment, stored in any way, 1 external, of one line, two, or two for one invoice, 2 workers, 2 faults of any of the 4 kinds | `ReplicatedOnce`, `LinkedIsWhole` |
| `InternalInvoices` | 3 transactions of any kind at once, totals 1 and 2, payments of 1, 1 external reference | `StatusFollows`, `EveryWriteCounts`, `EventuallyDone` |
| `QboClient` | 2 calls at once and 3 in all, 2 companies, 2 connections, 1 fault of 5 kinds, tokens of 4 ticks with a margin of 2, 2 requests per window of 2 ticks | `StoreIsCurrent`, `RefreshesSerialized`, `NoExpiredToken`, `WithinLimit` |
| `WebhookSwitch` | 1 delivery of 2 events, too large or not, delivered as often as needed, the app and 1 tunnel, 2 changes, 2 faults of 7 kinds, an environment that says `forward` and has no target | `StoredIsStored`, `ChangeSurvives`, `EventuallyAnswered`, `EventuallyStored` |

Why the bounds are enough: two claimants and two rows are what exclusion and the
order of `claim` distinguish; two attempts contain a retry and the last attempt.
Three user operations are create, edit on one side, edit on the other, and the
fourth allows the void or delete of what the conflict left. `MaxExternal` is one more
than the invoices or payments these runs can make, or limits them where it is reached
(a fifth recreation). A split over two invoices is the smallest with a state in which
half of a payment is applied; a payment of two units is the smallest that is applied in
part. Three transactions are a writer, one that reads beside it
and one that waits for both; totals of 1 and 2 with payments of 1 give every status.
Two calls are the one that refreshes and the one that joins or comes late; a third
begins with what they left. Two events are the least of which one can be stored and
the other not; two changes are one that is answered and one that is interrupted, and
two faults are an interruption and what follows it. All models but the inbox stop when nothing is pending and the
users have used up their operations, so `CHECK_DEADLOCK FALSE` is in their cfgs.

### What does not hold

Runs that end in a counterexample, each against a sentence of the repository:

* `InvoiceSyncLost`: the internal write does not compare versions, so an edit made
  after the worker's read is lost without trace (`README.md:44,58`). With no user acting
  while an event is processed nothing is lost (`LossAuditedUndisturbed`).
* `PaymentSyncTwice`: the webhook of a payment whose create timed out overtakes the
  retry and enters the money twice (`README.md:121`).
* `InternalInvoicesRevived`: an external payment that is already there derives the
  status from rows it has not locked, and writes it over a void or a delete that was
  committed in between (`src/models/repositories/internalInvoiceRepository.ts:333`).
  It needs two handlers at once: the worker and a user's request.

Known and written into the passing properties as their exceptions:

* `stop()` called while the claim is awaited returns before the claimed event is
  processed (`src/workers/syncWorker.ts:42-46`); it comes back when its lease is over.
  `StopWaits` says that this is the only case.
* The recreation of a hard-deleted invoice is not preceded by a lookup, so that one
  whose answer is lost is made twice. `OneExternalInvoice` is therefore checked
  without hard deletes; adding `ext_delete` to `UserOps` of `InvoiceSyncFaults` shows
  the second invoice. Nor is an invoice that a user of the accounting system enters
  between the lookup and the create noticed, so it is checked without external creates.
* A crash between an overwriting write and its audit row loses the audit row, as the
  retry finds an echo: the audit properties are checked and proved without crashes. The
  same goes for a dead letter and its audit row (`DeadIsAudited`).
* A payment of the accounting system with two lines for one invoice is entered with the
  amount of the first: `external_ref` names the payment and the invoice
  (`src/services/syncService.ts:518`), and `linkedInvoiceAllocations` does not add the
  lines up. `PaymentSync` has such payments and makes one row of both lines;
  `LinkedIsWhole` speaks of rows, not of amounts.
* A void that wins over a hard delete creates the invoice again, with a body that has
  no status, and its webhook makes the internal one active (`DESIGN-WRITE-UP.md:101`
  says that both become a Void). `LastEditWins` leaves hard deletes out.
* A connection made while a refresh is in flight, or by a call that read the row
  before it, can be overwritten by the tokens of the company before, and a crash
  between the rotation and the save loses the connection: `astray` in
  `StoreIsCurrent` and `outdated` in `RefreshesSerialized`, which say that there is no
  other way to lose it. The one worker makes its calls one after the other, so the
  race needs a second actor: the OAuth callback, or a second worker.
* The rate limit counts in memory and looks once. A restart forgets the requests of the
  last minute and lets up to `Limit` more through beside them; of calls that wait
  together each one that another passes goes on without a place in the window.
  `WithinLimit` counts the requests themselves, those before a restart included, and
  says that they exceed the limit by no more than that.
* The switch answers 202 when the primary site cannot be reached, the VM's own app
  included, or a forward fails or goes with the process after the 202, and Intuit does
  not deliver again: `lost` in `EventuallyStored`. A forward that times out
  (`FORWARD_TIMEOUT_MS` may be set below the ack deadline) is answered 202 too, while
  the site goes on. A body that is too large is refused each time it comes, and never
  stored. When a site breaks off in the middle of its answer, `forward` never resolves
  and its entry in the delivery log is never written; the ack deadline alone answers.

The passing runs are bounded by these and by what else the models show: `Convergent`
needs one worker (the documented deployment; TLC finds it violated with two workers and
three edits, without any fault), and fails when a hard delete falls
between a crash after the internal write and its retry; neither it nor `LastEditWins`
speaks of behaviours with a dead letter, which is what a permanent provider error makes;
`LastEditWins` leaves out
hard deletes and payments, which move `updated_at` without an edit; `ExclusiveClaim`
needs every event to be finished within its lease, since nothing renews a lease and
the final writes go by id alone; events are not delivered in order, as one in backoff
is overtaken.

### Fairness

`EventQueue`: weak fairness of each worker's `Step` and of the clock. The loop
ticks until it is stopped, the process that exits is restarted, and every await ends
(the HTTP client has a timeout, the database answers or throws). Nothing is assumed
of users, faults or `requeue`. `InvoiceSync` and `PaymentSync`: weak fairness of each
worker's `Step`; in `PaymentSync` also of `InvoiceSynced`, the invoice pipeline whose
progress is `ComesToRest`. `InternalInvoices`: weak fairness of each transaction's
statements, as the database runs every statement its locks allow. `WebhookSwitch`:
the deadline's timer fires, a site that is reached goes on with its handler, the
container is restarted (`restart: unless-stopped`), and Intuit delivers again what was
not answered with a 2xx; nothing is assumed of operators or faults, nor that a site
answers. `QboClient` has safety properties only. Weak fairness is enough since only the worker itself, or a
bounded number of faults, disables its step.

## 4. Proofs

What is proved holds for any constants that `ConstantsOK` allows: any numbers of events,
workers, clients, invoices, payments, sites and faults.

`EventQueueProofs`:

* `TypeCorrect`: `Spec => []TypeOK`.
* `HoldersOwnTheirRows`, `ClaimsAreExclusive`, `AcknowledgedIsFinal`:
  `Spec => []HolderOwnsRow`, `[]ExclusiveClaim` and `DoneIsFinal`, under the
  assumption `Punctual`: no overruns, and only dead letters are requeued (the admin
  endpoint takes any id; an operator who requeues an event that is being processed
  breaks the claim). The first needs no such assumption.

`ExclusiveClaim` is not inductive: it says nothing about the row. The inductive
invariant is `TypeOK /\ HolderOwnsRow`: the holder of an event is the only one, its
lease runs, and the row carries that very lease (or the holder's own ack was taken
and threw). So a row whose lease is over has no holder, which is what `Claim` needs;
and `Tick`, which may not end a holder's lease, counts both down alike. There is one
lemma per action, and `DoneIsFinal` follows from the same invariant: a step that
reopens an acknowledged row is a requeue or its own holder's.

`QueueImplementsPort` shows, under `Punctual` and from the same
invariant, that every step of the queue is a step of `EventPort` or leaves phases,
holders and requeues alone. In the port nothing leads out of `done`, and out of `parked`
only `Requeue`, which counts. The invariant is what makes it true: a claim maps to
`Claim` only if the row is open and has no holder, and a write of a holder to `Release`
only if it is the only one. A row that was acknowledged by an `ack` that threw is still
held, by the worker that is about to fail it; what is done without a holder stays done.

`EventQueueLimitProofs` proves `StopsWait` (`Spec => StopWaits`, with no assumption) and
`AttemptsAreBounded` (`Spec => []AttemptsBounded`, under `Punctual`). For the first,
`Rested` says that a process whose `stop()` has returned is idle. For the second, "at
most `MaxAttempts + faults`" is not inductive: a `stop()` is counted as a fault when it is
called, and the claim it misses is lost only when the process exits. `Budget` therefore
keeps one attempt back for each such stop (`Spent`), and asks for one attempt less of an
event that is to be claimed again (`Due`) than of one in hand or settled.

`InvoiceSyncProofs` proves `InvoiceTypes` (`Spec => []TypeOK`) for any workers, user
operations and faults. `IInv` says which of its locals a worker can rely on at each call
(`Placed`), and that the SyncToken tells the state (`Fresh`): a record that carries the
time of the one the worker read is that record. From it follow `ExternalLossIsAudited`
(`[]ExternalLossAudited`, under `Answered`: no crash and no lost answer) and
`NeverTwoInvoices` (`[]OneExternalInvoice`, under `Sole`: one worker, and no external
creates or hard deletes). For the first, `Accounted` keeps with each displaced state the
audit row or the worker that is to write it: a write that passes the SyncToken
overwrites what was read, and that is either the snapshot or what the decision records as
overwritten. It holds for any number of workers, unlike the same of the internal side
(`InvoiceSyncLost`). That one is `LossIsAuditedUndisturbed` (`[]LossAuditedUndisturbed`,
under `Answered` and with one worker): `Undisturbed` says that, while nobody interferes,
the internal record a worker read is the one it is about to overwrite, so what it
displaces there is what its decision records, and `Whole` adds the same `Accounted`
for the internal side. For the second, `Single` says that the worker that is about to create
has seen an empty accounting system, and that nobody is about to recreate.

`InvoiceConvergenceProofs` proves the two properties the pipeline is there for,
`Converges` (`Spec => []Convergent`) and `LastEditLasts` (`Spec => []LastEditWins`), for
any number of edits, faults and retries in any order. They assume `Steady`: one worker,
and no hard deletes of external invoices if the worker may crash. Neither part can be
dropped for `Converges`: TLC violates it with two workers (three edits, no faults), and
with one that crashes while hard deletes happen (four edits, one crash).

The sides differ most of the time, so the invariant behind `Convergent` (`Converging`, as
long as nothing was dead-lettered) says who will bring them together. `Announced`: if the
link has no snapshot, or a side differs from it, there is a notification in the inbox
that leads a worker to it, or the invoice is dead on both sides. What matters of a record
is its content and not its time, as a payment moves the one without the other (`Alike`),
and a worker that read a mixture of two writes has another notification still to come. `Knows` says the same of
a worker in the middle of an event: its own event is still pending (`Told`), what it read
is there or another notification tells that it is not (`ReadIn`, `ReadOut`), the link is
as it was found (`Linked`, `Unlinked`), and once it has applied its decision the sides
are what is to be the snapshot, or another notification tells of the difference
(`Applied`). While a worker applies a resolution its own event stands for the
difference; when the snapshot is taken the others must be enough (`Covered`). That is
where the echo test could lose something: it drops an event because the side it tells of
equals the snapshot, and the invariant shows that the other side, if it differs, has a
notification of its own. A content is entered before it is read (`Dated`, `Earlier`),
so a new edit never equals an old snapshot. A crash between the internal write and the
snapshot leaves the internal side ahead with no notification of its own (the sync sends
none); the external one, whose event is still pending, differs from the snapshot then,
and this is what a hard delete can undo.

For `LastEditWins`, `Lasting` adds, in the behaviours the property speaks of, that the
newer of the two records is what was asked for last (`Newest`), that a snapshot of what
was asked for was taken with both sides having it, so that to differ from a snapshot is
to be older (`Snapshot`), and that the content a worker is about to write is the one
asked for (`Attends`). Without the second a one-sided change could win over a newer edit.

`PaymentSyncProofs` proves, for any payments, workers and faults, `PaymentTypes`,
`NeverTwice` and `LinkedLast` (`Spec => []TypeOK`, `[]ReplicatedOnce`, `[]LinkedIsWhole`).
Whether two lines of a payment are for one invoice makes no difference to them.
The invariant `IInv` says what a worker knows at each call it makes (`Placed`: at `create`
nothing in the accounting system carries the reference of its row yet, at `link` all
allocations read so far have their rows), that a row has at most one
notification of each kind (`Notified`) and a notification at most one worker
(`Exclusive`), and that ids and numbers are given out in order (`Recorded`, `Numbered`).
`Exclusive` is what closes the gap between the lookup and the create: the worker that
has looked is the only one that could create. `DivergenceIsAudited` (`[]DivergenceAudited`)
assumes that there is no crash, since the audit row is written after the link:
`AuditedOrDue` says that the worker that made the link is still to write it.
`CopiesStayAway` (`[]NoDoubleCount`) assumes `Orderly`, one worker and no crash or timeout:
then a payment that is in the accounting system is linked before its webhook is
looked at. `PaymentSyncTwice` shows that a timeout is enough to break it.

`InternalInvoicesProofs` proves `TypeCorrect`, `StatusFollowsPayments` and
`VersionsCount` (`Spec => []TypeOK`, `[]StatusFollows`, `[]EveryWriteCounts`) for any
number of clients, totals and amounts. The inductive invariant says for each
transaction which lock it holds at each statement (`Holding`), that the copy of the row
it will write is one version ahead of the committed one (`Counts`), and that what it has
read is still so (`Derives`), which holds because the locks of two transactions never
conflict (`LocksCompatible`). The repeated external payment, which reads without a
lock, is the one exception: `raced` marks it. A dead invoice comes back only that way:
`DeadStaysAlone` proves `[]DeadIsSticky`, which `InternalInvoicesRevived` violates, for
one transaction at a time (`OneAtATime`), and `DeadStaysUnlessRepeated` for any number
of them in the behaviours in which no external payment is inserted that is there
(`[][\A c \in Clients : ~InsertDuplicate(c)]_vars`).

`WebhookSwitchProofs` proves `SwitchTypes`, `StoredSafely` and `ChangesSurvive` for any
deliveries, batches, targets and faults. Two invariants: the file always has the last
answered change or one asked for since (`InForce`), so a crash at any point loads one of
them; and each flight's site has stored as many events as its handler counts (`Kept`),
the awaited flight of a delivery being alone and bound for its route (which the deadline
and the forward's timeout keep, as they end the wait and not the handler: `LetGoKeeps`), so the answer that
is relayed speaks of the site that has the events.

`QboClientProofs` proves `ClientTypes`, `ConnectionKept` and `RefreshesTakeTurns`
(`Spec => []TypeOK`, `[]StoreIsCurrent`, `RefreshesSerialized`) for any callers and companies.
`IInv` says that only the caller named by `refreshing` presents a refresh token or has an
answer (`Owned`), that a grant on its way to the row is in no other call and not in the
row (`Unsaved`), and that as long as nothing has gone astray the refresh in flight began
with tokens of the row's company, and nothing else gives new ones meanwhile (`Straight`):
so what is saved is what is current. `TokensArriveInTime` (`NoExpiredToken`) assumes
`Ample`, a margin of at least two ticks and a life of three, which 3 and 60 minutes are;
`InTime` relates the life a token has left to the one the process believes in, which is
longer by the tick that the answer took. `LimitKept` (`[]WithinLimit`) holds for any
limit and window, across restarts: the requests that a process has forgotten and a full
window beside them are always allowed (`Room`), and for each caller that waits and was
not passed there is room or the oldest request leaves the window before it wakes
(`InTurn`).

Assumptions are those of the modules (`ConstantsOK`, `NoneOK`), `Punctual`, `Orderly`,
`Ample`, `Answered`, `Sole`, `Steady`, `OneAtATime` and, for `DivergenceIsAudited`, no crashes. `NoneOK`
says that `null` is not a record, a link or a content.

Only model-checked: liveness (`EventuallySettled`, `DeadIsAudited`, `ComesToRest`,
`EventuallyReplicated`, `EventuallyDone`, `EventuallyAnswered`, `EventuallyStored`), as
fairness and ENABLED are out of the prover's reach. The counterexamples of section 3 are
TLC's.

## 5. Not modelled

Field-by-field JSON mapping, item lookup, signatures, schemas, views, configuration,
migrations and scripts: wording and wiring. Money conversion: two functions between
digits and integers, without state. Line items, the customer lookup (two transactions
can make two customers of one name) and the number sequence. The loss of a notification
of an internal change, which the code has nothing to repair, and two external changes
with one `lastUpdated`. The delivery log of the switch, which only shows what happened.
