# Verification of procyon-modules: payment-system

TLA+ models of the `payment-system` plugin (Go), the TLC runs that check them on small instances, and
proofs of their main properties that hold for every instance. Paths are those of the repository's tree
under `src/`; `store`, `service`, `stripe`, `apple` and `google` abbreviate
`store/store.go` and `services/{service,provider_stripe,provider_apple,provider_google}.go`.

- [1 The system](#1-the-system) - components, state, operations, interactions, what is hard
- [2 Plan](#2-plan)
- [3 The modules](#3-the-modules) and the code they stand for
- [4 The runs](#4-the-runs), their bounds, what they show, and the fairness they assume
- [5 The proofs](#5-the-proofs)
- [6 Where code and documentation disagree](#6-where-code-and-documentation-disagree)
- [7 What is not modelled](#7-what-is-not-modelled)

## 1 The system

The plugin takes payments through Stripe, Apple and Google, records them in three tables of the host's SQL
database, publishes a message when a one-time purchase is settled, and answers who is entitled to which plan.
Many requests, of several instances of the host, run at the same time and share nothing but the database.

| Component | State | Operations | Must hold |
|---|---|---|---|
| Webhook inbox (`store:24-128`, `HandleWebhook` of the providers, `Notify`, `RetryWebhook`) | `payment_webhook_events`: status, lease, start, payload | claim, finish, retry, clean up | one attempt at a time per event; only the lease's holder records an outcome; SUCCEEDED is final; what was not processed can be processed later |
| Payment records (`store:130-189`) | `payment_events`: status, owner, time | `UpsertPayment` | overlapping upserts lose nothing; a refund is not undone; an owner is not erased |
| Subscription records (`store:191-260`) | `payment_subscriptions`: owner, plan, status, period | `UpsertSubscription`, listing, entitlement | an owner never changes; stale data do not stay |
| Reconciliation (`service:412-441`) | position of a pass | list a page, refresh each row, clean up | a pass reaches every row, whatever fails on the way |
| One-time Stripe purchase (`stripe:232-401`) | none | events of Payment Intents and Checkouts, refunds, disputes | a benefit only once Stripe asks for nothing more, once, and in the end |
| Stripe checkout and subscription (`stripe:135-203`, `stripe:403-524`, `service:182-253`) | none; sessions and subscriptions are Stripe's | create a Checkout, cancel, subscription and invoice events, reconcile one | a repeated request gets its Checkout; a processed event is on record; entitlement follows Stripe |
| Apple provider | none | notifications, store purchases, status API | entitlement only in paid periods, and in the end not after a refund |
| Google provider | none | notifications, voided purchases, store purchases, API | purchases belong to their buyer and are acknowledged before they are stored, or later if Google refuses that at first |
| Plugin lifecycle and migrations (`plugin.go`, `migrations.go`) | schema version, goroutine, cancel function | migrate, start, run passes, shut down | old records become what the inbox expects; nothing runs after shut-down, which returns |
| Service and controllers | provider metrics | validate, delegate, answer | - |
| Configuration, price cache | environment, prices for thirty minutes | load, refresh | - |

How they interact: a provider posts a webhook and repeats it until it is answered 200; the controller hands
it to `HandleWebhook`, which claims the event, runs the provider's processing, and finishes the event with
the outcome. Processing calls the provider's API, `UpsertSubscription` and `UpsertPayment`, and for a paid
Checkout publishes `payment.purchase.completed.v1` on the host's bus, synchronously; consumers keep a ledger
of message ids. An administrator lists failed events and retries one through the same `HandleWebhook`. A
ticker reconciles all subscriptions with their providers.

What is hard: every handler is a sequence of separate statements and calls that others interleave with; a
process may die between any two of them; webhooks are lost, repeated, and arrive out of order, carrying
state as old as they are; answers of providers and of the database get lost after the effect; leases are
overrun; times are compared that were taken by different machines at different moments. `PROJECT.json` lists
each hazard at its line.

## 2 Plan

In order of what matters most to the system:

1. `WebhookLifecycle` (abstract) and `WebhookInbox` (detailed, implements it): all processing goes through it.
2. `PaymentStatus`, `PaymentRecord` (abstract), `PaymentLedger` (implements it): the payment record.
3. `StripePurchase`: composes the inbox's abstract specification, the payment record, and the event bus with an
   idempotent consumer, from payment to benefit.
4. `SubscriptionRecord` (abstract), `SubscriptionSync` (implements it): subscription records and reconciliation.
5. `AppleStore`, `GoogleStore`: what the store providers make of their notifications.
6. `StripeSubscription`: creation and repetition of Checkouts, the subscription at Stripe, its events,
   cancellation, reconciliation, entitlement.
7. `PluginHost`: migrations of several processes, start, background passes, shut-down.

All seven are written, model-checked, and have their safety properties proved. Open: refunds and disputes
(section 7), and the price cache, if it is ever given a promise to keep.

## 3 The modules

A definition that no action uses and that stands before one of a similar name (`ClaimableForever` before
`Claimable`) is a mistaken variant of it: the properties are known to reject it, which shows that they
depend on that line of the code. `PROJECT.json` maps each definition to its lines.

**WebhookLifecycle** - the promise: one record per event through ABSENT, PROCESSING, FAILED, SUCCEEDED; one
holder whose outcome counts; the provider is told only of events on record.

**WebhookInbox** - `row[e]` is the record, `wk[w]` a handler between two statements. `Deliver`, `RetryGet`,
`RetryMark`, `RetryVerify` start a handler, `ClaimInsert` and `ClaimTakeover` are the statements of
`ClaimWebhook`, `Process` the provider's processing with its outcome, `FinishHeld` and `FinishLost` are
`FinishWebhook`, `Reply` is `Notify`. The three providers' `HandleWebhook` (`stripe:215-230`,
`apple:203-229`, `google:99-139`) verify, claim, process and finish in the same way, so one model serves.
`DbError`, `Crash`, a lost 200, and an attempt that outlives its lease are faults; an ambiguous commit is a
`Crash` after the statement. Times are ages that saturate, so the clock needs no bound; the clocks of the
processes are taken to agree, and `MaxStall` bounds how long a claim may take after it has read its clock.

**PaymentStatus, PaymentRecord, PaymentLedger** - `PaymentStatus` has `paymentStatusRank`. `PaymentLedger` has the
transaction of `UpsertPayment`: `Select` locks the row or finds none, `Create` inserts and fails if another has,
`Update` writes the merge. `PaymentRecord` is what it amounts to, one step that takes an event into the record.
The modules of the providers, in which `UpsertPayment` is a single step, rest on this refinement.

**StripePurchase** - Stripe's side of one Checkout and its Payment Intent, or of a Checkout with nothing to pay,
which has none (`CompleteFree`, `ExternalID`) and which `stripeCheckoutPaymentStatus` takes for SUCCEEDED too;
attempts that hold events as in `WebhookLifecycle` (instantiated as `Inbox`; every delivery, retry and takeover is
`Claim` or `Reclaim`, a delivery during the lease is a `Duplicate`, after which Stripe does not come back, and
`SignatureAges` ends retries); `Check`, `Upsert`, `Publish`, `Finish` are the stages of `handleStripeEvent` and
`handleStripeCheckout`. `UpsertPayment` is one step.

**SubscriptionRecord, SubscriptionSync** - rows with owner and a version number for what they say; the statements of
`UpsertSubscription` (`Insert`, `Select`, `Reject`, `Update`) with the row's lock; handlers that bring an
event's snapshot, handlers that retrieve first, and the pages of `Reconcile` (`StartPass`, `List`, `Visit`,
`EndBatch`). That a pass is canceled between two pages shows as a `List` that fails.
`SubscriptionRecord` is what `UpsertSubscription` amounts to, one step that stores a snapshot for an identity the
owner does not contradict, and allows an event to succeed; `AppleStore`, `GoogleStore` and `StripeSubscription`
take it as a single step.

**AppleStore** - Apple's side (`Subscribe`, `Renew`, `FailToRenew`, `EndGrace`, `Expire`, `TakeBack`) signs
snapshots; `Notify`, `VerifyStorePurchase` and `ReconcileSubscription` begin `processAppleTransaction` with
the status that `DerivedStatus` computes at that moment, `UpsertSubscription` and `UpsertPayment` write later.
`Entitled` is what `ActiveEntitlement` selects. Where Apple's documentation leaves open whether a payload
carries an expiration intent (during billing retry), both are possible.

**GoogleStore** - Google's side (`Order`, `ChangeState`, `Void`) answers `Get` with the present state; a handler
goes through `Lookup`, `Get`, `Acknowledge`, `UpsertSubscription` and `UpsertPayment`, as far as its kind does.
Any 400 or 409 of the acknowledgement is taken for "already done", as `googleAcknowledgeAlreadyDone` does:
`Refuses` is that answer, which Google may give for what it has acknowledged before, for a purchase that is still
PENDING or has ended, and, as a fault, for any other. `google.refused` is history: nothing reads it but a property.

**StripeSubscription** - `session[k]` is what Stripe made for an idempotency key, `request[r]` a request between
the checks of the service and the answer: `BeginCheckout`, `BeginSubscription` (with `HasActiveSubscription`),
`ReadCustomer`, `Create`, which answers a repetition with its session or, when the parameters differ, with an
error: Stripe's contract for idempotency keys, taken as given. `sub[k]` is the subscription at Stripe, which `Complete`, `Renew`, `InvoicePaid`, `InvoiceFails` and
`EndAtPeriodEnd` change; each change emits events that carry the subscription as it is then. `Claim` starts a
handler, which goes through `UpsertPayment` and `Retrieve` if it is an invoice's or a Checkout's, and
`UpsertSubscription`; `Reconcile` enters at `Retrieve`. `CancelSubscription` changes Stripe's side only, as in
the code. Time is the number of periods that are over. The customer portal changes nothing here; what a
customer does in it are the changes of `sub`.

**PluginHost** - `pc[i]` is where process `i` is in `Migrate` and its life after it, one step per SQL statement
(`CheckVersion`, `AutoMigrate`, `MarkSucceeded`, `MarkFailed`, `SetStarted`, `RecordVersion`); `Dies` stops it
anywhere. The webhook records start in any state the old schema can hold; `Claim` and `Finish` are those
of a process that serves. `loop[i]` is the reconciliation goroutine: a pending tick, a pass, its canceled context.
Statements of a migration take effect one by one, as on MySQL, where DDL commits; the runs of PostgreSQL, which
rolls a failed migration back, are among them. A process of an older version that writes to the tables
during the migration is not modelled.

**MC...** modules name sets and symmetries for TLC; **...Proofs** modules hold the theorems.

## 4 The runs

| Run | Instance | Shows |
|---|---|---|
| Inbox | 1 event, 2 handlers, 3 leases, lease of 2 ticks, 3 faults, signatures that expire | leases exclude, only the holder finishes, SUCCEEDED is final, a reported success is on record, payloads last as long as they are needed, `WebhookLifecycle` is implemented; an event ends SUCCEEDED, unless a duplicate of it had been answered 200 and its last attempt died, or failed and its signature expired |
| PaymentLedger | 1 payment, 2 callers, 3 upserts, all statuses | the transactions are atomic merges (`PaymentRecord` is implemented); the record has the highest status and keeps its identity |
| Purchase | 1 Checkout, free or paid, its events and that of a declined card, 2 attempts, 1 fault | a benefit at most once, only when Stripe asks for nothing more, after the record, and in the end, unless the webhook is orphaned or has lapsed; a SUCCEEDED webhook has been fulfilled |
| Sync | 2 subscriptions, 1 always refused by its provider, the other refreshed for 2 identities, pages of 1, 2 versions, 1 handler, 1 reconciler, 1 fault | `SubscriptionRecord` is implemented; an owner stays, nothing is written for another; a pass visits every row there was; reconciliation brings the other row up to date for good |
| Apple | 2 transactions, 3 notifications, a clock of 2 ticks, 1 handler, 1 reconciler, 1 fault | only paid periods entitle; a succeeded notification is recorded; reconciliation restores a paid entitlement that a stale notification or the refund of an earlier period took, and withdraws one that a copy signed before a refund gave |
| Google | 2 identities, 2 orders, 1 handler, 1 reconciler, 1 fault | the buyer owns; stored only once Google has acknowledged or refused to, and acknowledged in the end if in force; a refund stays; the row ends up as Google has it |
| Subscription | 1 one-time purchase, 1 subscription with 3 changes, with and without trial, 1 request at a time, 1 handler, 1 fault | a repetition is refused only for a trial or a new customer; a processed event is on record; entitlement ends up as at Stripe |
| Host | 2 processes, 2 records of any old state, 2 deaths | old records are converted once the version is recorded, a late migration changes nothing in use, shut-down returns and leaves nothing running |
| InboxInterruption, InboxRetryAnswer, PurchaseRecord, AppleGrace | smallest that suffice | violated: section 6 |

Why the bounds are enough. The races are between two actors on one row, so two of them meet all of them; in
the inbox three faults let a takeover follow a crash that followed a failure. Events and payments do not
interact, so one is enough, and where rows do (pages), two rows in pages of one give a full page, an empty
last one and an insertion between them. Leases need one more id than handlers. Two transactions or orders give
a present and an earlier one, three notifications a purchase, a renewal and a refund of the earlier. A clock of
two ticks with periods of one lets a period end, its grace period begin and end. Three changes of a Stripe
subscription are a completed Checkout, a renewal or failure, and a recovery or an end, so that events of a
later change can overtake those of an earlier one. In Apple, Google, Sync and Subscription the reconciler, or
the next claim, is the second actor on the row. Two processes migrate, one of them late; with two deaths each
may die once half way, or one twice. In Purchase an attempt that has ended or died may begin again under
its name, so two of them give an attempt that is overtaken and its successor; an overtaken attempt is a fault, and so
is a crash.
Subscription has one handler, so that a retrieval and its write are interleaved there with Stripe's changes and not
with another handler's write; that race is in Sync, for a snapshot of any kind.
What the runs leave out by their size (two handlers of one Stripe subscription, two that acknowledge one Google
purchase, a third claimer during a takeover) is, for safety, in the theorems of section 5, which need none of these
bounds.

Fairness. Handlers run on (weak fairness of each handler's steps): goroutines are scheduled, and every call
has a context or client timeout. Time passes. A provider repeats a delivery until it is answered 200, and an
operator retries what is FAILED: Stripe, Apple and Pub/Sub document the first, `docs/OPERATIONS.md` asks for
the second. Waiting for a row's lock is strongly fair: databases grant locks in turn. The ticker
(`plugin:118-137`) starts passes again and again, and each row has its turn in them (`PassComplete`). In
`StripePurchase` the same two are assumed of each event, with the same limits: no redelivery of what was answered
200, no retry of what is not FAILED or whose signature is too old; so `SettledIsFulfilled` excepts `Orphaned` and
`Lapsed` webhooks, as `EventuallySettled` does, and as InboxInterruption shows it must. In `StripeSubscription` the
events of a subscription come again only until there is a row, and reconciliation does the rest; to lose a
webhook takes a fault, and with the one fault of the run one of the two events of a completed Checkout stays. In `AppleStore` only reconciliation is fair. In
`PluginHost` a pass ends, since its calls honour their context, and `select` does not pass over a canceled
context for ever when a tick is always ready as well: Go chooses among ready cases at random. Nothing is
assumed of applications: that one asks again to verify a purchase is not in this code.

## 5 The proofs

Proved by TLAPS for any number of events, handlers, rows, identities, leases, keys, processes and faults, from
the named assumptions on the constants (mostly that bounds are numbers and that names of different kinds
differ). Each module proves an inductive invariant, one lemma per action, and reads its theorems off it; where a
group of theorems needs more, a second invariant is proved on top of the first. Every theorem's formula was
checked with TLC on its component's instance first; those that a run lists are in section 4.

- `WebhookInboxProofs`: `InboxInvariant`, `LeaseExclusionHolds`, `PayloadKeptHolds`, `SucceededIsFinalHolds`,
  `OnlyHolderFinishesHolds`, `FinishedOkIsDurableHolds`, `OneHandlerEachHolds`, and the refinement
  `InboxImplementsLifecycle`.
  `LeaseExclusion` alone is not inductive: one must know that leases of handlers differ from each other, that
  a handler which works has a lease that is, or was, on the record, and that it is not on the record only when
  the attempt has outlived it. `InboxInv` says so and is checked by Inbox. `OneHandlerEach` is the inbox when
  nothing goes wrong: no fault yet, and no claim stalls longer than a lease. `Calm` adds that every handler at
  work then has its lease on the record and within its time, and finishes well; that no record is FAILED; and
  that every PROCESSING record has its handler, so that a claimer finds none it may take over.
- `PaymentLedgerProofs`: `LedgerInvariant`, `StatusIsTopRankedHolds`, `IdentityKeptHolds`, `LatestOccurrenceHolds`,
  `LocksAreHeldHolds`, `RedeliveryHarmlessHolds`, `OrderIrrelevantHolds`, and the refinement `LedgerImplementsRecord`.
  The invariant adds that who is about to update has the row locked and has seen it as it is. That events may
  come again and in any order follows: a record shows the top rank and the latest time of the set of events it
  has taken in, and one rank is one status (`OneRankOneStatus`), except for CANCELED and FAILED.
- `SubscriptionSyncProofs`: `SyncInvariant`, `OwnerImmutableHolds`, `ForeignSnapshotRejectedHolds`, `NothingSkipped`,
  `PassCompleteHolds`, and the refinement `SyncImplementsRecord`. `WritersLock`
  makes a row's writer the only one and `WritersSawOwner` the owner it has read the present one; without the
  lock in `Select` both fail, and so does the ownership check. That a pass skips nobody rests on `PassesCover`:
  a row still to be visited is behind the cursor, or in the batch, or behind the batch. It survives a page
  because a page is closed downwards in the order of primary keys (`ListedBeforeTheRest`), and the end of a pass
  because a page that is not full holds all the rest (`LastBatchIsTheRest`); primary keys never change
  (`KeysStay`), so rows stay behind a cursor however many are inserted meanwhile.
- `StripePurchaseProofs`: `FulfilledAtMostOnceHolds`, `FulfilledOnlyIfSettledHolds`, `FulfilledAfterRecordedHolds`,
  `SucceededMeansFulfilledHolds`, `SettledIsAwaitedHolds`, `RecordedPaidOnlyIfSettledHolds`. An attempt that is about to
  publish works on an event of a settled Checkout, paid or with nothing to pay, has a
  sellable product and has recorded the payment; one that is to report success has published
  (`AttemptsExplained`). Stripe emits an event that completes only once settled (`EventsExplained`), and the ranks
  of payments only rise. A payment is not forgotten because settling emits an event that completes
  (`SettledLeavesAnEvent`), which stays open until it is fulfilled.
- `AppleStoreProofs`: `EntitledOnlyWhilePaidHolds`, `SucceededIsRecordedHolds`, `RevocationDeniesHolds`,
  `RefundIsRecordedHolds`, `TrueAnswerEntitlesHolds`. What
  is signed fits Apple's side for ever (`Fits`), so a row's end is that of a paid period. A grace period reads
  TRIALING, even of a transaction taken back; it does not entitle because it starts when the latest period
  has ended and every other one ends before, unless it was taken back itself (`StoreOK`). `Word` says that an
  active subscription carries nothing of a failed renewal (`ActiveIsClean`) and that a status derived some time
  ago still fits its snapshot (`KeepsWord`): so a true answer entitles, which is what `PaidIsEntitled` needs beside
  fairness, and a refund without renewal information is REFUNDED; with it, section 6 applies.
- `GoogleStoreProofs`: `OwnerIsBuyerHolds`, `StoredIsAnsweredHolds`, `VoidedStaysRefundedHolds`,
  `PaymentsWereOrderedHolds`, `RefundsAreGooglesHolds`. A handler
  past the ownership check, or with its identity from the row, works for the buyer; one that is about to store
  has seen the acknowledgement or its refusal, itself or through the row; and the order a voided notification names was voided.
  `TracksGoogle` adds that what handlers and row carry is no younger than Google's side, whose orders and refunds
  stay.
- `StripeSubscriptionProofs`: `RetryNotRefusedHolds`, `ProcessedIsRecordedHolds`,
  `EntitledWasLiveHolds`, `PaymentsAreInvoicesHolds`. A request
  or a session with a customer means that one is on record, and records stay; a handler past the payment of
  its event has recorded it; and an event speaks of a period there is an invoice for. `Source` follows what is
  written back to Stripe: a subscription was bought and its present snapshot was sent in an event, so that one
  that was retrieved, or brought by an event, was said, and so was every row.
- `PluginHostProofs`: `LegacyConvertedHolds`, `QuietAfterShutdownHolds`, `LateMigrationHarmlessHolds`,
  `ProcessedForGoodHolds`, `LoopFollowsHostHolds`. Each UPDATE
  establishes a fact about every record and keeps those of the ones before it; a fact holds from the time any
  process is past its UPDATE, and what `Claim` and `Finish` write has all three, so a late UPDATE finds nothing.
  Nobody serves before the version is recorded, so nobody claims a processed record that is not marked yet.
  `LoopFollowsHost` is inductive with the types alone.

Each of these modules also proves type correctness.

Only model-checked: every liveness property (`EventuallySettled`, `SettledIsFulfilled`, `Converges`, `PaidIsEntitled`,
`RevokedIsDenied`, `InForceIsAcknowledged`, `MirrorsGoogle`, `EntitledAsAtStripe`, `ShutdownEnds`), since fairness and ENABLED are out of the prover's reach. Every other property of a passing run is a theorem.

## 6 Where code and documentation disagree

Four runs find a behaviour of the code against a sentence of the documentation; `PROJECT.json` quotes
them.

- **InboxInterruption** - "a process interruption is recovered": a redelivery while the lease is live is
  answered 200; when the attempt then dies nobody delivers the event again, and retry wants FAILED.
- **InboxRetryAnswer** - 204 of a retry means "processed successfully": a retry that loses its claim to a
  redelivery gets 204 while the event is being processed, and may fail.
- **PurchaseRecord** - the purchase event is emitted after the successful payment is recorded: a declined card
  before leaves the payment FAILED, which outranks SUCCEEDED.
- **AppleGrace** - "trials/grace remain entitled": the row's end has passed when Apple's grace period begins.

Six more are read off one line of the models, and no run is spent on them:

- `RetryVerify`: `docs/OPERATIONS.md:7-8` says failed events can be retried, but the stored signature is verified
  anew (`service:409`) and no longer verifies after some minutes; only the provider's own redelivery then helps.
- `DerivedStatus`: `TODO.md:88-89` and `TestAppleRefundRecordsRefundedPayment` expect a refunded payment, but an
  expiration intent left from the expiry replaces REFUNDED before the payment's status is derived from it
  (`apple:282`), and the payment stays SUCCEEDED. The test passes no renewal information.
- `Create`: `docs/STRIPE_WEB_INTEGRATION.md:81-83` tells clients to reuse the idempotency key when the result of a
  request is uncertain, but with a trial the repeated request has another `trial_end` (`stripe:184`), and after the
  first purchase another customer, and Stripe refuses it. `RetryNotRefused` says that nothing else is refused.
- `stripeCheckoutPaymentStatus`: `docs/EVENTS.md:22` says the purchase event is published "only for a paid one-time
  Checkout Session". A completed Checkout with `payment_status` `no_payment_required` is SUCCEEDED as well
  (`stripe:415`): it is published, and the benefit granted, though nothing was collected. A discount of 100% is a
  sale; the properties therefore speak of a settled purchase.
- `UpsertSubscription` of `AppleStore`: `TODO.md:100-101` says that refunded and revoked subscriptions do not entitle.
  `apple:290-304` compares no signed dates, so a notification or a purchase sent in by the application that was signed
  before the refund, and is processed after it, writes ACTIVE over REFUNDED; until the next reconciliation the
  identity is entitled. `RevokedIsDenied` says that reconciliation ends it, `RevocationDenies` what a snapshot with the
  revocation in it does.
- `Acknowledge` of `GoogleStore`: `TODO.md:82-83` says "already-acknowledged conflicts are idempotent".
  `googleAcknowledgeAlreadyDone` (`google:322-325`) takes every 400 and 409 for one, so a purchase that Google refuses
  to acknowledge for another reason, one that is still pending for example, is stored unacknowledged. It is asked for
  again whenever the purchase is refreshed, so that `InForceIsAcknowledged` holds.

## 7 What is not modelled

- Refunds and disputes at Stripe (`stripe:285-329`). They are recorded under ids of their own and nothing is decided
  on them. One that arrives before its payment is recorded without an identity until another event of it comes;
  and a refund that fails, or a dispute that is won, has a status of lower rank than the one on record, so the
  record does not change. No document or test says otherwise, so there is no property to hold or to refute.
- Two subscriptions for one identity: `CreateSubscription` checks for an active one and creates a Checkout later, so
  two keys, or one while a webhook is pending, can both pass (`service:218`). `StripeSubscription` takes these
  steps; nothing documented forbids them.
- Stripe's idempotency is assumed: `Create` gives a key its first session. That Stripe forgets a key after 24 hours is
  left out; a request repeated later opens another Checkout, and nothing documented says what should happen then.
- A Stripe purchase or subscription all of whose webhooks were answered 200 as duplicates and whose attempts then
  died is not recorded: InboxInterruption has the cause. Reconciliation visits only what is stored.
- A Google purchase whose line item has no expiry time is not stored (`google:210-213`); the model stores every answer.
- A Google purchase that is acknowledged and then not stored: only another request of the application, of which
  nothing is assumed, brings it back.
- The price cache: a slow refresh can put older prices back for thirty minutes, and nothing says that it may not.
- Signatures, JWS chains, OCSP and token encryption: only their outcome, and that a stored signature expires.
- Configuration, product catalogue, request validation, metrics, history queries, the example plugin: sequential
  code that unit tests reach. Amounts, currencies, customer ids and plan codes are copied, never decided on, in
  what is modelled.
- Columns nothing is decided on: `attempts`, `last_error`, `last_attempt_at`, `processed_at` (clean-up's age limit
  may have elapsed at any time), `cancel_at`, `cancel_at_period_end`. `PluginHost` keeps what the migration reads
  of them.
- How the host behaves: that it starts a plugin only after its migration, and calls `Shutdown` once.
