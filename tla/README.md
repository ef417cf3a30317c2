# A verification project for the invoice platform

TLA+ models of the invoice platform (Rust: Actix handlers over Postgres and
Redis, background workers, Stripe), the TLC runs that check them on small
instances and the TLAPS proofs of what matters most for instances of any size.
Paths below are relative to the repository.

## 1. The system

One process serves HTTP and runs five background workers. All state is in
Postgres and Redis, so every handler and worker is a sequence of SQL
statements, Redis commands and calls to other services, with `await`s between
them at which any number of other handlers run. Almost no handler uses a
transaction; correctness rests on single conditional `UPDATE`s.

| Part | State | Operations | Talks to |
|---|---|---|---|
| Invoices (`src/modules/invoice`) | `invoices` rows: status, totals, due date | create, update (draft only, `FOR UPDATE`), send, cancel, viewed; list and get read | e-mail queue, outbound events |
| Overdue job (`src/jobs/overdue.rs`) | none | hourly bulk `UPDATE ... RETURNING` | invoices, outbound events |
| Payments (`src/modules/payment/mod.rs`) | `payments` rows, `idem:pay:*` keys | pay (checkout session), refund | invoices, Redis, Stripe behind a breaker |
| Stripe webhook (`src/modules/payment/webhook.rs`) | `stripe:event:*` keys | checkout completed, payment succeeded, payment failed | payments, invoices, outbound events |
| Cache (`src/cache`) | Redis | GET, SET, SET NX EX, INCR with TTL | |
| Circuit breaker (`src/circuit_breaker`) | state, two counters, `opened_at`, behind a mutex | call | Stripe, mail, subscribers |
| Dispatch and queues (`src/jobs/mod.rs`) | apalis queues in Redis | enqueue e-mail, fan an event out to subscriptions | the workers |
| Delivery worker (`src/jobs/webhook_delivery.rs`) | none | one POST per job, 8 retries | breaker, subscribers |
| E-mail worker (`src/jobs/invoice_email.rs`) | none | re-reads the invoice, sends | mail service |
| Recurring invoices (`src/modules/recurring_invoice`, `src/jobs/recurring.rs`) | templates: status, next run | create, update, pause, resume, cancel; scan every 15 min; materialise job, 3 retries | invoices |
| Subscriptions (`src/modules/webhook_subscription`) | `webhook_subscriptions` rows | create, update, delete | |
| Clients (`src/modules/client`) | `clients` rows, deleted by a mark | create, update, delete | invoices, the e-mail job |
| Users (`src/modules/auth`) | `users` rows | register, login, refresh | password hashing |
| Organizations (`src/modules/organization`) | `organizations` and `members` rows | create, update, invite | users |
| Password hashing (`src/auth/password.rs`) | a semaphore, blocking tasks | hash, verify | |
| Rate limiter (`src/middleware/rate_limit.rs`) | a counter per caller and minute | count, refuse | Redis |
| Analytics, audit log, metrics, configuration | none of their own | read and report | |

What is hard here, and so what the models are about:

- handlers of one invoice interleave between read and write (a total read long
  before the payment is inserted, a previous status read before the update);
- Stripe delivers events in any order, repeatedly and concurrently, and
  acknowledges on any 2xx;
- a handler can die at every `await`, after part of its writes;
- the breaker counts an outcome long after it admitted the call;
- two jobs of one template run at once, and each attempt starts from nothing;
- a subscription is edited while an event is fanned out to it and retried;
- what follows a commit (e-mail, outbound events) may never happen;
- an e-mail job reads its invoice and client anew at every attempt, while both
  go on changing and the client may be deleted;
- a request dropped by its client releases its hash permit, not the thread;
- the minute of a rate-limit counter is named before the request is counted.

What makes each part correct is stated by the properties of section 4; every
hazard found while reading, with the line where it bites, is in
`PROJECT.json`, those no property covers with the reason.

## 2. The modules

`InvoiceLifecycle` is the abstract specification of an invoice's status: the
edges of its flow, one invoice at a time, except that the overdue scan may move
many together. A payment may revive a cancelled invoice, and no invoice is ever
partially paid: every payment asks for the whole total.

`Invoices` models `src/modules/invoice/mod.rs` and the overdue job.

| Variable | Code |
|---|---|
| `invoice` | `invoices.status`, `total`, and whether `due_date < now()` |
| `editing` | row locks of open `update` transactions |
| `email` | the `SendInvoiceEmail` job of an invoice: still to push, queued, lost |
| `owed`, `fired` | outbound events a handler has still to dispatch; history of those dispatched |

`Create`, `Send`, `Cancel`, `MarkViewed` are the handlers' single statements;
`UpdateLock`/`UpdateCommit`/`UpdateRollback` the transaction of `update`, whose
lock makes the other statements wait; `EnqueueEmail`, `Dispatch` and `Abandon`
are what follows a commit, done or lost; `OverdueScan` is one bulk statement
over all rows.

`Mailing` extends it with `src/modules/client` and `src/jobs/invoice_email.rs`,
and with the two statements of `create_invoice` that name a client.

| Variable | Code |
|---|---|
| `client` | `clients` rows: absent, live, or marked deleted |
| `billed` | `invoices.client_id`, or the client a request about to insert has checked |
| `mail` | the `SendInvoiceEmail` job: queued, read (with the total it read), settled; failed attempts |
| `mailbox` | history: the amounts named in the messages that went out |

`CheckClient` is the SELECT before the insert and `BilledStep` every step of
`Invoices`, the insert only once a client has been checked; the client may be
deleted in between, and the foreign key asks only that the row exists.
`ReadForMail` is the job's SELECT, which joins clients without looking at the
mark; `SendMail` and `FailMail` what the sender makes of it, a failure with the
message already gone included; `LoseMail` a job lost with the process.

`Payments` extends `Invoices` with `src/modules/payment` and composes the two: its
`Next` interleaves every invoice step with the payment steps.

| Variable | Code |
|---|---|
| `payment` | `payments` rows; `session` and `intent` say whether the Stripe ids are stored |
| `checkout` | a `POST /invoices/{id}/pay` in progress: where it is and what it has read |
| `idem` | `idem:pay:{key}`: absent, `in-flight`, or the cached reply |
| `stripe` | external: the session, and the amount refunded |
| `event` | external and Redis: emitted, dedup key set, answered |
| `worker` | webhook requests in progress, with what `transition_invoice_for_payment` read |
| `refund` | refund requests in progress |
| `announced`, `paidNotices` | history of `payment.*` and `invoice.paid` dispatches |

Each handler is split at its `await`s: `StartPay` (GET), `ReserveKey` (SET NX),
`LoadInvoice`, `InsertPayment`, `CreateSession`, `RecordSession`, `StoreResult`;
`Deliver` (SET NX), then `HandleCompleted`, or `RecordOutcome`, `Announce`,
`ReadTotals`, `WriteInvoice`, `AnnouncePaid`; `StartRefund`, `CallRefund`,
`WriteRefund`. `CheckoutFails`, `HandlerFails` and `RefundFails` are every
error, open breaker, dropped request or process exit between two of them. A
constant is how the two parts differ from the code: `Payment` names the rows
that may come to exist, each with the request that inserts it.

`BreakerContract` is what the head of `src/circuit_breaker/mod.rs` promises;
`CircuitBreaker` models `call`: `Admit` is the section before the future,
`Succeed` and `Fail` the one after it, `Abandon` a dropped future, `Tick` time.
`losses` and `wins` are history: runs of outcomes in the order calls finished.

`Calendar` is the date arithmetic of templates: a date as chrono keeps it,
`Advance` by a week or by months, and `OnCadence`, which says without a loop
what the dates of a template are. chrono refuses a date that does not exist, and
`add_months`, which sets year, month and day one after the other, then returns
the date it was given.

`Recurring` models `src/modules/recurring_invoice` and `src/jobs/recurring.rs`.

| Variable | Code |
|---|---|
| `now` | the database's and the process's clock, by the day |
| `template` | `recurring_invoices`: status, frequency, start and end dates, `next_run_at` |
| `job` | jobs queued or running: how far, which attempt, and the row as it was read |
| `number` | the `invoice_number`s in use, and whether a template or a user has each |

`CreateTemplate`, `UpdateTemplate`, `Pause`, `Resume` and `CancelTemplate` are
one step each: `update` and `resume` hold the row lock from their read to their
commit. The job is split at every statement (`Load`, `Expire`, `CountNumbers`,
`InsertInvoice`, `AdvanceSchedule`, `FinishJob`), and `FailJob` and `LoseJob`
may come between any two; the next attempt starts again at `Load`. The job's
write of `next_run_at` is by id alone and from the frequency it had read, so an
update that races with it ends with the old frequency's next run: the model has
that step, and `ScheduleIsKept` asks for a run on the cadence of some
frequency, not of the current one. A search for the next run that does not end
hangs its request or its job; a step that needs its result is not enabled then.

`Delivery` models `src/modules/webhook_subscription`, the fan-out of
`dispatch_webhooks` and `src/jobs/webhook_delivery.rs`. It composes the worker
with `CircuitBreaker` by `INSTANCE`, with the jobs as the callers: `Start` takes
`Admit`, `Delivered` and `Refused` take `Succeed`, and `Unanswered` takes
`Fail`.

| Variable | Code |
|---|---|
| `subscription` | `webhook_subscriptions`: live, inactive or deleted, and the url |
| `dispatched` | occurrences whose fan-out has read the rows |
| `job` | one `DeliverWebhook` per occurrence and subscription, with the url it took along, its attempt, and, as history, which endpoints it reached and how often |
| the rest | the breaker |

Two things about it are easy to read past. An answer outside 200..299 fails the
job but is a success to the breaker, as the closure returned `Ok`. And the
policy is `RetryPolicy::retries(8)` alone, so the model spaces attempts by
nothing, although webhook_delivery.rs:37-38 speaks of a backoff: all attempts may
be used up within one cooldown.

`Hashing` models the limit of `src/auth/password.rs`: a fair semaphore of as
many permits as there are cores in front of the blocking pool. `waiting` is its
queue, `holding` the requests that have a permit, `running` those whose hash is
being computed, `orphans` the hashes that run on after their request was
dropped. `Accounts` extends it: a request that registers or logs in reads the
users table, asks for a permit, hashes, and registers by an INSERT.

| Variable | Code |
|---|---|
| `users` | `users.email` |
| `request` | register and login requests: selected, hashed and about to insert |
| `welcomed` | history: 201 answers per address |
| `founder`, `role` | `organizations.owner_id`, `members.role` |
| `invitation` | invite requests: the role of the caller checked, the invitee found |

`Arrive`, `AskPermit`, `GetPermit`, `Hashed`, `InsertUser` are a request's steps
and `DropRequest` its end at any of them; `CreateOrg` is one transaction;
`Invite`, `FindInvitee`, `SetRole` are the three statements of an invitation.

`RateLimit` models `src/middleware/rate_limit.rs` with the commands of
`src/cache/mod.rs` it uses, for the requests of one caller.

| Variable | Code |
|---|---|
| `now` | the clock of the process and of Redis |
| `counter` | `rate:{who}:{minute}`: count and end of life |
| `request` | where a request is, the minute it read, when it was counted, when it may return |

`Arrive` names the counter, `Count` is the INCR with EXPIRE NX up to a tick
later, `Refuse` the TTL and the 429. A Redis error lets a request through:
`FailOpen` if it was not counted, a lost reply of `Count` (`unheard`) if it was.

`MCPayments`, `MCRecurring`, `MCAccounts` and `MCRateLimit` instantiate their
modules, the others need no definitions of their own to be run. `MCAccounts` and
`MCRateLimit` add a symmetry. `MCPayments` adds one too, and an initial state in
which the invoices are already sent, reachable from `Init`, so that runs about
payments do not spend their states on drafts. `MCCollection` starts from there
or from the empty table, and bounds the actors of each start.
`InvoicesProofs`, `MailingProofs`, `PaymentsProofs`, `CircuitBreakerProofs`,
`DeliveryProofs`, `AccountsProofs`, `RecurringProofs` and `RateLimitProofs` hold
the proofs. Operators with a comment "Mutant" are
plausible bugs of the definition that follows them; nothing uses them but the
entries of `PROJECT.json` that say which property notices which.

## 3. What is abstracted, and why it is sound

- The tenant: every statement is scoped by `org_id`; one organisation is
  modelled. Line items, tax, currency, notes and `*_at` stamps are not read by
  any guard; only the total is kept, in cents (the columns are
  `NUMERIC(14,2)`, so `* 100, round()` is exact).
- Postgres: a statement is atomic, an `UPDATE` of a locked row waits. Read
  committed isolation is what the code runs under, and no transaction in it
  reads twice.
- The dedup key lives 48 hours and is never dropped in the model: Stripe's
  first retry comes long before, and is acknowledged by the key.
- Stripe creates no session over nothing (`amount > 0`), refunds no more than
  it charged, and the customer pays only with the URL that a finished request
  returned.
- An absent payment row has a dummy invoice and amount; no property reads them.
- The breaker inside `create_checkout` and `refund` shows only as one more way
  for the call to fail.
- A template's line items, currency and due days are copied to the invoice and
  read by no guard. The time of day of a date is kept by every operation and
  compared with nothing finer than the clock, so a day is one instant.
- The loop of `compute_next_run_at` is a recursive function over its rounds
  (`NextRun`), which stand still once the date is past; it is taken for ended if
  it is past after `LoopBound` rounds (`Ends`). A search that is not is one that
  does not advance, as no two instants of a run are that many weeks apart.
- The queues: a job is kept until its handler returned `Ok` or its attempts are
  used up. What apalis does with the job of a worker that died is not in this
  repository; in `Recurring` and `Mailing` such a job is lost, which is the
  worse outcome, and `Delivery` leaves that case out.
- Of a client only its existence and its mark are kept; PATCH writes contact
  columns that no guard reads. A job that can no longer run forgets what it
  read.
- The blocking pool has more threads than there are permits, so a started task
  runs. Passwords and tokens are left out: a login that finds its user takes a
  permit whether or not the password turns out right.
- A deployment's Redis and processes share one clock in `RateLimit`; `Lag` bounds
  the time from reading it to being counted.
- `SYMMETRY` is used only in runs whose properties are invariants and action
  properties. The elements it exchanges are used by no definition but through
  `\in`, equality and functions over them: where an operator of the models
  chooses one (`AnyPayment`, the dummy rows), it chooses from another set.

## 4. The runs

| Run | Bounds | Properties | Shows |
|---|---|---|---|
| `mailing` | 2 invoices, totals 1 and 2, 1 client, 2 attempts, sent and overdue subscribed | `AnnouncedOnceAndTrue`, `MailNamesFinalAmount`, `NoMailSkipped`, `TotalFrozenOnceSent`, `FollowsLifecycle`, `PastDueIsNoticed` | handlers, scan, e-mail jobs, deleted clients and lost steps in every order |
| `collection` | 1 invoice, totals 0 and 2, 2 payments; from an empty table: 1 key, 1 webhook request at a time, 1 card declined first; from a sent invoice: 2 webhook requests, 2 refunds, no key | `PaidWasCollected`, `AmountIsInvoiceTotal`, `CachedReplyIsUsable`, `NoticesAreBacked`, `LedgerAgreesWithStripe`, `NoSuccessAfterRefund`, `StepsFollowLifecycle` | from a draft to a recorded payment; events and refunds repeated, reordered and concurrent |
| `recurring` | 1 template, 2 jobs, weekly or monthly, start January 28, the days January 10, February 9 and March 14 of 2024, an end date or none, 2 attempts, 2 numbers | `ScheduleIsKept`, `CancelledGoesQuiet`, `DueIsServed` | users, scans and failing jobs over runs that come late |
| `delivery` | 2 subscriptions, 1 event, 2 urls, 2 attempts, thresholds 2 and 1, cooldown 1 | `OneEndpointPerEvent`, `HeardWithinBudget`, `UsesBreaker`, `EveryJobSettles` | edits during fan-out and retries, one breaker for all |
| `breaker` | 3 calls, thresholds 2 and 2, cooldown 2 | `CountersFitState`, `OvershootIsBounded`, `TransitionsAreEarned`, `ImplementsContract`, `RecoversWhenHealthy` | stragglers from an earlier state |
| `accounts` | 3 requests, 2 permits, 1 orphan, 2 addresses, 1 organization, 1 invitation | `HashThreadsBounded`, `NoIdlePermit`, `NoPermitLeaked`, `OneWelcomePerAddress`, `FounderKeepsSeat` | requests dropped anywhere, one address registered at once, roles overwritten |
| `rate_limit` | 5 requests, limit 2, minutes of 3 ticks, 3 of them, lag 1 | `RefusalIsFair`, `RetryAfterClears`, `BurstIsBounded` | bursts over the end of a minute, counters that expire between two commands |

Each passing run also has the type invariant of its module. Two invoices are
enough for the bulk statement to move some rows and not others; handlers of
different invoices share nothing else. Two payments, two requests with one key
and two webhook requests are the least with which each race of section 1 happens;
the violations below need no more. `collection` has two starts because the two
groups of races together, keys and edits on one side and concurrent handlers and
refunds on the other, are more states than a run can visit; the proofs of
section 5 have no such bound. Three calls exceed both
thresholds of the breaker. The three days of `recurring` lie before the start,
after it, and a leap day later, so that one
scan is late by one run (monthly) or by several (weekly); two jobs are what two scans of one due
template make. In `delivery` two attempts are one retry, and two failures open
the breaker for the other subscriber's job. Three requests are one more than
the permits, so one queues, and two of them can register one address while the
third holds a permit. Five are one more than twice the limit of `rate_limit`,
whose clock passes two ends of a minute, with a counter that outlives its minute
at each. The one client of `mailing` is shared by both invoices; a second client
would only be another row with no statement that reads both.

Runs that must fail, each stating what the repository says of itself:

| Run | Claim | What TLC finds |
|---|---|---|
| `paid_once` | webhook.rs:233-235 "emit invoice.paid exactly once" | two succeeded handlers read the status before either writes it; both emit |
| `charge_recorded` | webhook.rs:117-118 "`payment_intent.succeeded` ... does the status transition" | handled before `checkout.session.completed`, it finds no row; the payment stays pending |
| `second_attempt` | recurring.rs:59-60 "the second attempt no-ops" | the second of two jobs of one due template reads its status only, and makes another invoice after the first has advanced the schedule |
| `month_end` | recurring_invoice/mod.rs:89, 113 "Month-end clamp", "until the result is strictly in the future" | a monthly template that starts on January 31: February 31, the step between, does not exist; the date stays where it is and the search never ends |
| `lost_email` | invoice/mod.rs:447-448, of an e-mail job that could not be pushed: "The overdue worker + manual resend can recover" | nothing pushes a job but the first send: the overdue worker moves the status only, and `send` refuses what is no longer a draft |

`lost_email` is checked with more fairness than the code is sure of
(`HelpedMailingSpec`): besides the overdue worker, time passes and a user who may
send does so in the end (strong fairness of `Send`).

Some texts are not what the code does, and have no run of their own:

- circuit_breaker/mod.rs:168 calls the `Open` arm of a failed call unreachable,
  but a call admitted earlier may fail while the breaker is open. `Fail`
  therefore has that case, and `OvershootIsBounded` says how far the count can go
  by it.
- recurring.rs speaks of pushing an e-mail after materialising an invoice; the
  job leaves a draft and pushes nothing.
- The breaker made for e-mail is built and passed to the worker, which does not
  use it.
- src/README.md:128 says that the same key within 24 hours returns the cached
  response "without re-creating a Stripe session". Of two requests that both find
  the key free, the second creates its session even after the first has cached
  its response: `ReserveKey` goes on whether or not it took the key. The comment
  at idempotency.rs:10-13 accepts this; the two texts disagree.
- password.rs:16-17 says that memory is bounded "regardless of request rate". A
  request dropped while its hash runs gives its permit to the next, and both
  hashes run: `HashThreadsBounded` is about live requests, `orphans` come on top.

Other things a reader of the models meets, promised otherwise by no line of the
repository: the dedup key of a Stripe event is kept when its handler fails, so
that the retry is answered 200 and the event is lost; a late
`payment_intent.payment_failed` of an earlier attempt writes `failed` over a
payment that has succeeded or been refunded (webhook.rs:198-204), whose invoice
stays paid; an invoice stays paid when its payment is refunded, also between the
`SUM` and the `UPDATE` of a handler, as refunds never write invoices; a payment
stays succeeded when the step after Stripe's refund is lost; a request
that fails after it took its `Idempotency-Key` leaves it in flight, so that a
retry within 24 hours gets 409, there being no response to return; the loser of
a registration race gets 500 where a later request gets 409; an invitation may
give the owner another role, so an organization may be left without an owner,
and only the seat is sure; a taken invoice number makes every job of a template
fail; a schedule advanced by a job that began before a PATCH follows the old
frequency until the next run; requests that cross the end of a minute on their
way to Redis may pass on top of twice the limit, as their counter starts afresh,
and so do those for which Redis does not answer.

Fairness. `PastDueIsNoticed` assumes that the cron worker keeps ticking (it is
spawned for the life of the process and apalis restarts it each hour), and is
stated of every step of `Mailing` beside it; users owe the system nothing, and
an e-mail job may always be lost. `RecoversWhenHealthy` assumes that time
passes, that callers keep calling and that a started call resolves or is dropped
(every client has a timeout). `DueIsServed` assumes that the scanner ticks and that a queued job is
run; its own statement excludes jobs that fail for ever and a generated number
that a user has taken. `EveryJobSettles` assumes that the worker polls its queue
and that a request in flight is answered or times out. Nothing assumes that a
handler does not fail.

## 5. The proofs

`InvoicesProofs`, for any non-empty set of invoices and any totals:
type correctness; `LockedIsDraft`, with types the inductive invariant behind
the rest (every statement that changes a status skips locked rows, and
`UpdateLock` takes only drafts); `TotalFrozenOnceSent`, because the only step
that changes a total holds the lock; `AnnouncedOnceAndTrue`, which is itself
inductive once stated for `owed + fired` together; and that `InvoiceSpec`
implements `InvoiceLifecycle`, step by step.

`MailingProofs`, for any clients and attempts as well: that `MailingSpec`
implements `InvoiceSpec`, which carries those theorems over; type correctness;
`MailNamesFinalAmount` and `NoMailSkipped`; and what `lost_email` finds, for any
instance (`LostMailStaysLost`). The inductive invariant adds to that of `InvoicesProofs` that only an invoice out of draft has a job
(`EmailFollowsSend`), that an invoice that exists names a client that exists
(`BilledExists`), and that what a job has read or mailed is the total of an
invoice whose total is frozen (`MailFits`).

`CircuitBreakerProofs`, for any thresholds, cooldown and finite set of calls:
type correctness, `CountersFitState`, `OvershootIsBounded`,
`TransitionsAreEarned` and the refinement of `BreakerContract`. The inductive
invariant is `TypeOK`, `CountersFitState` and `CountersFitHistory`: the
program's counters are no more than the runs of the history (`failures` of a
closed breaker is at most `losses`, `successes` at most `wins`), which is what
makes a transition earned. `OvershootIsBounded` has an induction of its own, on
the failures counted while open and the calls still running taken together.

`DeliveryProofs`, for any subscriptions, events, urls, attempts and thresholds:
type correctness, `OneEndpointPerEvent`, `HeardWithinBudget`, and that the
deliveries implement `CircuitBreaker`, which carries the theorems above over to
the breaker the worker shares. The invariant is about one job at a time
(`RowFits`): the endpoints told are among the one url it took along, and it has
been heard no more often than it has finished attempts. `OneJob` reduces every
step to the row it writes.

`AccountsProofs`, for any requests, permits, addresses and organizations: type
correctness, `HashThreadsBounded`, `NoIdlePermit`, `NoPermitLeaked`,
`OneWelcomePerAddress` and `FounderKeepsSeat`. The hash limit has an inductive invariant of its own
(`HashInv`: at most as many holders as permits, all of them in use while
somebody queues, nobody in the queue twice or holding), shown of each operation
of `Hashing`; `PermitsFit` says that only a request on its way to a hash
queues or holds, which is `NoPermitLeaked`, and what lets a request ask again
after it was dropped.

`PaymentsProofs`, for any invoices, payments, keys, webhook requests and
refunds: type correctness of the composition, with the theorems of
`InvoicesProofs` beneath it; then `PaidWasCollected`, `AmountIsInvoiceTotal`,
`CachedReplyIsUsable`, `LedgerAgreesWithStripe`, `NoticesAreBacked` and
`NoSuccessAfterRefund`, all from one inductive invariant (`PInv`), whose parts
are shown of each kind of step:

- `CheckoutInv`: a request, its row and its session are written once each and in
  this order; what a loaded request remembers is still the total of its invoice,
  because the invoice is out (`LockedIsDraft` keeps PATCH from touching it).
- `EventInv`: a handler at work holds its event alone, which is what the SET NX of
  the dedup key is for, and there is no event without its charge.
- `MoneyInv`: a row that is succeeded, or a refund request that has read it as
  such, means that the outcome of the charge is written and no handler has still
  to write it (`Recorded`). Without it nothing would stop the outcome from being
  written over a refund.
- `NoticeInv`: an invoice has had no more `invoice.paid` than settled charges,
  those whose handler is done. The rows may be infinitely many; those charged are
  finitely many, so counting them makes sense.
- `PaidWasCollected` itself: a handler that writes `paid` is at work on the event
  of a charge, and the row of that charge asks for all of the invoice's total.

On top of it stands that the system with its payments still implements
`InvoiceLifecycle`, `FollowsLifecycle` and `StepsFollowLifecycle` in one theorem
(`PaymentsFollowLifecycle`). The one write that endangers it is the last `UPDATE`
of `transition_invoice_for_payment`, which can write `partially_paid`, an edge the
flow does not have. The invariant `LifeInv` adds to `PInv` that no invoice is in
part paid (`NeverInPart`) and that no handler is about to say so (`WritesPaid`),
and that rests on what `SUM(amount)` is: every succeeded row of an invoice asks
for the whole of its total, so the sum is zero or at least the total
(`CollectedAllOrNothing`). The sum is a recursion over the set of rows; that it
exists and what it comes to are inductions over the number of rows
(`AddsExists`, `CollectedAtLeast`). The same invariant carries
`AnnouncedOnceAndTrue` and `TotalFrozenOnceSent` over to the composed system,
where a handler of Stripe writes invoices too.

Two promises of `webhook.rs` that the code does not keep, as the runs `paid_once`
and `charge_recorded` show, are proved under the one condition each lacks, which
says where a repair belongs. Each theorem assumes of the behaviour, besides
`Spec`, that a state predicate always holds:

- `NoticedOnceIfWritersApart`: if no two handlers are both between the `SELECT`
  and the `UPDATE` of `transition_invoice_for_payment` for the same invoice
  (`WritersApart`, what a row lock over the two would give), then `invoice.paid` is
  announced at most once for it. `OnceInv` says why: a handler that has read an
  unpaid invoice finds it unpaid when it writes, as nobody else writes `paid`; and
  who has flipped an invoice is alone in that until it has said so, as no edge of
  the flow leaves `paid` (`PaidStays`, from `LifeStep`).
- `ChargesRecordedIfInOrder`: if the handler of `payment_intent.succeeded` only
  starts once `checkout.session.completed` of that charge has been handled
  (`InOrder`, which Stripe does not promise), then a charge whose two events are
  handled is not left pending. `OrderInv`: the session of a charge is in its row
  (`ChargesHaveSession`, because only a finished request shows its page), so the
  first handler links the intent, which no step undoes (`RowsGoOn`), and the second
  finds the row.

Neither condition is an assumption of any other theorem.

`RecurringProofs`, for any templates, jobs, days, dates offered and bounds: type
correctness, `ScheduleIsKept` and `CancelledGoesQuiet`. It has three layers. The
calendar: a week added to a date is a date, seven days later across the ends of
months, years and leap years (`WeekLater`), and `add_months` gives a date of the
same day so many months later or the one it came from (`MonthsLater`). The loop:
a date is `Steady` if it exists, is on the cadence, and, unless weekly, has the day of the
month it started with; a round keeps that (`SteadyAdvance`), so every date that
the loop comes to has it (`NextRunIsSteady`), even where the clamp never works,
as the date then just stays. The rows: every handler writes a template as it
found it or with such a date (`Writes`), every step of a job either leaves the
job or moves it on in its type (`Proceeds`), and type and schedule together are
inductive. `CancelledGoesQuiet` needs only that a job reads the status after it
was queued. Last comes when the search ends (`SearchTerminates`,
and `SearchesEnd` for the templates that are stored):
for weekly templates and for starts up to the 28th of a month, whatever the
frequency, each round comes at least a week further, so it ends; what
`month_end` finds needs a start after the 28th. For two kinds of start it is
proved for every date and any number of rounds (`SearchStalls`): a monthly one on
the 31st, since no three months in a row have 31 days (`LongMonths`), so that the
search never comes past the month after the start; and a yearly one on February
29, as no two years in a row are leap years. Both show a set of dates that a
round does not leave (`SearchStays`). The bound on the rounds that
`SearchTerminates` and `SearchesEnd` ask for, a round for each week between a
start and a day, is met by the
instance of `recurring`.

`RateLimitProofs`, for any requests, limit, length of a minute, lag and horizon:
type correctness, `RefusalIsFair`, `RetryAfterClears` and `BurstIsBounded`. The
invariant looks at a counter from two sides. Those let through in its present
life are at least what it counts, up to the limit (`Fills`), so that a refusal has its
reasons, where those let through without an answer of Redis, but counted, are
among them; those its answers let through in the minute it is named for are at
most the limit, and
while that minute lasts at most what it counts (`Holds`), as a counter in use
outlives its minute (`LifeFits`). A stretch of a minute touches two minutes,
which gives the burst of twice the limit.

Assumptions: the named `ASSUME` of each module and nothing else. They are
evaluated by every run of a module that extends it.

Every invariant and every action property of a passing run is proved. Two
techniques make up for what the provers lack. Induction: the library states it
for an operator, which they cannot instantiate; `NatSetInduction` states it for a
set of numbers, and follows from there being no least number outside the set
(`WFMin`). Recursion: a recursive function is a `CHOOSE`, of which nothing is
known until such a function is shown to exist, which `LoopExists` and
`AddsExists` do by the same induction.

Model-checked only: the liveness properties `PastDueIsNoticed`,
`RecoversWhenHealthy`, `DueIsServed` and `EveryJobSettles`, as they depend on
fairness, hence on `ENABLED`, which is outside the prover's reach. That a queued
job is settled or a due template served therefore rests on the runs alone.

## 6. Not modelled

- Clients: PATCH, list and get. Organizations: PATCH of name, plan and settings,
  which no other code reads; `TenantContext` reads a member's role once per
  request, so a role that changes during the request is not noticed, by design of
  every handler alike.
- Authentication: tokens are signed statements without a table behind them;
  `refresh`, `me` and `AuthUser` write nothing. Timing of login is not a state.
- The sender of e-mail only logs; what it could answer is modelled.
- The generated invoice number in `Invoices` (it is in `Recurring`), and what
  apalis does with orphaned jobs.
- Analytics, audit log, metrics, health, configuration, start-up: nothing the
  other components read.

## 7. Plan

The order was: the invoice flow, since everything else writes it; payments, where
the money and most interleavings are; the breaker, shared by three callers; the
recurring jobs; the delivery of events; the e-mail job with clients; accounts
behind the hash limit; the rate limiter; and the proofs along the same order.
What is left: the invoice number of `create` in `Invoices`, with the retry-less
unique violation of two concurrent creations; and what apalis does with the jobs
of a worker that died, once that is known, in `Delivery`.
