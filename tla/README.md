# Verification of reg-paygate-adapter

The adapter sits between Eurofurence's registration system and the card payment provider Nexi /
Paygate. This directory holds TLA+ modules that model it, TLC runs that check them on small
instances, and proofs, checked by TLAPS, that hold for all instances. Paths in this document are
relative to `src/internal/` unless they start with `src/`.

    tlc -workers 2 -config overlap.cfg MCPaygateAdapter     # one run
    tlapm PaygateAdapterProofs.tla                          # the proofs of one module

## The system

| component | state it keeps | operations |
|---|---|---|
| webhook processing (`service/paymentlinksrv/webhook.go`, `web/controller/webhookctl`) | none of its own | `HandleWebhook`: asks Paygate, fetches the transaction, creates or updates it; `LogRawWebhook` |
| status-check (`service/paymentlinksrv/checkstatus.go`) | none | `CheckPaymentStatus`: asks Paygate, fetches the transaction, settles it |
| payment reading (`service/paymentlinksrv/payments.go`) | none | `GetPayment` |
| paylink creation (`service/paymentlinksrv/paylinks.go`) | none | `ValidatePaymentLinkRequest`, `CreatePaymentLink` |
| clients (`repository/{nexi,paymentservice,attendeeservice,mailservice,self}`) | circuit breaker; the mocks keep maps | one HTTP request per call |
| protocol (`repository/database`) | the protocol table; `ActiveRepository` | `WriteProtocolEntry`, `Open`, `Close`, `Migrate` |
| mail notification (`mailnotify.go`) | none | `SendErrorNotifyMail` |
| process (`src/cmd/main.go`, `web/app`) | signal channel, server, exit code | `Run`, `runServerWithGracefulShutdown` |
| controllers, middleware (`web/`) | none | routing, authentication, parsing, mapping of errors to status codes |
| simulator (`web/controller/simulatorctl`, `repository/nexi/mock.go`) | cached webhooks | a page that sends one of them to the adapter itself |
| configuration (`repository/config`) | read once per start, constant until the next | loading, defaults, secrets of the environment, validation |

Outside the repository: **Paygate** sends webhooks, repeats them until they are answered with
200, and can be asked for a payment. The **payment service** keeps the transactions; the adapter
reads them by reference id, adds them (POST) and replaces them (PUT). It also asks for paylinks
and status-checks. **Admins** confirm or delete transactions there.

Every request runs in a goroutine of its own. Requests share no data and take no locks, except
the slice of the in-memory protocol and the map of the simulator, without a lock. What they race
for is the transaction in the payment service: a handler fetches it in one call, decides, and
overwrites it as a whole in a later call. Webhooks race with their own repetitions, with
webhooks for other attempts, with status-checks and with admins. Calls fail, and a failed write
may have been done or may still be done later. The process can die between any two calls and
keeps nothing of a request in progress.

### What makes each component correct

* Webhooks and status-checks: nothing is settled that Paygate has not been paid for; a success
  that was confirmed, so that Paygate will not repeat it, is booked or at least reported; a
  transaction that waits for a decision is pointed out to somebody; a settled or deleted
  transaction is left alone; in the end every payment that is OK is settled.
* Process: exit code 0 only when asked to stop; requests only with an open database; a signal
  always ends the process; requests in progress are not cut off.
* Configuration: what the process goes on with is what the file and the environment mean.
* Alarms: one that is mailed and kept in MySQL does not vanish through a single failure. (A
  process that ends while an alarm is on its way may take it along.)
* Paylinks and simulator: what Paygate is asked to bill adds up; wherever its webhooks go, a
  payment that was made is noticed; the simulator calls paid only what the adapter has confirmed.
  Nothing is promised about sessions nobody was given the paylink of: some raise an alarm, some
  do not (see Checkout).
* Controllers: each error of a handler is answered with a documented code, and no failed call
  passes for a success or for the caller's fault. Which code the failures of Paygate should have
  is documented too, and not kept: see the findings.

## The modules

| module | models |
|---|---|
| `Transactions` | the records, and the decisions of `updateTransaction`, `createTransaction` and `CheckPaymentStatus` as pure operators |
| `PaygateAdapter` | webhooks and status-checks in progress, Paygate, the payment service, crashes; all properties about them |
| `Booking` | what the adapter promises, with neither webhook nor handler in sight |
| `BookingRefinement` | the refinement mapping from `PaygateAdapter` to `Booking` |
| `MCPaygateAdapter` | the symmetry set, for TLC |
| `Checkout` | `PaygateAdapter` composed with the creation of paylinks: sessions, the address and secret their webhooks are sent to, restarts with another configuration |
| `MCCheckout` | the configurations of an instance |
| `PaygateAdapterProofs` | the inductive invariant and what follows from it |
| `BookingProofs` | `PaygateAdapter` implements `Booking`, with and without overlaps |
| `CheckoutProofs` | `Checkout` implements `PaygateAdapter` and so `Booking`; its own invariants |
| `Lifecycle` | `Run()`, the goroutine of the signal, requests as far as the process matters to them |
| `LifecycleProofs` | its invariants, proved |
| `Configuration` | defaults, secrets of the environment and validation, as pure operators |
| `Process` | `Lifecycle` composed with `Configuration` and with the alarms requests raise |
| `MCProcess` | the configuration files and environments of an instance |
| `ProcessProofs` | `Process` implements `Lifecycle`; alarms and configurations, proved |
| `Billing` | the tax arithmetic of a checkout session, as pure operators |
| `Requests` | the HTTP side: refusals, paylink creation and what is billed, reading payments, the simulator, the status code of each outcome |
| `MCRequests` | its orders for TLC |
| `RequestsProofs`, `AnswersProofs` | what is billed adds up; types, the simulator's pages and the documented answers, proved |

`Checkout` extends `PaygateAdapter` and `Process` extends `Lifecycle`: each adds variables and
conjuncts to the actions of the module it extends and repeats none of them.
`CheckoutProofs!CheckoutImplementsAdapter` and `ProcessProofs!ProcessImplementsLifecycle` say
that nothing else happens to the state of the module below.

### Transactions

An amount stands for the pair (value, currency): every comparison in the code is of both.
`NoAmount` is the pair (0, "") `GetPayment` falls back to, and the absent amount of the "minimal
info" `success()` goes on with when Paygate cannot be asked. Of a transaction only status,
amount, whether its VAT rate is a real one, and its comment (who wrote it last) are kept; the
due date, the effective date and the texts decide nothing. `AUTHORIZED` stands also for
`CAPTURE_REQUEST`, `FAILED` for every status of a webhook that is neither `OK` nor `AUTHORIZED`:
the code treats the members of each group alike.

`HoldChecks` has one field for each `forcePending = true` of `updateTransaction`.

### PaygateAdapter

A handler is a sequence of calls. Between two of them it computes, writes protocol entries and
sends mails, none of which another handler can observe before the next call, so one step is one
call with everything up to the next one. `task[h]` holds what the handler is waiting to do, with
its local variables:

    idle --Accept--> query --ReadUpstream / ReadUpstreamFails--> fetch
    fetch --FetchFails--> idle (no 200)          fetch --CannotCreate, AbortUpdate--> idle (200)
    fetch --PrepareCreate--> add --AddTransaction--> report --ReportCreated--> idle (200)
                             add --AddFails--> idle (no 200)
    fetch --PrepareUpdate--> update --UpdateTransaction--> idle (200) / --UpdateFails--> idle (no 200)

    idle --StartCheck--> check_query --GetPayment / GetPaymentFails--> check_fetch / idle
    check_fetch --CheckFetchFails, CheckOnly, CheckRefuses--> idle
    check_fetch --CheckPrepares--> check_update --CheckUpdates / CheckUpdateFails--> idle

`Unexpected` and `WrongPrefix` are webhooks that need no call at all. `ReportCreated` is a step
of its own since the request for a review (webhook.go:211-228) follows the call that creates the
transaction: the process may die in between.

External, modelled from how the code uses it:

* Paygate (`OpenPayment`, `Authorize`, `PayAtOnce`, `Capture`, `Decline`, `Expire`). `OK` is
  final. An authorized payment can be captured for less than was authorized. No webhook follows
  what happens after `AUTHORIZED`. A payment that failed can be attempted again for another
  amount under the same id; the webhooks of the old attempt stay around. Reading a payment
  nobody has attempted yet is an error.
* The payment service (`Applied`, `AdminDecides`) stores what it is sent: a PUT replaces the
  transaction whatever its status. That is what the adapter's guard at webhook.go:231 relies on
  no one else to check. A POST of an id it has is refused or changes nothing a GET would show. A
  failed write (`WriteFails`) is lost, or done with its answer lost, or done later
  (`LateWrite`), after anything else.
* `Crash`: all handlers stop, the process starts again, writes already sent may arrive.

`alarms` are the protocol entries of kind warning and error, each mailed except
`awaiting_capture`. An alarm that was raised counts; whether its entry or its mail gets through
is not told apart: `Process` has both. `RecordedAlarms` lists those a run keeps track of: it
leaves out kinds no property of the run mentions, which only multiply states.

Mishaps are bounded: each costs one of `MaxDisturbances`, and only the kinds in `Disturbances`
happen, except those in `Unlimited`, which cost nothing. Everything else is unbounded and finite
by itself.

### Checkout

`RequestPaylink`, `GetAttendee`, `OpenSession` and `ReturnPaylink` are the calls of
`CreatePaymentLink`, with `GetAttendeeFails`, `OpenSessionFails` and `AnswerIsLost` for what can
go wrong; `creation[r]` is how far the request for `r` is. `OpenSession` is `OpenPayment` of
`PaygateAdapter` made with the `settings` of the running process, kept in `session[r]`.
`WebhookUrl` is the choice of paylinks.go:97-102. The customer acts only with a paylink that was
handed out (`told`), and every webhook is `sent` to the address of its session; `WebhookArrives`
is `StartWebhook` of `PaygateAdapter`, for webhooks whose address `ReachesUs`: the webhook
endpoint with the secret of today. `Restart` is a `Crash` after which the process may find
another configuration. Of `settings` only what paylinks.go looks at is kept.

`AnswerIsLost` is every way in which Paygate has the session and nobody its paylink. Its answer
is lost or has no link: an alarm says so. Or the 201 is cut off: the server may write until 5 s
after the request (config/validation.go:17-18, web/app/server.go:63) while its two calls may take
15 s each, and the caller may have gone; then the protocol says "success" (paylinks.go:75) and no
alarm is raised. Nothing in the code finds such a session again, so no property says that it does
not exist or was reported. The caller may ask for another paylink (`MaxPaylinks`), and what is
paid with that one is to be noticed. The alarms of failed paylinks are not recorded: nothing
depends on them. In `PaygateAdapter` and `Requests`, a webhook's 200 that is cut off is a webhook
delivered again after it was confirmed (the mishap `duplicate`).

For a reference id there is at most one creation in progress and one session, the newest: a
second one replaces the first and its address, as Paygate is asked by reference id only.

### Lifecycle

`main` is the next call of `Run()`; `OpenDatabase` sets the repository even if it cannot be
opened, as `Open()` does. The deferred `Close` runs on every return after it. The stopper starts
with `Route`, after the subscription of `Subscribe`; the signal channel has room for one.
`Shutdown` closes the listener, upon which `ListenAndServe` returns at once (`StopServing`),
while `ShutdownReturns` waits for requests and `ShutdownTimesOut` gives up. Requests begin, use
the database (`GetRepositoryFails` when there is none) and end. For the handlers of
`PaygateAdapter`, every end of the process is a `Crash`.

### Configuration and Process

`Configuration` has `parseAndOverwriteConfig` as functions of a file and an environment:
`WithDefaults`, then `WithOverrides`, then `Errors`, the settings that are complained about. A
text is its length and a URL one of four kinds, which is what the checks tell apart; settings
with the same checks (the three timeouts, the texts of the invoice, user and database name)
share one field. `IsApplication` says what a file may hold.

`Process` adds to `Lifecycle` what the process is started with (`source`) and the alarms.
`ReadConfiguration` is `LoadConfiguration` with the outcome the file and the environment decide.
An alarm is an entry (`InsertEntry`, `InsertFails` for MySQL, `ReadSlice` and `WriteSlice`, the
two halves of `append`, for the in-memory repository), then perhaps a mail (`NoMail`,
`SendEmail`, `SendEmailFails`); the errors of both are discarded by webhook.go:52-60 and its
like. `CloseRepository` clears the slice. `closed_database` checks `Lifecycle` by itself.

### Billing

`Bills` is the set of (tax, net amount, tax rate) `nexiCreateRequestFromApiRequest` may compute.
`math.Round` of a floating-point quotient is exact except at a half: there it goes up if the
quotient is exact, which it is for multiples of an eighth of a percent, and either way otherwise
(`Nearest`). That is so for amounts up to `MaxAmount`, ten million euros: the validation sets no
limit, but beyond 2^53 a `float64` no longer holds every amount of cents. Rates are in
thousandths of a percent, finer than the hundredths of the session's tax rate. The tax is the
rate's share of the amount due: the code applies the rate to the gross amount, and nothing in the
repository says that it should be net of it, so `AddsUp` does not either.

### Requests

The same requests seen from outside. `task[h]` again holds what a request waits for:

    idle --AcceptCreate--> attendee --GetAttendee--> session --CreateSession, SimulateSession--> idle (201)
    idle --AcceptPayment--> query --FindPayment--> idle (200), or settle for a status-check
    idle --AcceptWebhook--> handle --HandleWebhook--> idle (200)
    idle --OpenPage--> page --CallWebhook--> wait --Reply of the other handler--> told --ShowResult--> idle

Each call has a failing counterpart, and `CreateStatus`, `PaymentStatus`, `CheckStatus` and
`WebhookStatus` are the chains of `errors.Is` that choose its status. An error is named by the
package that declares it, since that is what the controllers compare: the packages declare
different errors of the same name. `QueryErrors` holds that the client of Paygate makes up its
errors while its mock returns declared ones. What `HandleWebhook` and `CheckPaymentStatus` do is
in `PaygateAdapter`; here they end in one step (`HandleWebhook`, `SettlePayment`) with any of
the results they can have.

`config` is chosen at the start and kept: with Paygate or with the simulator, and where webhooks
go, which `validateServiceConfiguration` restricts. `answer` is set by a step that answers a
request and cleared by every other one. The page and the request it sends to the adapter itself
are two handlers; if the page gives up, its webhook is processed to the end all the same.
`sessions` are the sessions at Paygate with what they bill. `SimulateSession` may lose its write
to the map under another one's; if Go notices the race, it ends the process, which is `Restart`.

### Booking

Two variables: which reference ids are paid, and the status of their transactions. A transaction
is registered as pending, held, settled once its payment is OK, or decided by hand; it never
goes back to tentative or absent. With `Overlap`, holding and settling apply to final
transactions too, which is what overlapping handlers do (see findings); without, final
transactions stay. `BookingRefinement!ImplementsBooking` maps `paid` to the payments that are
`OK` and `book` to the transactions' statuses.

## The runs

All but `requests` and `paygate_errors` have `CHECK_DEADLOCK FALSE`: payments end, budgets are
used up and processes end.

| run | instance | checks |
|---|---|---|
| `overlap` | 1 reference id, 2 amounts, 2 handlers, any 2 of 6 kinds of mishap (all but late writes); 1.6 million states | `TypeOK`, `ValidMeansPaid`, `ConfirmedIsBooked`, `PendingIsReported`, `Inv` |
| `serial` | `Checkout` with 1 handler; 3 reference ids of which 1 is billed (ours, ours but unparseable, or foreign), 2 paylinks asked for, 2 configurations (the webhook with one secret, the override with another); calls fail any number of times, 1 other mishap of 4 kinds (no late writes, no admins); the alarms its properties speak of; fair | `CheckoutTypeOK`, `FinalIsNotTouched`, `ImplementsBooking` (no overlap), `PaidIsNoticed` |
| `references` | 2 handlers, 3 reference ids (ours, ours but unparseable, foreign), 2 amounts, no Paygate that can be asked, 1 mishap of 4 kinds | `ConfirmedIsBooked` |
| `recovery` | 2 handlers, 1 mishap of 4 kinds, late writes among them; fair | `Inv`, `ReportedIsBooked`, `PaidIsSettled`, `ImplementsBooking` (overlap) |
| `lifecycle` | `Process` with 2 requests that raise at most one alarm each, 3 inserts or mails that fail, every file that differs from a complete one in up to two settings, at most one secret in the environment (19 917 ways to start); fair | `ProcessTypeOK`, `ZeroMeansAsked`, `ServedWithDatabase`, `LifecycleInv`, `AlarmsLeaveATrace`, `ProcessInv`, `SignalStops`, `LoadedAsMeant` |
| `requests` | 2 requests; 3 reference ids: one billed, one of the simulator's samples, one malformed; 3 valid and 3 invalid orders; every configuration | `TypeOK`, `SessionsAddUp`, `PaidMeansConfirmed`, `AnswersAreDocumented` |
| `lost_update`, `failed_read`, `amount_held`, `auto_created`, `closed_database`, `paygate_errors` | as small as the counterexample allows | one finding each |

* `ValidMeansPaid`: what the adapter settles is OK at Paygate, and its amount is the one due or
  the one captured. Hard because the answer, the transaction and the webhook a handler decides
  on may each be outdated, and writes may arrive when nobody waits for them. It does not say
  that a partial capture is not settled at the amount due: the webhook path never looks at the
  captured amount (webhook.go:259, :310), only status-checks do.
* `ConfirmedIsBooked`: a success answered with 200 has made its transaction pending, valid or
  deleted, or raised the alarm that none could be created, or that its id has a foreign prefix.
* `PendingIsReported`: whatever is pending is named by an alarm, or Paygate has a webhook to
  repeat for it, also if the process dies before the review is requested.
* `FinalIsNotTouched`: no step of a handler takes a transaction out of a final status. It holds
  for requests one at a time (`serial`) and not when they overlap (`lost_update`).
* `ReportedIsBooked`, `PaidIsSettled`: despite failures a reported success is in the end booked,
  and a payment that is OK is in the end settled for good, unless the alarm says that the
  captured amount differs. Even lost updates are repaired by later checks.
* `ZeroMeansAsked`, `ServedWithDatabase`, `SignalStops`: see the comments in `Lifecycle`.
* `PaidMeansConfirmed`: the amount on the simulator's page is the one of a confirmed webhook,
  though the page waits for a second request to the same server, other pages may do so at once,
  and the cached webhook may be replaced meanwhile, or its replacement lost.
* `AnswersAreDocumented` holds the errors of all calls and all refusals against
  `src/api/openapi-spec/openapi.yaml`: the endpoint may answer with this status, and its meaning
  fits what happened (`Means`): 2xx for what was done, 400, 401, 404 and 409 each for the
  requests and payments it describes, 500 or 502 for calls that failed. Whether it is the right
  one of these two, and whether all that should be 404 is, is what `PaygateErrorsAreDocumented`
  asks: see the findings.
* `PaidIsNoticed`: a payment that is OK is in the end settled for good, or an alarm says why
  not, whatever address and secret its session was made with. What is excepted is what the
  program cannot know of: no webhook reaches it, because the configuration sends none or has
  changed since the session was made, and no status-check can either, because the reference id
  has a foreign prefix or no transaction.
* `SessionsAddUp`: net and tax are the amount, neither is negative, and the tax is the share of
  the tax rate to within the rounding of both.
* `LoadedAsMeant`: the process goes on exactly with what was meant: a secret is the
  environment's if it has one, the file's otherwise; none that is too short passes, and none is
  refused for a setting that may be left out.
* `AlarmsLeaveATrace`: if mails can be sent, an alarm with a mail vanishes only for failures of
  its own, so that no failure counts for two alarms: with MySQL each that is in neither the table
  nor a mail has cost two, with the in-memory repository, whose slice loses entries to other
  requests, one. Alarms that are not mailed have only their entry, and an alarm that is on its
  way when the process ends, after a signal or because the port is taken, is not counted: it may
  be lost although nothing failed. `ProcessInv` is why: an alarm on its way without an entry has
  used up one failure, and one whose mail was not sent another.

**Bounds.** Reference ids do not interact: each handler works on one, and they share only the
handlers' number and the budget, so one id with overlapping handlers has all the races. Two
amounts are enough for "equal" and "different"; a partial capture needs the smaller of the two.
Two handlers give every pair of overlapping requests; a third request can follow, since handlers
become idle again. Two mishaps allow a failure while recovering from one. In `requests`, a page
and the webhook it sends take both handlers, and two pages at once get in each other's way;
different amounts let a new paylink replace a cached webhook; the orders are the least amount at
the highest rate, a share that is rounded up, and a half that may be rounded either way. In
`serial`, two paylinks let a second session be made for a reference id, under another
configuration, and `MaxBilled` keeps the three reference ids, one of each kind, from multiplying
their states; two secrets are "of then" and "of today"; the secret changes with the override, so
a restart outdates the sessions that are open, while the webhook endpoint itself is always
served. In `lifecycle`, two settings at a time meet every pair that validation relates
(`nexi_downstream` with `public_url`, `use` with the credentials), and two requests are what it
takes to lose an entry of the slice; three failures let one alarm vanish and the other lose its
entry or its mail, but not both. Late writes and new attempts together multiply the states, so
late writes are in `recovery` and new attempts in `overlap` and `serial`; the proofs of `Inv`
have both. Only `references` has no Paygate that can be asked (`UpstreamConfigured`): without
`nexi_downstream`, as with the simulator, `HandleWebhook` takes the webhook's word for
everything and goes on with fewer steps, which is what three reference ids at once can afford.
The proofs are for both, and do not depend on any of these bounds.

**Fairness.** `Continue(h)` is weakly fair: a handler goes on, since each of its calls has a
timeout of 15 s (circuit breaker, e.g. repository/nexi/client.go:50). Delivery of unconfirmed
webhooks and the start of status-checks are strongly fair: Paygate repeats a webhook until it is
confirmed, and the payment service asks for checks again and again; a handler may be busy
meanwhile, hence strong. Nothing is assumed about payments, customers, admins, late writes or
crashes. In `Checkout` failures are not bounded, so `CallsSucceed` has each kind of call
(reading from Paygate, fetching a transaction, writing it) strongly fair: it may fail again and
again, and while the circuit breaker is open it does, whichever payment opened it, but after 30
s the breaker lets calls through again. Only webhooks that reach the process are delivered
(`KeepsSending`). In `Lifecycle` and `Process`, `Run()` and the stopper are weakly fair, as the
Go scheduler is; requests need never end and the listener need never fail.

## Findings

1. `lost_update`: a webhook's PUT (webhook.go:342) overwrites a transaction that a status-check
   or an admin has settled or deleted since it was fetched. The guard of webhook.go:231 sees the
   status at fetch time only.
2. `failed_read`: the mail of webhook.go:86 announces "set to pending - manual intervention
   needed", and a webhook `OK` settles the transaction all the same.
3. `amount_held`: the transaction kept pending because of a different amount (webhook.go:326)
   has that amount overwritten, so the repeated webhook settles it.
4. `auto_created`: "will be manually checked anyway" (webhook.go:155), but a repeated webhook or
   a status-check settles the made-up transaction, VAT rate 0.0 included.
5. `closed_database`: `Run()` returns, closes the database and exits as soon as the shutdown
   begins; the five seconds for requests in progress are not waited for.
6. `paygate_errors`: the API documents 502 for a Paygate that cannot be reached or answers with
   an error (openapi.yaml:82, :137, :203), and 404 for a payment that is not there, or not yet
   (:125, :185). The client of Paygate makes up its errors, or passes on those of the HTTP client
   (repository/nexi/client.go:97-119, :153-175), and never returns those the controllers look
   for, so with a real Paygate the answer is 500 in both cases, and either alone violates the
   property. When the attendee service returns an error it is 502, as the controllers mean it to
   be, and 500 when it cannot be reached.

## The proofs

Every invariant and action property of a run that passes has a theorem, for any sets of reference
ids, amounts, handlers, requests, orders, configurations and secrets, any disturbances and any
budget. Assumed are only the named `ASSUME`s of the modules, and where a theorem needs more, its
own `ASSUME`, as given below.

`PaygateAdapterProofs` proves `Spec => []Inv`. Its assumptions: `OurRefs` and `ParseableRefs` are
reference ids, amounts are positive, the alarms the invariant speaks of are recorded.

`ValidMeansPaid` alone is not inductive: a handler about to write `valid` must be right at the
time its write arrives. `Inv` therefore adds

* `PaygateIsHonest`: what an `OK` webhook says is still so (OK is final, attempts after a
  failure leave no `OK` webhook behind);
* `TaskIsSound(t)` for each handler: the webhook it works on was sent and is a success; the
  answer it holds, if it says OK, is `StillTrue`; what it is about to write is `SafeToWrite`;
* `SafeToWrite(write)` for every write under way: a `valid` document is backed by a payment that
  is OK for that amount, a `pending` one has its alarm already, an added one comes from a
  webhook of ours.

The argument: a handler's write is safe when it is prepared (`PrepareUpdate`, `CheckPrepares`,
`PrepareCreate`: lemmas about `Updated`, `Settled`, `AutoCreated`), and stays safe, because
payments that are OK do not change and alarms are never taken back. So it does not matter when
it arrives, nor whether its handler is still alive, and a write that is done at any time
preserves the three safety properties. There is a lemma for each group of actions, one step per
action.

`BookingProofs` proves the refinement of `Booking`. `HandlerShape(h)` sums up what any step of a
handler may do to payments, transactions and writes: nothing, or its own write arrives, fails or
is put off, or it prepares one, and then the transaction is open at that moment. Given the
shapes, the two refinements are about the writes under way only:

* with overlaps (`AdapterImplementsBooking`, for `Overlap = TRUE`), `Inv` already says that a
  write is `pending` or `valid`, and `valid` only when paid. What it lacks is that a PUT never
  makes a transaction: `PutsReplace`, by which also nothing booked is ever unbooked
  (`BookedTransactionsStay`);
* without (`AdapterAloneImplementsBooking`), a write must still find its transaction open when it
  arrives. `OneAtATime` says so: no write is late, and what an update replaces is tentative or
  pending. It is invariant when `Alone`: at most one handler, no late writes, no admins. All
  three are needed: two handlers are how `lost_update` comes about, and an admin or a late write
  is one more writer. The run `serial` is an instance.
  `FinalTransactionsStay` is `FinalIsNotTouched` under the same assumption: no step of the
  adapter touches a final transaction in any field, which `Booking` does not say.

`CheckoutProofs` proves `CheckoutSpec => Spec`: every step of `Checkout` is a step of
`PaygateAdapter` or leaves its variables alone. One step per action; that sessions are opened
with an amount `OpenPayment` takes needs `CheckoutTypeOK`, so the refinement rests on
`CheckoutInvariance`. All theorems about `PaygateAdapter` then hold of `Checkout` too:
`CheckoutSettlesWhatIsPaid` is `ValidMeansPaid`, `CheckoutImplementsBooking` and
`CheckoutKeepsFinal` are what the run `serial` checks. `CheckoutTypeOK` includes that a paylink
handed out, or about to be, has a session; payments are never taken back to "none".

`LifecycleProofs` proves `LifecycleInv`, of which `ZeroMeansAsked` and `ServedWithDatabase` are
parts, for any set of requests: it carries "who returns 0 was asked" along the way from the
signal over `closing` to the exit, and "the database is open" from `OpenDatabase` to `close`.

`ProcessProofs` has three arguments.

* `ProcessImplementsLifecycle`: with configuration and alarms, the process does nothing
  `Lifecycle` does not, so its invariants hold too (`ProcessKeepsLifecycle`).
* `ConfigurationIsLoadedAsMeant` holds for every file and environment that `SourcesAssumption`
  allows, which are all that `IsApplication` and `Environment` describe. After defaults and
  overrides every setting is what `SpeltOut` says it should be; then the settings `Errors`
  complains about are compared one by one with those `LoadedAsMeant` asks for.
* `AlarmsLeaveTraces` counts: with MySQL and mail, each vanished alarm has used up two failures
  and each in `MailOnly` one (`ProcessInv`). The number of vanished alarms grows only when a mail
  fails for an alarm of `MailOnly`. Without MySQL only mails are counted (`FewUnmailed`): each
  alarm that was not mailed has used up one failure. Cardinalities make it need a finite set of
  requests (`RequestsAssumption`). `ProcessInv` also has that settings do not change once
  requests can raise alarms. `OneFailureLosesNothing` is the corollary for `MaxFailures <= 1`.

`RequestsProofs` proves `BillsAddUp`, for every valid rate and amount up to `MaxAmount`, from what
division leaves, and `SessionsAddUp` for any number of handlers and orders: an order on its way
has passed the validation, and only `CreateSession` and `CreateSessionFails` make sessions, of
such an order.

`AnswersProofs` proves the rest about `Requests`. `PaidMeansConfirmed` needs that a page and the
handler serving its webhook name each other and the same payment (`PagesAndServers`), and that a
page told of a success has its amount confirmed (`ToldMeansConfirmed`): the handler ends, and its
successor must not be taken for it. `HandlersAssumption` says that the name of the caller
"paygate" is not also a handler's; these invariants are in the proofs only.
`EveryAnswerIsDocumented` holds each step that answers, with its cause, against the documented
statuses of its endpoint and their meaning: the error chains `CreateStatus`, `PaymentStatus`,
`CheckStatus` and `WebhookStatus` are evaluated for every error their calls can return.

Only model-checked: the liveness properties (`ReportedIsBooked`, `PaidIsSettled`,
`PaidIsNoticed`, `SignalStops`), which with fairness and ENABLED are outside the prover's reach,
and the counterexamples of the findings, which are about instances.

## Not modelled, and why

* HTTP details and JSON; the raw log of webhooks and of Paygate's answers.
* The mocks as far as only tests use them. The mock of the payment service, for development
  without one, appends updates where reads do not find them; it is not the contract the code is
  written for.
* The counters and times of the circuit breaker. Its effect is there: calls fail any number of
  times, but not forever.
* Protocol entries that are not alarms (kinds success and raw).
* Paygate operations of the client that no handler calls (`DeletePaymentLink`,
  `QueryTransactions`).
* The due and effective dates, texts, logging, request ids, CORS.
* Settings that decide nothing modelled: CORS, redirects, the parameters of the database.
  `Requests` and `PaygateAdapter` have the rest of the configuration as constants or as a choice
  at the start.

## Plan

Done, in this order: `Transactions`, `PaygateAdapter`, `Booking`, their proofs, `Lifecycle` and
its proofs, `Requests`, `Configuration` and `Process`, `Checkout` and its proofs, `Billing` and
its proofs, the rest of `Requests`, the refinements of `Booking`, `Process`. Nothing more of the
program's own control is left to model, and no safety property of a run that passes is left
unproved. What is worth adding:

1. The conditions under which the findings cannot happen, as theorems: whether the status read
   is still the status replaced when only admins, or only checks, get in between.
2. Of `Configuration`: that `WithOverrides` after `WithDefaults` is idempotent, so that a
   restart with the same file and environment goes on with the same settings.
