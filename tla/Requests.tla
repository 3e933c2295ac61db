------------------------------ MODULE Requests ------------------------------
(***************************************************************************)
(* The HTTP side of the adapter: which requests are let in, the calls that *)
(* creating a paylink takes, what every outcome is answered with, and the  *)
(* simulator, a page that sends a webhook to the adapter itself            *)
(* (web/controller, web/middleware/security.go, paylinks.go, nexi/mock.go).*)
(*                                                                         *)
(* HandleWebhook and CheckPaymentStatus have one step here, with any of    *)
(* their outcomes; what they do is in PaygateAdapter. A request is the     *)
(* work of one goroutine, and one step of it one call to another system.   *)
(***************************************************************************)
EXTENDS Billing

CONSTANTS
  Handlers,    \* requests that can be in progress at once
  Refs,        \* reference ids
  GoodRefs,    \* those with our prefix that match the pattern for reference ids
  SampleRefs,  \* those the simulator has a sample payment for
  BilledRefs,  \* those somebody asks a paylink for (a bound)
  Orders       \* the amounts and VAT rates somebody asks a paylink for (a bound)

ASSUME HandlersAssumption == "paygate" \notin Handlers
ASSUME RefsAssumption == GoodRefs \cup SampleRefs \cup BilledRefs \subseteq Refs
ASSUME OrdersAssumption ==
  Orders \subseteq [amount : Int, rate : Int] /\ \A order \in Orders : order.amount <= MaxAmount

VARIABLES
  config,      \* the configuration, the same at every start
  task,        \* what each handler is doing
  sessions,    \* checkout sessions at Paygate
  cache,       \* the simulator's webhookCache: the amount of the last paylink made
  confirmed,   \* webhooks answered with 200
  paid,        \* what the simulator's page has called paid
  answer       \* the answer the last step gave, if it gave one: whether it arrives is
               \* another matter, the write timeout may cut it off

vars == <<config, task, sessions, cache, confirmed, paid, answer>>

Amounts == {order.amount : order \in Orders} \ {0}
NoAmount == 0
NoAnswer == [status |-> 0]
Payments == [ref : Refs, amount : Amounts]
Sessions == [ref : Refs, amount : Amounts, bill : [tax : Int, net : Int, taxRate : Int]]

\* Where sessions send their webhooks, see NotifiesUs. Without nexi_downstream the
\* simulator stands in for Paygate, and needs a public_url, its own address.
Configurations ==
  {c \in [simulated : BOOLEAN, notify : {"webhook", "weblogger", "nowhere"}] :
     c.simulated => c.notify # "nowhere"}

Endpoints == {"create", "payment", "check", "webhook", "weblogger", "simulator", "health", "other"}
Statuses == {200, 201, 400, 401, 404, 409, 500, 502}

Idle == [step |-> "idle"]
Task ==
  {Idle}
    \cup [step : {"attendee", "session"}, ref : Refs, order : Orders]
    \cup [step : {"query"}, endpoint : {"payment", "check"}, ref : Refs]
    \cup [step : {"settle"}, ref : Refs]
    \cup [step : {"handle"}, ref : Refs, amount : Amounts, caller : Handlers \cup {"paygate"}]
    \cup [step : {"page"}, ref : Refs, amount : Amounts]
    \cup [step : {"wait"}, ref : Refs, amount : Amounts, server : Handlers]
    \cup [step : {"told"}, ref : Refs, amount : Amounts, status : Statuses]

TypeOK ==
  /\ config \in Configurations
  /\ task \in [Handlers -> Task]
  /\ sessions \subseteq Sessions
  /\ cache \in [Refs -> Amounts \cup {NoAmount}]
  /\ confirmed \subseteq Payments
  /\ paid \subseteq Payments
  /\ answer = NoAnswer \/ (answer.endpoint \in Endpoints /\ answer.status \in Statuses)

Init ==
  /\ config \in Configurations
  /\ task = [h \in Handlers |-> Idle]
  /\ sessions = {}
  /\ cache = [r \in Refs |-> NoAmount]
  /\ confirmed = {}
  /\ paid = {}
  /\ answer = NoAnswer

-----------------------------------------------------------------------------
(* What the controllers make of an error, by the package that declares it. *)

CreateStatus(err) == IF err \in {"nexi.DownstreamError", "attendeeservice.DownstreamError"} THEN 502 ELSE 500

PaymentStatus(err) ==
  IF err = "nexi.DownstreamError" THEN 502
  ELSE IF err = "nexi.NoSuchID404Error" THEN 404
  ELSE 500

\* Fault: every error of the payment service means that the transaction is not there.
CheckStatusConfused(err) ==
  IF err \in {"nexi.DownstreamError", "nexi.NotConfigured"} THEN 502
  ELSE IF err \in {"nexi.NoSuchID404Error", "paymentservice.NotFoundError",
                    "paymentservice.DownstreamError"} THEN 404
  ELSE IF err \in {"TransactionStatusError", "TransactionDataMismatchError"} THEN 409
  ELSE 500

CheckStatus(err) ==
  IF err \in {"nexi.DownstreamError", "nexi.NotConfigured"} THEN 502
  ELSE IF err \in {"nexi.NoSuchID404Error", "paymentservice.NotFoundError"} THEN 404
  ELSE IF err \in {"TransactionStatusError", "TransactionDataMismatchError"} THEN 409
  ELSE 500

WebhookStatus(err) ==
  IF err = "WebhookValidationErr" THEN 400
  ELSE IF err = "nexi.NoSuchID404Error" THEN 404
  ELSE IF err \in {"nexi.DownstreamError", "paymentservice.DownstreamError"} THEN 502
  ELSE 500

\* What the clients return. Paygate's declares errors of its own, but whatever goes
\* wrong it makes up a new one; only its mock, the simulator, returns them.
ServiceErrors == {"paymentservice.NotFoundError", "paymentservice.DownstreamError", "transport"}
AttendeeErrors == {"attendeeservice.NotFoundError", "attendeeservice.DownstreamError", "transport"}
QueryErrors == {IF config.simulated THEN "nexi.NoSuchID404Error" ELSE "status"}

-----------------------------------------------------------------------------
Goto(h, next) == task' = [task EXCEPT ![h] = next]
Record(endpoint, cause, status) ==
  answer' = [endpoint |-> endpoint, cause |-> cause, status |-> status]
NotYet == answer' = NoAnswer
Answer(h, endpoint, cause, status) == Goto(h, Idle) /\ Record(endpoint, cause, status)

\* Any request with an API token that is not ours, whatever it asks for.
TokenRefusals == [endpoint : Endpoints, cause : {"wrong token"}, status : {401}]

PaylinkRefusals ==
  [endpoint : {"create", "payment", "check"}, cause : {"no token"}, status : {401}]
    \cup [endpoint : {"create"}, cause : {"unreadable", "invalid"}, status : {400}]
    \cup [endpoint : {"payment", "check"}, cause : {"bad reference id"}, status : {400}]

WebhookRefusals ==
  [endpoint : {"webhook"}, cause : {"wrong secret"}, status : {401}]
    \cup [endpoint : {"webhook"}, cause : {"unreadable"}, status : {400}]

\* The weblogger thanks whoever calls it, whether or not it logs what was sent.
WebloggerThanks == [endpoint : {"weblogger"}, cause : {"done"}, status : {200}]

HealthReports == [endpoint : {"health"}, cause : {"done"}, status : {200}]

\* Only with the simulator are its pages routed.
NoSuchPages ==
  [endpoint : {"other"} \cup (IF config.simulated THEN {} ELSE {"simulator"}),
   cause : {"no such page"}, status : {404}]

\* Requests that are answered before anything is done for them.
AnsweredAtOnce ==
  TokenRefusals \cup PaylinkRefusals \cup WebhookRefusals
    \cup WebloggerThanks \cup HealthReports \cup NoSuchPages

AnswerAtOnce(h) ==
  /\ task[h] = Idle
  /\ \E a \in AnsweredAtOnce : Answer(h, a.endpoint, a.cause, a.status)
  /\ UNCHANGED <<config, sessions, cache, confirmed, paid>>

-----------------------------------------------------------------------------
(* POST paylinks. *)

\* Fault: an amount of zero passes.
IsValidOrFree(order) == order.amount >= 0 /\ order.rate \in 0 .. MaxRate

\* ValidatePaymentLinkRequest, as far as later steps tell: any reference id passes.
IsValid(order) == order.amount > 0 /\ order.rate \in 0 .. MaxRate

AcceptCreate(h, r, order) ==
  /\ task[h] = Idle
  /\ IsValid(order)
  /\ Goto(h, [step |-> "attendee", ref |-> r, order |-> order])
  /\ NotYet
  /\ UNCHANGED <<config, sessions, cache, confirmed, paid>>

GetAttendee(h) ==
  /\ task[h].step = "attendee"
  /\ Goto(h, [task[h] EXCEPT !.step = "session"])
  /\ NotYet
  /\ UNCHANGED <<config, sessions, cache, confirmed, paid>>

GetAttendeeFails(h) ==
  /\ task[h].step = "attendee"
  /\ \E err \in AttendeeErrors : Answer(h, "create", err, CreateStatus(err))
  /\ UNCHANGED <<config, sessions, cache, confirmed, paid>>

\* What Paygate may be asked to bill; the rate in the caller's answer is its tax rate.
Requested(h) ==
  LET order == task[h].order IN
    {[ref |-> task[h].ref, amount |-> order.amount, bill |-> bill] :
       bill \in Bills(order.amount, order.rate)}

CreateSession(h) ==
  /\ task[h].step = "session"
  /\ ~config.simulated
  /\ \E session \in Requested(h) : sessions' = sessions \cup {session}
  /\ Answer(h, "create", "done", 201)
  /\ UNCHANGED <<config, cache, confirmed, paid>>

\* An error, a lost answer, or one without a link: nobody is told of the session.
CreateSessionFails(h) ==
  /\ task[h].step = "session"
  /\ ~config.simulated
  /\ sessions' \in {sessions} \cup {sessions \cup {session} : session \in Requested(h)}
  /\ \/ Answer(h, "create", "paygate fails", CreateStatus("status"))
     \/ Answer(h, "create", "no link", CreateStatus("ReceivedEmptyPaylink"))
  /\ UNCHANGED <<config, cache, confirmed, paid>>

\* The cache is a map without a lock: of two that write it at once, one may be lost. (If
\* Go notices, the process ends: see Restart.)
SimulateSession(h) ==
  /\ task[h].step = "session"
  /\ config.simulated
  /\ \/ cache' = [cache EXCEPT ![task[h].ref] = task[h].order.amount]
     \/ UNCHANGED cache /\ \E g \in Handlers \ {h} : task[g].step = "session"
  /\ Answer(h, "create", "done", 201)
  /\ UNCHANGED <<config, sessions, confirmed, paid>>

CreatePaylink(h) ==
  \/ \E r \in BilledRefs, order \in Orders : AcceptCreate(h, r, order)
  \/ GetAttendee(h) \/ GetAttendeeFails(h)
  \/ CreateSession(h) \/ CreateSessionFails(h) \/ SimulateSession(h)

-----------------------------------------------------------------------------
(* GET paylinks/{refid} and POST paylinks/{refid}/status-check. *)

AcceptPayment(h, endpoint, r) ==
  /\ task[h] = Idle
  /\ r \in GoodRefs
  /\ IF endpoint = "check" /\ config.simulated
     THEN Answer(h, endpoint, "not configured", CheckStatus("nexi.NotConfigured"))
     ELSE /\ Goto(h, [step |-> "query", endpoint |-> endpoint, ref |-> r])
          /\ NotYet
  /\ UNCHANGED <<config, sessions, cache, confirmed, paid>>

\* Only a payment that has a session can be found, and only once it is attempted.
FindPayment(h) ==
  /\ task[h].step = "query"
  /\ IF config.simulated THEN task[h].ref \in SampleRefs
     ELSE \E s \in sessions : s.ref = task[h].ref
  /\ IF task[h].endpoint = "payment"
     THEN Answer(h, "payment", "done", 200)
     ELSE Goto(h, [step |-> "settle", ref |-> task[h].ref]) /\ NotYet
  /\ UNCHANGED <<config, sessions, cache, confirmed, paid>>

FindPaymentFails(h) ==
  /\ task[h].step = "query"
  /\ config.simulated => task[h].ref \notin SampleRefs
  /\ \E cause \in {"no payment", "paygate fails"}, err \in QueryErrors :
       /\ config.simulated => cause = "no payment"
       /\ Answer(h, task[h].endpoint, cause,
                 IF task[h].endpoint = "payment" THEN PaymentStatus(err) ELSE CheckStatus(err))
  /\ UNCHANGED <<config, sessions, cache, confirmed, paid>>

\* The rest of CheckPaymentStatus, see PaygateAdapter.
SettlePayment(h) ==
  /\ task[h].step = "settle"
  /\ \/ Answer(h, "check", "done", 200)
     \/ \E err \in ServiceErrors \cup {"TransactionStatusError", "TransactionDataMismatchError"} :
          Answer(h, "check", err, CheckStatus(err))
  /\ UNCHANGED <<config, sessions, cache, confirmed, paid>>

ReadPaylink(h) ==
  \/ \E endpoint \in {"payment", "check"}, r \in Refs : AcceptPayment(h, endpoint, r)
  \/ FindPayment(h) \/ FindPaymentFails(h) \/ SettlePayment(h)

-----------------------------------------------------------------------------
(* POST webhook/{secret}: from Paygate, or from the simulator's page. *)

\* The weblogger of webhook_override_url comes before the webhook of public_url, and
\* with neither of them sessions have nowhere to send webhooks to.
NotifiesUs == config.notify = "webhook"

AcceptWebhook(h, s) ==
  /\ task[h] = Idle
  /\ NotifiesUs
  /\ Goto(h, [step |-> "handle", ref |-> s.ref, amount |-> s.amount, caller |-> "paygate"])
  /\ NotYet
  /\ UNCHANGED <<config, sessions, cache, confirmed, paid>>

\* The caller, if it is a page that still waits for this handler, is told the status.
Reply(h, cause, status) ==
  /\ LET page == task[h].caller IN
       task' = [g \in Handlers |->
                  IF g = h THEN Idle
                  ELSE IF g = page /\ task[g].step = "wait"
                  THEN [step |-> "told", ref |-> task[g].ref, amount |-> task[g].amount, status |-> status]
                  ELSE task[g]]
  /\ Record("webhook", cause, status)

\* What the webhook of a task is about.
Billed(h) == [ref |-> task[h].ref, amount |-> task[h].amount]

HandleWebhook(h) ==
  /\ task[h].step = "handle"
  /\ Reply(h, "done", 200)
  /\ confirmed' = confirmed \cup {Billed(h)}
  /\ UNCHANGED <<config, sessions, cache, paid>>

HandleWebhookFails(h) ==
  /\ task[h].step = "handle"
  /\ \E err \in ServiceErrors : Reply(h, err, WebhookStatus(err))
  /\ UNCHANGED <<config, sessions, cache, confirmed, paid>>

WebhookRequest(h) ==
  \/ \E s \in sessions : AcceptWebhook(h, s)
  \/ HandleWebhook(h) \/ HandleWebhookFails(h)

-----------------------------------------------------------------------------
(* GET simulator/{id}. *)

OpenPage(h, r) ==
  /\ config.simulated
  /\ task[h] = Idle
  /\ IF cache[r] = NoAmount
     THEN Answer(h, "simulator", "not cached", 404)
     ELSE /\ Goto(h, [step |-> "page", ref |-> r, amount |-> cache[r]])
          /\ NotYet
  /\ UNCHANGED <<config, sessions, cache, confirmed, paid>>

\* CallWebhook: the page waits for another request, which a handler g serves.
CallWebhook(h, g) ==
  /\ task[h].step = "page"
  /\ task[g] = Idle
  /\ LET call == task[h] IN
       task' = [task EXCEPT
         ![h] = [step |-> "wait", ref |-> call.ref, amount |-> call.amount, server |-> g],
         ![g] = [step |-> "handle", ref |-> call.ref, amount |-> call.amount, caller |-> h]]
  /\ NotYet
  /\ UNCHANGED <<config, sessions, cache, confirmed, paid>>

\* It cannot be sent, or the server's write timeout cuts off its answer.
CallWebhookFails(h) ==
  /\ task[h].step \in {"page", "wait"}
  /\ LET server == IF task[h].step = "wait" THEN {task[h].server} ELSE {} IN
       task' = [g \in Handlers |->
                  IF g = h THEN Idle
                  ELSE IF g \in server THEN [task[g] EXCEPT !.caller = "paygate"]
                  ELSE task[g]]
  /\ Record("simulator", "transport", 500)
  /\ UNCHANGED <<config, sessions, cache, confirmed, paid>>

\* Fault: whatever the webhook was answered with, it counts as paid.
ShowResultUnchecked(h) ==
  /\ task[h].step = "told"
  /\ Answer(h, "simulator", "done", 200)
  /\ paid' = paid \cup {Billed(h)}
  /\ UNCHANGED <<config, sessions, cache, confirmed>>

ShowResult(h) ==
  /\ task[h].step = "told"
  /\ IF task[h].status < 300
     THEN /\ Answer(h, "simulator", "done", 200)
          /\ paid' = paid \cup {Billed(h)}
     ELSE Answer(h, "simulator", "self.DownstreamError", 500) /\ UNCHANGED paid
  /\ UNCHANGED <<config, sessions, cache, confirmed>>

SimulatorPage(h) ==
  \/ \E r \in Refs : OpenPage(h, r)
  \/ \E g \in Handlers : CallWebhook(h, g)
  \/ CallWebhookFails(h) \/ ShowResult(h)

-----------------------------------------------------------------------------
\* The process is started again. The simulator's paylinks are lost with the cache, as
\* its own error message says.
Restart ==
  /\ task' = [h \in Handlers |-> Idle]
  /\ cache' = [r \in Refs |-> NoAmount]
  /\ NotYet
  /\ UNCHANGED <<config, sessions, confirmed, paid>>

Next ==
  \/ \E h \in Handlers :
       AnswerAtOnce(h) \/ CreatePaylink(h) \/ ReadPaylink(h) \/ WebhookRequest(h) \/ SimulatorPage(h)
  \/ Restart

Spec == Init /\ [][Next]_vars

-----------------------------------------------------------------------------
(* Safety. *)

\* What Paygate is asked to bill adds up, for every amount up to MaxAmount and rate that
\* pass the validation, to the last cent and whichever way a half is rounded (paylinks.go:89-90):
\* net and tax are the amount, and the tax is the share the session's tax rate says.
SessionsAddUp == \A session \in sessions : AddsUp(session.amount, session.bill)

\* The simulator's page says "paid" of an amount only if a webhook with just this
\* amount was confirmed, whatever paylinks were made while the page waited for the
\* adapter itself, and whoever else used it (simulatorctl.go:40-57).
PaidMeansConfirmed == paid \subseteq confirmed

\* What openapi.yaml lets an endpoint answer with.
Described ==
  [create  |-> {201, 400, 401, 500, 502},
   payment |-> {200, 400, 401, 404, 500, 502},
   check   |-> {200, 400, 401, 404, 409, 500, 502},
   webhook |-> {200, 400, 401, 500, 502}]
Documented(endpoint) == IF endpoint \in DOMAIN Described THEN Described[endpoint] ELSE Statuses

Failures ==
  ServiceErrors \cup AttendeeErrors \cup
    {"paygate fails", "no payment", "no link", "not configured", "self.DownstreamError"}

\* What it means by them: a success is one, 4xx is for requests and payments that are
\* not as they should be, and all else is 5xx. (Of 5xx it has more to say: see below.)
Means(status, cause) ==
  \/ status \in {200, 201} /\ cause = "done"
  \/ status = 400 /\ cause \in {"unreadable", "invalid", "bad reference id"}
  \/ status = 401 /\ cause \in {"no token", "wrong token", "wrong secret"}
  \/ status = 404 /\ cause \in {"no payment", "paymentservice.NotFoundError", "not cached", "no such page"}
  \/ status = 409 /\ cause \in {"TransactionStatusError", "TransactionDataMismatchError"}
  \/ status \in {500, 502} /\ cause \in Failures

\* Every error of every call, and every refusal, ends in a status that the API's
\* description names for the endpoint, and that does not say something else: no call
\* that failed passes for a success, or for the fault of the caller.
AnswersAreDocumented ==
  answer # NoAnswer =>
    answer.status \in Documented(answer.endpoint) /\ Means(answer.status, answer.cause)

\* openapi.yaml:82, 137 and 203 say that it is a 502 if Paygate could not be reached or
\* returned an unexpected error, and openapi.yaml:125 and 185 that a payment that is
\* not there, or a session that has not been used yet, is a 404.
PaygateErrorsAreDocumented ==
  answer # NoAnswer =>
    /\ answer.cause = "paygate fails" => answer.status = 502
    /\ answer.cause = "no payment" => answer.status = 404
=============================================================================
