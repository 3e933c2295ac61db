------------------------------ MODULE Checkout ------------------------------
(***************************************************************************)
(* From the request for a paylink to the settled transaction: the creation *)
(* of paylinks (CreatePaymentLink) composed with PaygateAdapter.           *)
(*                                                                         *)
(* A checkout session is made with the address its webhooks go to, which   *)
(* comes from the configuration of that day. The configuration is read     *)
(* when the process starts, so it may change at every restart, under       *)
(* sessions that are still open: PaygateAdapter has every webhook arrive,  *)
(* here only those sent to where the adapter listens do.                   *)
(***************************************************************************)
EXTENDS PaygateAdapter, FiniteSets

CONSTANTS
  Secrets,         \* values of service.webhook_secret
  Configurations,  \* what the process may find configured when it starts
  MaxPaylinks,     \* how many paylinks are asked for, in one behaviour (a bound)
  MaxBilled        \* how many reference ids have a transaction, payment or request (a bound)

\* Whether webhook_override_url and public_url are set, and the secret.
Settings == [overridden : BOOLEAN, public : BOOLEAN, secret : Secrets]
ASSUME ConfigurationsAssumption == Configurations \subseteq Settings /\ MaxPaylinks \in Nat /\ MaxBilled \in Nat

VARIABLES
  settings,    \* the configuration of the running process
  creation,    \* the request for a paylink in progress, per reference id
  asked,       \* how many paylinks have been asked for
  session,     \* the configuration the session was made under, per reference id
  sent,        \* webhooks with the address they were sent to
  told         \* reference ids whose session's paylink somebody was given

checkoutVars == <<settings, creation, asked, session, sent, told>>
allVars == <<vars, checkoutVars>>

-----------------------------------------------------------------------------
Nowhere == [path |-> "none"]
Urls == {Nowhere} \cup [path : {"webhook", "weblogger"}, secret : Secrets]

\* Fault: the override is taken for another public address of the adapter.
WebhookUrlOfLogger(s) ==
  IF s.overridden \/ s.public THEN [path |-> "weblogger", secret |-> s.secret] ELSE Nowhere

\* Where the session's webhooks go: the override, a weblogger, comes first.
WebhookUrl(s) ==
  CASE s.overridden -> [path |-> "weblogger", secret |-> s.secret]
    [] ~s.overridden /\ s.public -> [path |-> "webhook", secret |-> s.secret]
    [] OTHER -> Nowhere

\* webhookHandler lets in who knows the secret of today; a weblogger only logs.
ReachesUs(url) == url.path = "webhook" /\ url.secret = settings.secret

Arrives(w) == \E s \in sent : s.hook = w /\ ReachesUs(s.url)

NotAsked == [step |-> "none"]
Creation == {NotAsked} \cup [step : {"attendee", "session"}, amount : Amounts] \cup [step : {"answer"}]

CheckoutTypeOK ==
  /\ settings \in Configurations
  /\ creation \in [Refs -> Creation]
  /\ asked \in 0 .. MaxPaylinks
  /\ session \in [Refs -> Configurations]
  /\ sent \subseteq [hook : WebhookDto, url : Urls]
  /\ \A s \in sent : s.hook \in hooks
  /\ told \subseteq Refs
  /\ \A r \in Refs : r \in told \/ creation[r].step = "answer" => pay[r].status # "none"

\* Reference ids that somebody has used so far.
Billed == {r \in Refs : Exists(r) \/ pay[r].status # "none" \/ creation[r] # NotAsked}

\* The payment service knows no reference ids but ours.
CheckoutInit ==
  /\ Init
  /\ \A r \in Refs \ OurRefs : ~Exists(r)
  /\ settings \in Configurations
  /\ creation = [r \in Refs |-> NotAsked]
  /\ asked = 0
  /\ Cardinality(Billed) <= MaxBilled
  /\ session = [r \in Refs |-> settings]
  /\ sent = {}
  /\ told = {}

-----------------------------------------------------------------------------
(* CreatePaymentLink. *)

CreationGoes(r, next) == creation' = [creation EXCEPT ![r] = next]

\* Any reference id passes the validation.
RequestPaylink(r, amount) ==
  /\ creation[r] = NotAsked
  /\ Cardinality(Billed \cup {r}) <= MaxBilled
  /\ asked < MaxPaylinks
  /\ asked' = asked + 1
  /\ CreationGoes(r, [step |-> "attendee", amount |-> amount])
  /\ UNCHANGED <<vars, settings, session, sent, told>>

GetAttendee(r) ==
  /\ creation[r].step = "attendee"
  /\ CreationGoes(r, [creation[r] EXCEPT !.step = "session"])
  /\ UNCHANGED <<vars, settings, asked, session, sent, told>>

GetAttendeeFails(r) ==
  /\ creation[r].step = "attendee"
  /\ CreationGoes(r, NotAsked)
  /\ UNCHANGED <<vars, settings, asked, session, sent, told>>

\* Paygate makes the session, with what the process was configured with.
OpenSession(r) ==
  /\ creation[r].step = "session"
  /\ OpenPayment(r, creation[r].amount)
  /\ session' = [session EXCEPT ![r] = settings]
  /\ told' = told \ {r}
  /\ CreationGoes(r, [step |-> "answer"])
  /\ UNCHANGED <<settings, asked, sent>>

\* Fault: the status of Paygate's answer is not looked at.
OpenSessionFailsUnnoticed(r) ==
  /\ creation[r].step = "session"
  /\ CreationGoes(r, [step |-> "answer"])
  /\ UNCHANGED <<vars, settings, asked, session, sent, told>>

\* Paygate refuses, or cannot be reached. (The alarms of failed paylinks are not recorded:
\* nothing here depends on them.)
OpenSessionFails(r) ==
  /\ creation[r].step = "session"
  /\ CreationGoes(r, NotAsked)
  /\ UNCHANGED <<vars, settings, asked, session, sent, told>>

\* The caller receives the 201 with the link.
ReturnPaylink(r) ==
  /\ creation[r].step = "answer"
  /\ told' = told \cup {r}
  /\ CreationGoes(r, NotAsked)
  /\ UNCHANGED <<vars, settings, asked, session, sent>>

\* Paygate has made the session, but nobody is told: its answer is lost or has no link,
\* which raises an alarm; or the link is recorded as a success and the 201 is cut off,
\* which raises none. The connection may be written to for 5 seconds from the request,
\* while each of the two calls may take 15, and its caller may have gone.
AnswerIsLost(r) ==
  /\ creation[r].step = "answer"
  /\ CreationGoes(r, NotAsked)
  /\ UNCHANGED <<vars, settings, asked, session, sent, told>>

CreatePaylink(r) ==
  \/ \E amount \in Amounts : RequestPaylink(r, amount)
  \/ GetAttendee(r) \/ GetAttendeeFails(r)
  \/ OpenSession(r) \/ OpenSessionFails(r)
  \/ ReturnPaylink(r) \/ AnswerIsLost(r)

-----------------------------------------------------------------------------
(* What PaygateAdapter does, with the addresses of webhooks. *)

\* Customers pay with the link they were given; Paygate notifies the session's address.
CustomerActs(r) ==
  /\ r \in told
  /\ Authorize(r) \/ PayAtOnce(r) \/ Decline(r)
  /\ LET url == WebhookUrl(session[r]) IN
       sent' = IF url = Nowhere THEN sent
               ELSE sent \cup {[hook |-> w, url |-> url] : w \in {v \in hooks' : v.ref = r /\ v.status = pay'[r].status}}
  /\ UNCHANGED <<settings, creation, asked, session, told>>

\* The payment service, and Paygate without the customer.
OthersAct ==
  /\ \/ PaymentService
     \/ \E r \in Refs :
          Expire(r) \/ \E captured \in Amounts, code \in ResponseCodes : Capture(r, captured, code)
  /\ UNCHANGED checkoutVars

\* A webhook with another secret is answered with 401, and repeated.
WebhookArrives(h, w) ==
  /\ Arrives(w)
  /\ StartWebhook(h, w)
  /\ UNCHANGED checkoutVars

Settle(h) ==
  /\ ContinueWebhook(h) \/ StatusCheck(h)
  /\ UNCHANGED checkoutVars

\* The process dies and is started again, perhaps with another configuration.
Restart ==
  /\ Crash
  /\ settings' \in Configurations
  /\ creation' = [r \in Refs |-> NotAsked]
  /\ UNCHANGED <<asked, session, sent, told>>

CheckoutNext ==
  \/ \E r \in Refs : CreatePaylink(r) \/ CustomerActs(r)
  \/ \E h \in Handlers : Settle(h) \/ \E w \in hooks : WebhookArrives(h, w)
  \/ OthersAct
  \/ Restart

CheckoutSpec == CheckoutInit /\ [][CheckoutNext]_allVars

-----------------------------------------------------------------------------
(* Liveness. *)

\* As in PaygateAdapter: calls end, webhooks that can arrive are repeated until they are
\* confirmed, and the payment service asks for status-checks again and again.
KeepsGoing == \A h \in Handlers : WF_allVars(task[h] # Idle /\ Settle(h))
KeepsSending == SF_allVars(\E h \in Handlers, w \in hooks \ acked : WebhookArrives(h, w))
KeepsChecking == \A r \in OurRefs : SF_allVars(\E h \in Handlers : StartCheck(h, r) /\ UNCHANGED checkoutVars)

\* Calls may fail any number of times, those of other payments too while a circuit
\* breaker is open; but it lets one through again, so no call fails forever.
Reads(h) == ReadUpstream(h) \/ GetPayment(h)
Fetches(h) ==
  \/ CannotCreate(h) \/ PrepareCreate(h) \/ AbortUpdate(h) \/ PrepareUpdate(h)
  \/ CheckOnly(h) \/ CheckRefuses(h) \/ CheckPrepares(h)
Writes(h) == UpdateTransaction(h) \/ AddTransaction(h) \/ CheckUpdates(h)
CallsSucceed ==
  /\ SF_allVars(\E h \in Handlers : Reads(h) /\ UNCHANGED checkoutVars)
  /\ SF_allVars(\E h \in Handlers : Fetches(h) /\ UNCHANGED checkoutVars)
  /\ SF_allVars(\E h \in Handlers : Writes(h) /\ UNCHANGED checkoutVars)

FairCheckoutSpec == CheckoutSpec /\ KeepsGoing /\ KeepsSending /\ KeepsChecking /\ CallsSucceed

\* No webhook can come: the configuration has none sent to us, or has another secret
\* now than when the session was made.
Unheard(r) == settings # session[r] \/ settings.overridden \/ ~settings.public

\* What is left of a payment that was made: a transaction settled for good, or an alarm
\* that says why there is none.
Noticed(r) ==
  \/ tx[r].status \in {"valid", "deleted"}
  \/ {<<r, "check_differs">>, <<r, "no_debitor">>, <<r, "wrong_prefix">>} \cap alarms # {}

\* A payment that is OK is in the end noticed, wherever its webhooks went and whichever
\* secret they know: status-checks see to a transaction that is there, and for the
\* others, foreign reference ids among them, a webhook of an unchanged configuration.
PaidIsNoticed ==
  \A r \in Refs :
    PaidAtPaygate(pay[r]) ~> \/ []Noticed(r)
                             \/ Unheard(r) /\ (r \notin OurRefs \/ ~Exists(r))
=============================================================================
