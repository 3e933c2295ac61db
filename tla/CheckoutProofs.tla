--------------------------- MODULE CheckoutProofs ---------------------------
(***************************************************************************)
(* Checkout implements PaygateAdapter, so what is proved of handlers that  *)
(* every webhook may reach holds as well when webhooks get lost with their *)
(* address, paylinks before anybody sees them and the settings change at a *)
(* restart. For any constants.                                             *)
(***************************************************************************)
EXTENDS Checkout, BookingProofs

-----------------------------------------------------------------------------
(* What a step of Checkout is in PaygateAdapter. *)

CreationRest(r) ==
  \/ \E amount \in Amounts : RequestPaylink(r, amount)
  \/ GetAttendee(r) \/ GetAttendeeFails(r) \/ OpenSessionFails(r)
  \/ ReturnPaylink(r) \/ AnswerIsLost(r)

LEMMA CreationCases ==
  ASSUME NEW r \in Refs, CreatePaylink(r)
  PROVE  OpenSession(r) \/ CreationRest(r)
BY DEF CreatePaylink, CreationRest

LEMMA CreationRestLeaves ==
  ASSUME NEW r \in Refs, CreationRest(r)
  PROVE  UNCHANGED vars /\ UNCHANGED <<settings, session, sent>>
BY DEF CreationRest, RequestPaylink, GetAttendee, GetAttendeeFails, OpenSessionFails,
       ReturnPaylink, AnswerIsLost

LEMMA OpensForAnAmount ==
  ASSUME CheckoutTypeOK, NEW r \in Refs, OpenSession(r)
  PROVE  creation[r].amount \in Amounts
BY DEF CheckoutTypeOK, OpenSession, Creation, NotAsked

LEMMA OpenSessionIsPaygates ==
  ASSUME CheckoutTypeOK, NEW r \in Refs, OpenSession(r)
  PROVE  Paygate
<1>1. creation[r].amount \in Amounts /\ OpenPayment(r, creation[r].amount)
  BY OpensForAnAmount DEF OpenSession
<1> QED
  BY <1>1 DEF Paygate

\* Every step of Checkout is one of PaygateAdapter, or leaves its variables alone.
LEMMA CheckoutStep == CheckoutTypeOK /\ [CheckoutNext]_allVars => [Next]_vars
<1> SUFFICES ASSUME CheckoutTypeOK, [CheckoutNext]_allVars
             PROVE  Next \/ UNCHANGED vars
  OBVIOUS
<1>1. ASSUME NEW r \in Refs, CreatePaylink(r)
      PROVE  Next \/ UNCHANGED vars
  BY <1>1, CreationCases, CreationRestLeaves, OpenSessionIsPaygates DEF Next
<1>2. ASSUME NEW r \in Refs, CustomerActs(r)
      PROVE  Next
  BY <1>2 DEF CustomerActs, Paygate, Next
<1>3. ASSUME NEW h \in Handlers, Settle(h)
      PROVE  Next
  BY <1>3 DEF Settle, Webhook, Next
<1>4. ASSUME NEW h \in Handlers, NEW w \in hooks, WebhookArrives(h, w)
      PROVE  Next
  BY <1>4 DEF WebhookArrives, Webhook, Next
<1>5. CASE OthersAct
  BY <1>5 DEF OthersAct, Paygate, Next
<1>6. CASE Restart
  BY <1>6 DEF Restart, Next
<1>7. CASE UNCHANGED allVars
  BY <1>7 DEF allVars
<1> QED
  BY <1>1, <1>2, <1>3, <1>4, <1>5, <1>6, <1>7 DEF CheckoutNext

-----------------------------------------------------------------------------
(* The invariant of Checkout. *)

CheckoutInv == Inv /\ CheckoutTypeOK

LEMMA CheckoutInitInv == CheckoutInit => CheckoutInv
<1> SUFFICES ASSUME CheckoutInit
             PROVE  CheckoutInv
  OBVIOUS
<1>1. Inv
  BY InitInv DEF CheckoutInit
<1>2. \A r \in Refs : pay[r].status = "none" /\ creation[r] = NotAsked
  BY DEF CheckoutInit, Init, NoPayment
<1>3. CheckoutTypeOK
  BY <1>2, ConfigurationsAssumption DEF CheckoutInit, CheckoutTypeOK, Creation, NotAsked
<1> QED
  BY <1>1, <1>3 DEF CheckoutInv

LEMMA WebhookUrlIsUrl ==
  ASSUME NEW s \in Settings
  PROVE  WebhookUrl(s) \in Urls
BY DEF Settings, WebhookUrl, Urls

\* Payments come and go, but once there is one for a reference id, there is.
Same(r) == pay'[r].status = "none" <=> pay[r].status = "none"

LEMMA CustomerActsKeeps ==
  ASSUME TypeOK, NEW r \in Refs, CustomerActs(r)
  PROVE  \A q \in Refs : Same(q)
<1>1. ASSUME NEW payment, PaymentMoves(r, payment), payment.status # "none", pay[r].status # "none"
      PROVE  \A q \in Refs : Same(q)
  BY <1>1 DEF TypeOK, PaymentMoves, Same
<1>2. pay[r] \in PaymentQueryResponse
  BY DEF TypeOK
<1>3. CASE Authorize(r)
  BY <1>1, <1>2, <1>3 DEF Authorize, PaymentQueryResponse
<1>4. CASE PayAtOnce(r)
  BY <1>1, <1>2, <1>4 DEF PayAtOnce, PaymentQueryResponse
<1>5. CASE Decline(r)
  BY <1>1, <1>2, <1>5 DEF Decline, PaymentQueryResponse
<1> QED
  BY <1>3, <1>4, <1>5 DEF CustomerActs

LEMMA OthersActKeeps ==
  ASSUME TypeOK, OthersAct
  PROVE  \A q \in Refs : Same(q)
<1>1. CASE PaymentService
  BY <1>1 DEF PaymentService, LateWrite, AdminDecides, Same
<1>2. ASSUME NEW r \in Refs, Expire(r)
      PROVE  \A q \in Refs : Same(q)
  BY <1>2 DEF TypeOK, Expire, PaymentMoves, Same
<1>3. ASSUME NEW r \in Refs, NEW captured \in Amounts, NEW code \in ResponseCodes,
             Capture(r, captured, code)
      PROVE  \A q \in Refs : Same(q)
  BY <1>3 DEF TypeOK, Capture, PaymentMoves, Same
<1> QED
  BY <1>1, <1>2, <1>3 DEF OthersAct

\* Webhooks go to the address of the session they are about.
LEMMA SentIsTyped ==
  ASSUME CheckoutTypeOK, TypeOK', NEW r \in Refs, CustomerActs(r)
  PROVE  sent' \subseteq [hook : WebhookDto, url : Urls] /\ \A s \in sent' : s.hook \in hooks'
<1> DEFINE url == WebhookUrl(session[r])
           new == {[hook |-> w, url |-> url] : w \in {v \in hooks' : v.ref = r /\ v.status = pay'[r].status}}
<1>1. sent' \subseteq sent \cup new
  BY DEF CustomerActs
<1>2. hooks \subseteq hooks'
  BY DEF CustomerActs, Authorize, PayAtOnce, Decline, Notify
<1>3. url \in Urls
  BY WebhookUrlIsUrl, ConfigurationsAssumption DEF CheckoutTypeOK
<1>4. hooks' \subseteq WebhookDto
  BY DEF TypeOK
<1>5. new \subseteq [hook : WebhookDto, url : Urls] /\ \A s \in new : s.hook \in hooks'
  BY <1>3, <1>4
<1> QED
  BY <1>1, <1>2, <1>5 DEF CheckoutTypeOK

\* Requests for paylinks.
LEMMA CreationStep ==
  ASSUME CheckoutTypeOK, TypeOK, NEW r \in Refs, CreatePaylink(r)
  PROVE  CheckoutTypeOK'
<1>1. CASE OpenSession(r)
  <2>1. /\ session' = [session EXCEPT ![r] = settings]
        /\ told' = told \ {r}
        /\ creation' = [creation EXCEPT ![r] = [step |-> "answer"]]
        /\ UNCHANGED <<settings, asked, sent, hooks>>
    BY <1>1 DEF OpenSession, CreationGoes, OpenPayment
  <2>2. /\ pay'[r].status = "open"
        /\ \A q \in Refs \ {r} : pay'[q] = pay[q]
    BY <1>1 DEF OpenSession, OpenPayment, PaymentMoves, NoPayment, TypeOK
  <2> QED
    BY <2>1, <2>2 DEF CheckoutTypeOK, Creation, NotAsked
<1>2. CASE CreationRest(r)
  <2>1. UNCHANGED <<pay, hooks, settings, session, sent>>
    BY <1>2, CreationRestLeaves DEF vars
  <2>2. ASSUME NEW amount \in Amounts, RequestPaylink(r, amount)
        PROVE  CheckoutTypeOK'
    <3>1. asked' \in 0 .. MaxPaylinks
      BY <2>2, ConfigurationsAssumption DEF RequestPaylink, CheckoutTypeOK
    <3>2. /\ creation' = [creation EXCEPT ![r] = [step |-> "attendee", amount |-> amount]]
          /\ creation[r].step = "none"
          /\ UNCHANGED told
      BY <2>2 DEF RequestPaylink, CreationGoes, NotAsked
    <3> QED
      BY <2>1, <3>1, <3>2 DEF CheckoutTypeOK, Creation, NotAsked
  <2>3. CASE GetAttendee(r)
    <3>1. /\ creation' = [creation EXCEPT ![r] = [creation[r] EXCEPT !.step = "session"]]
          /\ creation[r].step = "attendee"
          /\ UNCHANGED <<asked, told>>
      BY <2>3 DEF GetAttendee, CreationGoes
    <3>2. /\ [creation[r] EXCEPT !.step = "session"] \in Creation
          /\ [creation[r] EXCEPT !.step = "session"].step = "session"
      BY <3>1 DEF CheckoutTypeOK, Creation, NotAsked
    <3> QED
      BY <2>1, <3>1, <3>2 DEF CheckoutTypeOK
  <2>4. ASSUME creation' = [creation EXCEPT ![r] = NotAsked], UNCHANGED asked,
               told' = told \/ (told' = told \cup {r} /\ creation[r].step = "answer")
        PROVE  CheckoutTypeOK'
    BY <2>1, <2>4 DEF CheckoutTypeOK, Creation, NotAsked
  <2>5. CASE GetAttendeeFails(r) \/ OpenSessionFails(r) \/ ReturnPaylink(r) \/ AnswerIsLost(r)
    BY <2>4, <2>5 DEF GetAttendeeFails, OpenSessionFails, ReturnPaylink, AnswerIsLost, CreationGoes
  <2> QED
    BY <1>2, <2>2, <2>3, <2>5 DEF CreationRest
<1> QED
  BY <1>1, <1>2, CreationCases

LEMMA CheckoutNextInv == CheckoutInv /\ [CheckoutNext]_allVars => CheckoutInv'
<1> SUFFICES ASSUME CheckoutInv, [CheckoutNext]_allVars
             PROVE  CheckoutInv'
  OBVIOUS
<1>1. Inv /\ CheckoutTypeOK /\ TypeOK
  BY DEF CheckoutInv, Inv
<1>2. Inv' /\ TypeOK'
  BY <1>1, CheckoutStep, NextInv DEF Inv
<1>3. ASSUME UNCHANGED checkoutVars, hooks \subseteq hooks', \A q \in Refs : Same(q)
      PROVE  CheckoutTypeOK'
  BY <1>1, <1>3 DEF checkoutVars, CheckoutTypeOK, Same
<1>4. ASSUME NEW r \in Refs, CreatePaylink(r)
      PROVE  CheckoutTypeOK'
  BY <1>1, <1>4, CreationStep
<1>5. ASSUME NEW r \in Refs, CustomerActs(r)
      PROVE  CheckoutTypeOK'
  <2>1. UNCHANGED <<settings, creation, asked, session, told>>
    BY <1>5 DEF CustomerActs
  <2>2. \A q \in Refs : Same(q)
    BY <1>1, <1>5, CustomerActsKeeps
  <2>3. sent' \subseteq [hook : WebhookDto, url : Urls] /\ \A s \in sent' : s.hook \in hooks'
    BY <1>1, <1>2, <1>5, SentIsTyped
  <2> QED
    BY <1>1, <2>1, <2>2, <2>3 DEF CheckoutTypeOK, Same
<1>6. ASSUME NEW h \in Handlers, Settle(h)
      PROVE  CheckoutTypeOK'
  <2>1. UNCHANGED <<pay, hooks>>
    BY <1>6 DEF Settle, ContinueWebhook, ReadUpstream, ReadUpstreamFails, FetchFails, CannotCreate,
                PrepareCreate, AbortUpdate, PrepareUpdate, UpdateTransaction, UpdateFails,
                AddTransaction, AddFails, ReportCreated, StatusCheck, StartCheck, GetPayment,
                GetPaymentFails, CheckFetchFails, CheckOnly, CheckRefuses, CheckPrepares,
                CheckUpdates, CheckUpdateFails
  <2> QED
    BY <1>3, <1>6, <2>1 DEF Settle, Same
<1>7. ASSUME NEW h \in Handlers, NEW w \in hooks, WebhookArrives(h, w)
      PROVE  CheckoutTypeOK'
  <2>1. UNCHANGED <<pay, hooks>>
    BY <1>7 DEF WebhookArrives, StartWebhook, Unexpected, WrongPrefix, Accept
  <2> QED
    BY <1>3, <1>7, <2>1 DEF WebhookArrives, Same
<1>8. ASSUME OthersAct
      PROVE  CheckoutTypeOK'
  <2>1. hooks \subseteq hooks'
    BY <1>8 DEF OthersAct, PaymentService, LateWrite, AdminDecides, Expire, Capture
  <2> QED
    BY <1>1, <1>3, <1>8, <2>1, OthersActKeeps DEF OthersAct
<1>9. ASSUME Restart
      PROVE  CheckoutTypeOK'
  <2>1. UNCHANGED <<pay, hooks, asked, session, sent, told>> /\ settings' \in Configurations
    BY <1>9 DEF Restart, Crash
  <2>2. creation' = [r \in Refs |-> NotAsked]
    BY <1>9 DEF Restart
  <2> QED
    BY <1>1, <2>1, <2>2 DEF CheckoutTypeOK, Creation, NotAsked
<1>10. ASSUME UNCHANGED allVars
       PROVE  CheckoutTypeOK'
  BY <1>3, <1>10 DEF allVars, vars, Same
<1>11. CheckoutTypeOK'
  BY <1>4, <1>5, <1>6, <1>7, <1>8, <1>9, <1>10 DEF CheckoutNext
<1> QED
  BY <1>2, <1>11 DEF CheckoutInv

-----------------------------------------------------------------------------
(* The theorems. *)

\* The inductive invariant of the composition, from that of PaygateAdapter.
THEOREM CheckoutInvariance == CheckoutSpec => []CheckoutInv
<1>1. CheckoutInit => CheckoutInv
  BY CheckoutInitInv
<1>2. CheckoutInv /\ [CheckoutNext]_allVars => CheckoutInv'
  BY CheckoutNextInv
<1> QED
  BY <1>1, <1>2, PTL DEF CheckoutSpec

\* The composition of paylink creation, lost webhooks and reconfiguration with the
\* settling of payments does nothing that PaygateAdapter does not allow.
THEOREM CheckoutImplementsAdapter == CheckoutSpec => Spec
<1>1. CheckoutInit => Init
  BY DEF CheckoutInit
<1>2. CheckoutInv /\ [CheckoutNext]_allVars => [Next]_vars
  BY CheckoutStep DEF CheckoutInv
<1> QED
  BY <1>1, <1>2, CheckoutInvariance, PTL DEF CheckoutSpec, Spec

\* Paylinks that are handed out have a session, and the rest of the types.
THEOREM CheckoutTypeCorrectness == CheckoutSpec => []CheckoutTypeOK
<1>1. CheckoutInv => CheckoutTypeOK
  BY DEF CheckoutInv
<1> QED
  BY <1>1, CheckoutInvariance, PTL

\* What is settled is paid, however paylinks were asked for and webhooks addressed.
THEOREM CheckoutSettlesWhatIsPaid == CheckoutSpec => []ValidMeansPaid
<1> QED
  BY CheckoutImplementsAdapter, ValidTransactionsArePaid, PTL

\* So do its transactions what Booking allows: when writers overlap, and when there is
\* only one at a time.
THEOREM CheckoutImplementsBooking ==
  ASSUME Overlap = TRUE \/ Alone
  PROVE  CheckoutSpec => ImplementsBooking
<1>1. CASE Overlap = TRUE
  BY <1>1, CheckoutImplementsAdapter, AdapterImplementsBooking, PTL
<1>2. CASE Alone
  BY <1>2, CheckoutImplementsAdapter, AdapterAloneImplementsBooking, PTL
<1> QED
  BY <1>1, <1>2

\* With one request at a time, no admin and no late writes, a transaction in a final
\* status stays as it is, whatever paylinks are made and addresses webhooks go to.
THEOREM CheckoutKeepsFinal ==
  ASSUME Alone
  PROVE  CheckoutSpec => FinalIsNotTouched
<1> QED
  BY CheckoutImplementsAdapter, FinalTransactionsStay, PTL
=============================================================================
