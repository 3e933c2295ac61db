--------------------------- MODULE AnswersProofs ---------------------------
(***************************************************************************)
(* What requests are answered, and what the simulator's page calls paid,   *)
(* for any number of requests, reference ids and orders.                   *)
(***************************************************************************)
EXTENDS RequestsProofs

-----------------------------------------------------------------------------
(* Types. *)

\* The local variables of a request, by its step.
LEMMA TaskTypes ==
  ASSUME NEW t \in Task
  PROVE  /\ t.step \in {"attendee", "session"} =>
              t \in [step : {"attendee", "session"}, ref : Refs, order : Orders]
         /\ t.step = "query" => t.endpoint \in {"payment", "check"} /\ t.ref \in Refs
         /\ t.step \in {"settle", "handle", "page", "wait", "told"} => t.ref \in Refs
         /\ t.step \in {"handle", "page", "wait", "told"} => t.amount \in Amounts
         /\ t.step = "handle" =>
              t \in [step : {"handle"}, ref : Refs, amount : Amounts, caller : Handlers \cup {"paygate"}]
         /\ t.step = "wait" => t.server \in Handlers
         /\ t.step = "told" => t.status \in Statuses
BY DEF Task, Idle

\* The tasks that steps make.
LEMMA NewTasks ==
  ASSUME NEW r \in Refs
  PROVE  /\ Idle \in Task
         /\ \A order \in Orders, step \in {"attendee", "session"} :
              [step |-> step, ref |-> r, order |-> order] \in Task
         /\ \A endpoint \in {"payment", "check"} :
              [step |-> "query", endpoint |-> endpoint, ref |-> r] \in Task
         /\ [step |-> "settle", ref |-> r] \in Task
         /\ \A amount \in Amounts :
              /\ \A caller \in Handlers \cup {"paygate"} :
                   [step |-> "handle", ref |-> r, amount |-> amount, caller |-> caller] \in Task
              /\ [step |-> "page", ref |-> r, amount |-> amount] \in Task
              /\ \A g \in Handlers : [step |-> "wait", ref |-> r, amount |-> amount, server |-> g] \in Task
              /\ \A status \in Statuses :
                   [step |-> "told", ref |-> r, amount |-> amount, status |-> status] \in Task
BY DEF Task

\* What Paygate is asked to bill is a session.
LEMMA RequestedTypes ==
  ASSUME TypeOK, BillingInv, NEW h \in Handlers, task[h].step = "session", NEW session \in Requested(h)
  PROVE  session \in Sessions
<1> DEFINE order == task[h].order
<1>1. task[h] \in Task
  BY DEF TypeOK
<1>2. task[h].ref \in Refs /\ order \in Orders
  BY <1>1, TaskTypes
<1>3. Billable(order)
  BY DEF BillingInv, OrdersAreBillable
<1>4. PICK bill \in Bills(order.amount, order.rate) :
        session = [ref |-> task[h].ref, amount |-> order.amount, bill |-> bill]
  BY DEF Requested
<1>5. bill \in [tax : Int, net : Int, taxRate : Int]
  BY <1>3, <1>4, BillsAddUp DEF Billable
<1>6. order.amount \in Amounts
  BY <1>2, <1>3 DEF Amounts, Billable
<1> QED
  BY <1>2, <1>4, <1>5, <1>6 DEF Sessions

-----------------------------------------------------------------------------
(* Answers. *)

\* The table of the API's description, line by line.
LEMMA DocumentedLines ==
  /\ Documented("create") = {201, 400, 401, 500, 502}
  /\ Documented("payment") = {200, 400, 401, 404, 500, 502}
  /\ Documented("check") = {200, 400, 401, 404, 409, 500, 502}
  /\ Documented("webhook") = {200, 400, 401, 500, 502}
  /\ \A endpoint \in Endpoints :
       endpoint \notin {"create", "payment", "check", "webhook"} => Documented(endpoint) = Statuses
BY DEF Documented, Described

LEMMA DocumentedTypes == \A endpoint \in Endpoints : Documented(endpoint) \subseteq Statuses
BY DEF Documented, Described, Statuses, Endpoints

\* An answer the API's description allows.
Fits(endpoint, cause, status) == status \in Documented(endpoint) /\ Means(status, cause)

\* The answer of a step: none, or a documented one.
AnswerIsKnown ==
  answer = NoAnswer \/
    (answer.endpoint \in Endpoints /\ Fits(answer.endpoint, answer.cause, answer.status))

LEMMA RecordStep ==
  ASSUME NEW endpoint \in Endpoints, NEW cause, NEW status, Fits(endpoint, cause, status),
         Record(endpoint, cause, status)
  PROVE  AnswerIsKnown'
BY DEF Record, AnswerIsKnown

\* What fits: successes, failures of calls, and what is not there or does not match.
LEMMA SuccessFits ==
  /\ Fits("create", "done", 201)
  /\ Fits("payment", "done", 200) /\ Fits("check", "done", 200) /\ Fits("webhook", "done", 200)
  /\ Fits("weblogger", "done", 200) /\ Fits("health", "done", 200) /\ Fits("simulator", "done", 200)
BY DocumentedLines DEF Fits, Means, Endpoints, Statuses

LEMMA FailureFits ==
  ASSUME NEW endpoint \in {"create", "payment", "check", "webhook", "simulator"},
         NEW cause \in Failures, NEW status, status = 500 \/ status = 502
  PROVE  Fits(endpoint, cause, status)
<1>1. status \in Documented(endpoint)
  BY DocumentedLines DEF Endpoints, Statuses
<1>2. Means(status, cause)
  BY DEF Means
<1> QED
  BY <1>1, <1>2 DEF Fits

LEMMA MismatchFits ==
  /\ Fits("payment", "no payment", 404) /\ Fits("check", "no payment", 404)
  /\ Fits("check", "paymentservice.NotFoundError", 404)
  /\ Fits("check", "TransactionStatusError", 409) /\ Fits("check", "TransactionDataMismatchError", 409)
  /\ Fits("simulator", "not cached", 404)
<1>1. 404 \in Documented("payment") /\ 404 \in Documented("check") /\ 409 \in Documented("check")
  BY DocumentedLines
<1>2. 404 \in Documented("simulator")
  BY DocumentedLines DEF Endpoints, Statuses
<1>3. Means(404, "no payment") /\ Means(404, "paymentservice.NotFoundError") /\ Means(404, "not cached")
  BY DEF Means
<1>4. Means(409, "TransactionStatusError") /\ Means(409, "TransactionDataMismatchError")
  BY DEF Means
<1>5. /\ Fits("payment", "no payment", 404) /\ Fits("check", "no payment", 404)
      /\ Fits("check", "paymentservice.NotFoundError", 404)
  BY <1>1, <1>3 DEF Fits
<1>6. Fits("check", "TransactionStatusError", 409) /\ Fits("check", "TransactionDataMismatchError", 409)
  BY <1>1, <1>4 DEF Fits
<1>7. Fits("simulator", "not cached", 404)
  BY <1>2, <1>3 DEF Fits
<1> QED
  BY <1>5, <1>6, <1>7

\* What the controllers make of the errors of the calls.
LEMMA CreateFits ==
  /\ \A err \in AttendeeErrors : Fits("create", err, CreateStatus(err))
  /\ Fits("create", "paygate fails", CreateStatus("status"))
  /\ Fits("create", "no link", CreateStatus("ReceivedEmptyPaylink"))
<1>1. ASSUME NEW err PROVE CreateStatus(err) = 500 \/ CreateStatus(err) = 502
  BY DEF CreateStatus
<1>2. AttendeeErrors \subseteq Failures /\ "paygate fails" \in Failures /\ "no link" \in Failures
  BY DEF Failures
<1>3. ASSUME NEW cause \in Failures, NEW err PROVE Fits("create", cause, CreateStatus(err))
  <2>1. CreateStatus(err) = 500 \/ CreateStatus(err) = 502
    BY <1>1
  <2> QED
    BY <2>1, FailureFits
<1> QED
  BY <1>2, <1>3

LEMMA QueryFits ==
  ASSUME NEW cause \in {"no payment", "paygate fails"}, NEW err,
         (cause = "no payment" /\ err = "nexi.NoSuchID404Error") \/ err = "status"
  PROVE  Fits("payment", cause, PaymentStatus(err)) /\ Fits("check", cause, CheckStatus(err))
<1>1. CASE cause = "no payment" /\ err = "nexi.NoSuchID404Error"
  <2>1. PaymentStatus(err) = 404 /\ CheckStatus(err) = 404
    BY <1>1 DEF PaymentStatus, CheckStatus
  <2>2. Fits("payment", "no payment", 404) /\ Fits("check", "no payment", 404)
    BY MismatchFits
  <2> QED
    BY <1>1, <2>1, <2>2
<1>2. CASE err = "status"
  <2>1. PaymentStatus(err) = 500 /\ CheckStatus(err) = 500
    BY <1>2 DEF PaymentStatus, CheckStatus
  <2>2. cause \in Failures
    BY DEF Failures
  <2>3. Fits("payment", cause, PaymentStatus(err))
    BY <2>1, <2>2, FailureFits
  <2>4. Fits("check", cause, CheckStatus(err))
    BY <2>1, <2>2, FailureFits
  <2> QED
    BY <2>3, <2>4
<1> QED
  BY <1>1, <1>2

LEMMA CheckFits ==
  /\ Fits("check", "not configured", CheckStatus("nexi.NotConfigured"))
  /\ \A err \in ServiceErrors : Fits("check", err, CheckStatus(err))
  /\ Fits("check", "TransactionStatusError", CheckStatus("TransactionStatusError"))
  /\ Fits("check", "TransactionDataMismatchError", CheckStatus("TransactionDataMismatchError"))
<1>1. Fits("check", "not configured", CheckStatus("nexi.NotConfigured"))
  <2>1. CheckStatus("nexi.NotConfigured") = 502 /\ "not configured" \in Failures
    BY DEF CheckStatus, Failures
  <2> QED
    BY <2>1, FailureFits
<1>2. ASSUME NEW err \in ServiceErrors
      PROVE  Fits("check", err, CheckStatus(err))
  <2>1. CASE err = "paymentservice.NotFoundError"
    <3>1. CheckStatus(err) = 404
      BY <2>1 DEF CheckStatus
    <3>2. Fits("check", "paymentservice.NotFoundError", 404)
      BY MismatchFits
    <3> QED
      BY <2>1, <3>1, <3>2
  <2>2. CASE err # "paymentservice.NotFoundError"
    <3>1. CheckStatus(err) = 500 \/ CheckStatus(err) = 502
      BY <2>2 DEF CheckStatus, ServiceErrors
    <3>2. err \in Failures
      BY DEF Failures
    <3> QED
      BY <3>1, <3>2, FailureFits
  <2> QED
    BY <2>1, <2>2
<1>3. CheckStatus("TransactionStatusError") = 409 /\ CheckStatus("TransactionDataMismatchError") = 409
  BY DEF CheckStatus
<1>4. Fits("check", "TransactionStatusError", 409) /\ Fits("check", "TransactionDataMismatchError", 409)
  BY MismatchFits
<1>5. /\ Fits("check", "TransactionStatusError", CheckStatus("TransactionStatusError"))
      /\ Fits("check", "TransactionDataMismatchError", CheckStatus("TransactionDataMismatchError"))
  BY <1>3, <1>4
<1> QED
  BY <1>1, <1>2, <1>5

LEMMA WebhookFits ==
  ASSUME NEW err \in ServiceErrors
  PROVE  Fits("webhook", err, WebhookStatus(err)) /\ ~(WebhookStatus(err) < 300)
<1>1. WebhookStatus(err) = 500 \/ WebhookStatus(err) = 502
  BY DEF WebhookStatus, ServiceErrors
<1>2. err \in Failures
  BY DEF Failures
<1>3. Fits("webhook", err, WebhookStatus(err))
  BY <1>1, <1>2, FailureFits
<1> QED
  BY <1>1, <1>3

LEMMA SimulatorFits == Fits("simulator", "transport", 500) /\ Fits("simulator", "self.DownstreamError", 500)
<1>1. "transport" \in Failures /\ "self.DownstreamError" \in Failures
  BY DEF Failures, ServiceErrors
<1> QED
  BY <1>1, FailureFits

LEMMA AnswersAtOnceFit ==
  ASSUME NEW a \in AnsweredAtOnce
  PROVE  a.endpoint \in Endpoints /\ Fits(a.endpoint, a.cause, a.status)
<1>1. ASSUME a.endpoint \in Endpoints, a.cause \in {"no token", "wrong token", "wrong secret"}, a.status = 401
      PROVE  Fits(a.endpoint, a.cause, a.status)
  <2>1. 401 \in Documented(a.endpoint)
    BY DEF Documented, Described, Statuses
  <2>2. Means(a.status, a.cause)
    BY <1>1 DEF Means
  <2> QED
    BY <1>1, <2>1, <2>2 DEF Fits
<1>2. ASSUME a.endpoint \in {"create", "payment", "check", "webhook"},
             a.cause \in {"unreadable", "invalid", "bad reference id"}, a.status = 400
      PROVE  Fits(a.endpoint, a.cause, a.status)
  <2>1. ASSUME NEW endpoint \in {"create", "payment", "check", "webhook"} PROVE 400 \in Documented(endpoint)
    BY DocumentedLines
  <2>2. Means(a.status, a.cause)
    BY <1>2 DEF Means
  <2> QED
    BY <1>2, <2>1, <2>2 DEF Fits
<1>3. CASE a \in TokenRefusals
  <2>1. a.endpoint \in Endpoints /\ a.cause = "wrong token" /\ a.status = 401
    BY <1>3 DEF TokenRefusals
  <2> QED
    BY <1>1, <2>1
<1>4. CASE a \in PaylinkRefusals
  <2>1. /\ a.endpoint \in {"create", "payment", "check"}
        /\ \/ a.cause = "no token" /\ a.status = 401
           \/ a.cause \in {"unreadable", "invalid", "bad reference id"} /\ a.status = 400
    BY ZenonT(30), <1>4 DEF PaylinkRefusals
  <2>2. a.endpoint \in Endpoints
    BY <2>1 DEF Endpoints
  <2> QED
    BY <1>1, <1>2, <2>1, <2>2
<1>5. CASE a \in WebhookRefusals
  <2>1. /\ a.endpoint = "webhook"
        /\ \/ a.cause = "wrong secret" /\ a.status = 401
           \/ a.cause = "unreadable" /\ a.status = 400
    BY ZenonT(30), <1>5 DEF WebhookRefusals
  <2>2. a.endpoint \in Endpoints
    BY <2>1 DEF Endpoints
  <2> QED
    BY <1>1, <1>2, <2>1, <2>2
<1>6. CASE a \in WebloggerThanks \cup HealthReports
  <2>1. a.endpoint \in {"weblogger", "health"} /\ a.cause = "done" /\ a.status = 200
    BY ZenonT(30), <1>6 DEF WebloggerThanks, HealthReports
  <2>2. a.endpoint \in Endpoints
    BY <2>1 DEF Endpoints
  <2> QED
    BY <2>1, <2>2, SuccessFits
<1>7. CASE a \in NoSuchPages
  <2>1. a.endpoint \in {"other", "simulator"} /\ a.cause = "no such page" /\ a.status = 404
    BY <1>7 DEF NoSuchPages
  <2>2. a.endpoint \in Endpoints
    BY <2>1 DEF Endpoints
  <2>3. ASSUME NEW endpoint \in {"other", "simulator"} PROVE 404 \in Documented(endpoint)
    BY DEF Documented, Described, Statuses
  <2>4. Means(a.status, a.cause)
    BY <2>1 DEF Means
  <2> QED
    BY <2>1, <2>2, <2>3, <2>4 DEF Fits
<1> QED
  BY <1>3, <1>4, <1>5, <1>6, <1>7 DEF AnsweredAtOnce

-----------------------------------------------------------------------------
(* Types and answers, kept by every step. *)

Typed == TypeOK /\ AnswerIsKnown

\* What a step has to keep, variable by variable.
LEMMA TypedParts ==
  ASSUME config' = config,
         config \in Configurations,
         task' \in [Handlers -> Task],
         sessions' \subseteq Sessions,
         cache' \in [Refs -> Amounts \cup {NoAmount}],
         confirmed' \subseteq Payments, paid' \subseteq Payments,
         AnswerIsKnown'
  PROVE  Typed'
<1>1. answer' = NoAnswer \/ (answer'.endpoint \in Endpoints /\ answer'.status \in Statuses)
  BY DocumentedTypes DEF AnswerIsKnown, Fits
<1> QED
  BY Zenon, <1>1 DEF Typed, TypeOK

\* A request goes on, and touches nothing else.
LEMMA MoveTyped ==
  ASSUME TypeOK, NEW h \in Handlers, NEW next \in Task, Goto(h, next), AnswerIsKnown',
         UNCHANGED <<config, sessions, cache, confirmed, paid>>
  PROVE  Typed'
<1>1. task' \in [Handlers -> Task]
  BY DEF TypeOK, Goto
<1> QED
  BY <1>1, TypedParts DEF TypeOK

LEMMA NoAnswerYet == NotYet => AnswerIsKnown'
BY DEF NotYet, AnswerIsKnown

\* A request ends with an answer, and touches nothing else.
LEMMA AnswerTyped ==
  ASSUME TypeOK, NEW h \in Handlers,
         NEW endpoint \in Endpoints, NEW cause, NEW status, Fits(endpoint, cause, status),
         Answer(h, endpoint, cause, status),
         UNCHANGED <<config, sessions, cache, confirmed, paid>>
  PROVE  Typed'
<1>1. Goto(h, Idle) /\ AnswerIsKnown'
  BY RecordStep DEF Answer
<1>2. Idle \in Task
  BY DEF Task
<1> QED
  BY <1>1, <1>2, MoveTyped

LEMMA CreateTyped ==
  ASSUME TypeOK, BillingInv, NEW h \in Handlers, CreatePaylink(h)
  PROVE  Typed'
<1>0. "create" \in Endpoints /\ Idle \in Task
  BY DEF Endpoints, Task
<1>1. task[h] \in Task
  BY DEF TypeOK
<1>2. ASSUME NEW r \in BilledRefs, NEW order \in Orders, AcceptCreate(h, r, order)
      PROVE  Typed'
  <2>1. r \in Refs
    BY RefsAssumption
  <2>2. [step |-> "attendee", ref |-> r, order |-> order] \in Task
    BY <2>1, NewTasks
  <2> QED
    BY <1>2, <2>2, MoveTyped, NoAnswerYet DEF AcceptCreate
<1>3. CASE GetAttendee(h)
  <2>1. task[h] \in [step : {"attendee", "session"}, ref : Refs, order : Orders]
    BY <1>1, <1>3, TaskTypes DEF GetAttendee
  <2>2. [task[h] EXCEPT !.step = "session"] \in Task
    BY <2>1 DEF Task
  <2> QED
    BY <1>3, <2>2, MoveTyped, NoAnswerYet DEF GetAttendee
<1>4. CASE GetAttendeeFails(h)
  BY <1>0, <1>4, CreateFits, AnswerTyped DEF GetAttendeeFails
<1>5. CASE CreateSession(h) \/ CreateSessionFails(h)
  <2>1. task[h].step = "session" /\ UNCHANGED <<config, cache, confirmed, paid>>
    BY <1>5 DEF CreateSession, CreateSessionFails
  <2>2. sessions' \subseteq Sessions
    <3>1. sessions' = sessions \/ \E session \in Requested(h) : sessions' = sessions \cup {session}
      BY <1>5 DEF CreateSession, CreateSessionFails
    <3> QED
      BY <2>1, <3>1, RequestedTypes DEF TypeOK
  <2>3. \E cause, status : Answer(h, "create", cause, status) /\ Fits("create", cause, status)
    <3>1. CASE Answer(h, "create", "done", 201)
      BY <3>1, SuccessFits
    <3>2. CASE Answer(h, "create", "paygate fails", CreateStatus("status"))
      BY <3>2, CreateFits
    <3>3. CASE Answer(h, "create", "no link", CreateStatus("ReceivedEmptyPaylink"))
      BY <3>3, CreateFits
    <3> QED
      BY <1>5, <3>1, <3>2, <3>3 DEF CreateSession, CreateSessionFails
  <2>4. AnswerIsKnown' /\ task' = [task EXCEPT ![h] = Idle]
    BY <1>0, <2>3, RecordStep DEF Answer, Goto
  <2>5. task' \in [Handlers -> Task]
    BY <1>0, <2>4 DEF TypeOK
  <2> QED
    BY <2>1, <2>2, <2>4, <2>5, TypedParts DEF TypeOK
<1>6. CASE SimulateSession(h)
  <2>1. task[h].ref \in Refs /\ task[h].order.amount \in Amounts
    <3>1. task[h].ref \in Refs /\ task[h].order \in Orders /\ Billable(task[h].order)
      BY <1>1, <1>6, TaskTypes DEF SimulateSession, BillingInv, OrdersAreBillable
    <3> QED
      BY <3>1 DEF Amounts, Billable
  <2>2. cache' \in [Refs -> Amounts \cup {NoAmount}]
    BY <1>6, <2>1 DEF SimulateSession, TypeOK
  <2>3. AnswerIsKnown' /\ task' = [task EXCEPT ![h] = Idle]
    BY <1>0, <1>6, SuccessFits, RecordStep DEF SimulateSession, Answer, Goto
  <2>4. task' \in [Handlers -> Task]
    BY <1>0, <2>3 DEF TypeOK
  <2> QED
    BY <1>6, <2>2, <2>3, <2>4, TypedParts DEF SimulateSession, TypeOK
<1> QED
  BY <1>2, <1>3, <1>4, <1>5, <1>6 DEF CreatePaylink, GetAttendee

LEMMA ReadTyped ==
  ASSUME TypeOK, NEW h \in Handlers, ReadPaylink(h)
  PROVE  Typed'
<1>0. {"payment", "check"} \subseteq Endpoints
  BY DEF Endpoints
<1>1. task[h] \in Task
  BY DEF TypeOK
<1>2. ASSUME NEW endpoint \in {"payment", "check"}, NEW r \in Refs, AcceptPayment(h, endpoint, r)
      PROVE  Typed'
  <2>1. CASE endpoint = "check" /\ config.simulated
    <3>1. Answer(h, "check", "not configured", CheckStatus("nexi.NotConfigured"))
      BY <1>2, <2>1 DEF AcceptPayment
    <3> QED
      BY <1>0, <1>2, <3>1, CheckFits, AnswerTyped DEF AcceptPayment
  <2>2. CASE ~(endpoint = "check" /\ config.simulated)
    <3>1. [step |-> "query", endpoint |-> endpoint, ref |-> r] \in Task
      BY NewTasks
    <3> QED
      BY <1>2, <2>2, <3>1, MoveTyped, NoAnswerYet DEF AcceptPayment
  <2> QED
    BY <2>1, <2>2
<1>3. CASE FindPayment(h)
  <2>1. CASE task[h].endpoint = "payment"
    BY <1>0, <1>3, <2>1, SuccessFits, AnswerTyped DEF FindPayment
  <2>2. CASE task[h].endpoint # "payment"
    <3>1. [step |-> "settle", ref |-> task[h].ref] \in Task
      BY <1>1, <1>3, TaskTypes, NewTasks DEF FindPayment
    <3> QED
      BY <1>3, <2>2, <3>1, MoveTyped, NoAnswerYet DEF FindPayment
  <2> QED
    BY <2>1, <2>2
<1>4. CASE FindPaymentFails(h)
  <2>1. PICK cause \in {"no payment", "paygate fails"}, err \in QueryErrors :
          /\ config.simulated => cause = "no payment"
          /\ Answer(h, task[h].endpoint, cause,
                    IF task[h].endpoint = "payment" THEN PaymentStatus(err) ELSE CheckStatus(err))
    BY <1>4 DEF FindPaymentFails
  <2>2. task[h].endpoint \in {"payment", "check"}
    BY <1>1, <1>4, TaskTypes DEF FindPaymentFails
  <2>3. UNCHANGED <<config, sessions, cache, confirmed, paid>>
    BY <1>4 DEF FindPaymentFails
  <2>4. Fits("payment", cause, PaymentStatus(err)) /\ Fits("check", cause, CheckStatus(err))
    <3>1. (cause = "no payment" /\ err = "nexi.NoSuchID404Error") \/ err = "status"
      BY <2>1 DEF QueryErrors
    <3> QED
      BY <2>1, <3>1, QueryFits
  <2>5. CASE task[h].endpoint = "payment"
    <3>1. Answer(h, "payment", cause, PaymentStatus(err))
      BY <2>1, <2>5
    <3> QED
      BY <1>0, <2>3, <2>4, <3>1, AnswerTyped
  <2>6. CASE task[h].endpoint = "check"
    <3>1. Answer(h, "check", cause, CheckStatus(err))
      BY <2>1, <2>6
    <3> QED
      BY <1>0, <2>3, <2>4, <3>1, AnswerTyped
  <2> QED
    BY <2>2, <2>5, <2>6
<1>5. CASE SettlePayment(h)
  <2>1. \E cause, status : Answer(h, "check", cause, status) /\ Fits("check", cause, status)
    <3>1. CASE Answer(h, "check", "done", 200)
      BY <3>1, SuccessFits
    <3>2. ASSUME NEW err \in ServiceErrors, Answer(h, "check", err, CheckStatus(err))
          PROVE  Fits("check", err, CheckStatus(err))
      BY CheckFits
    <3>3. ASSUME NEW err \in {"TransactionStatusError", "TransactionDataMismatchError"}
          PROVE  Fits("check", err, CheckStatus(err))
      BY CheckFits
    <3> QED
      BY <1>5, <3>1, <3>2, <3>3 DEF SettlePayment
  <2> QED
    BY <1>0, <1>5, <2>1, AnswerTyped DEF SettlePayment
<1> QED
  BY <1>2, <1>3, <1>4, <1>5 DEF ReadPaylink

\* Replying ends one request and tells another, or nobody.
LEMMA ReplyTyped ==
  ASSUME TypeOK, NEW h \in Handlers, NEW cause, NEW status, Fits("webhook", cause, status),
         Reply(h, cause, status)
  PROVE  task' \in [Handlers -> Task] /\ AnswerIsKnown'
<1>1. AnswerIsKnown'
  <2>1. "webhook" \in Endpoints
    BY DEF Endpoints
  <2> QED
    BY <2>1, RecordStep DEF Reply
<1>2. status \in Statuses
  BY DocumentedLines DEF Statuses, Fits
<1>3. ASSUME NEW g \in Handlers, task[g].step = "wait"
      PROVE  [step |-> "told", ref |-> task[g].ref, amount |-> task[g].amount, status |-> status] \in Task
  <2>1. task[g] \in Task
    BY DEF TypeOK
  <2>2. task[g].ref \in Refs /\ task[g].amount \in Amounts
    BY <1>3, <2>1, TaskTypes
  <2> QED
    BY <1>2, <2>2, NewTasks
<1>4. Idle \in Task
  BY DEF Task
<1>5. task' \in [Handlers -> Task]
  BY <1>3, <1>4 DEF Reply, TypeOK
<1> QED
  BY <1>1, <1>5

LEMMA BilledTypes ==
  ASSUME TypeOK, NEW h \in Handlers, task[h].step \in {"handle", "told"}
  PROVE  Billed(h) \in Payments
<1>1. task[h] \in Task
  BY DEF TypeOK
<1> QED
  BY <1>1, TaskTypes DEF Billed, Payments

LEMMA WebhookTyped ==
  ASSUME TypeOK, NEW h \in Handlers, WebhookRequest(h)
  PROVE  Typed'
<1>1. ASSUME NEW s \in sessions, AcceptWebhook(h, s)
      PROVE  Typed'
  <2>1. s \in Sessions
    BY DEF TypeOK
  <2>2. s.ref \in Refs /\ s.amount \in Amounts
    BY <2>1 DEF Sessions
  <2>3. [step |-> "handle", ref |-> s.ref, amount |-> s.amount, caller |-> "paygate"] \in Task
    BY <2>2, NewTasks
  <2> QED
    BY <1>1, <2>3, MoveTyped, NoAnswerYet DEF AcceptWebhook
<1>2. CASE HandleWebhook(h)
  <2>1. task' \in [Handlers -> Task] /\ AnswerIsKnown'
    BY <1>2, SuccessFits, ReplyTyped DEF HandleWebhook
  <2>2. confirmed' \subseteq Payments
    BY <1>2, BilledTypes DEF HandleWebhook, TypeOK
  <2> QED
    BY <1>2, <2>1, <2>2, TypedParts DEF HandleWebhook, TypeOK
<1>3. CASE HandleWebhookFails(h)
  <2>1. PICK err \in ServiceErrors : Reply(h, err, WebhookStatus(err))
    BY <1>3 DEF HandleWebhookFails
  <2>2. task' \in [Handlers -> Task] /\ AnswerIsKnown'
    BY <2>1, WebhookFits, ReplyTyped
  <2> QED
    BY <1>3, <2>2, TypedParts DEF HandleWebhookFails, TypeOK
<1> QED
  BY <1>1, <1>2, <1>3 DEF WebhookRequest

LEMMA SimulatorTyped ==
  ASSUME TypeOK, NEW h \in Handlers, SimulatorPage(h)
  PROVE  Typed'
<1>0. "simulator" \in Endpoints /\ Idle \in Task
  BY DEF Endpoints, Task
<1>1. task[h] \in Task
  BY DEF TypeOK
<1>2. ASSUME NEW r \in Refs, OpenPage(h, r)
      PROVE  Typed'
  <2>1. CASE cache[r] = NoAmount
    <3>1. Answer(h, "simulator", "not cached", 404) /\ UNCHANGED <<config, sessions, cache, confirmed, paid>>
      BY <1>2, <2>1 DEF OpenPage
    <3>2. Fits("simulator", "not cached", 404)
      BY MismatchFits
    <3> QED
      BY <1>0, <3>1, <3>2, AnswerTyped
  <2>2. CASE cache[r] # NoAmount
    <3>1. cache[r] \in Amounts
      BY <2>2 DEF TypeOK
    <3>2. [step |-> "page", ref |-> r, amount |-> cache[r]] \in Task
      BY <3>1, NewTasks
    <3> QED
      BY <1>2, <2>2, <3>2, MoveTyped, NoAnswerYet DEF OpenPage
  <2> QED
    BY <2>1, <2>2
<1>3. ASSUME NEW g \in Handlers, CallWebhook(h, g)
      PROVE  Typed'
  <2>1. task[h].ref \in Refs /\ task[h].amount \in Amounts
    BY <1>1, <1>3, TaskTypes DEF CallWebhook
  <2>2. /\ [step |-> "wait", ref |-> task[h].ref, amount |-> task[h].amount, server |-> g] \in Task
        /\ [step |-> "handle", ref |-> task[h].ref, amount |-> task[h].amount, caller |-> h] \in Task
    BY <2>1, NewTasks
  <2>3. task' \in [Handlers -> Task]
    BY <1>3, <2>2 DEF CallWebhook, TypeOK
  <2> QED
    BY <1>3, <2>3, NoAnswerYet, TypedParts DEF CallWebhook, TypeOK
<1>4. CASE CallWebhookFails(h)
  <2>1. ASSUME NEW g \in Handlers
        PROVE  [task[g] EXCEPT !.caller = "paygate"] \in Task
    <3>1. CASE task[g].step = "handle"
      <4>1. task[g] \in [step : {"handle"}, ref : Refs, amount : Amounts, caller : Handlers \cup {"paygate"}]
        BY <3>1, TaskTypes DEF TypeOK
      <4> QED
        BY <4>1 DEF Task
    <3>2. CASE task[g].step # "handle"
      BY <3>2 DEF TypeOK, Task, Idle
    <3> QED
      BY <3>1, <3>2
  <2>2. task' \in [Handlers -> Task]
    BY <1>0, <1>4, <2>1 DEF CallWebhookFails, TypeOK
  <2>3. AnswerIsKnown'
    BY <1>0, <1>4, SimulatorFits, RecordStep DEF CallWebhookFails
  <2> QED
    BY <1>4, <2>2, <2>3, TypedParts DEF CallWebhookFails, TypeOK
<1>5. CASE ShowResult(h)
  <2>1. \E cause, status : Answer(h, "simulator", cause, status) /\ Fits("simulator", cause, status)
    <3>1. Answer(h, "simulator", "done", 200) \/ Answer(h, "simulator", "self.DownstreamError", 500)
      BY <1>5 DEF ShowResult
    <3> QED
      BY <3>1, SuccessFits, SimulatorFits
  <2>2. AnswerIsKnown' /\ task' = [task EXCEPT ![h] = Idle]
    BY <1>0, <2>1, RecordStep DEF Answer, Goto
  <2>3. task' \in [Handlers -> Task]
    BY <1>0, <2>2 DEF TypeOK
  <2>4. paid' \subseteq Payments
    BY <1>5, BilledTypes DEF ShowResult, TypeOK
  <2> QED
    BY <1>5, <2>2, <2>3, <2>4, TypedParts DEF ShowResult, TypeOK
<1> QED
  BY <1>2, <1>3, <1>4, <1>5 DEF SimulatorPage

LEMMA TypedStays == BillingInv /\ Typed /\ [Next]_vars => Typed'
<1> SUFFICES ASSUME BillingInv, Typed, [Next]_vars
             PROVE  Typed'
  OBVIOUS
<1>0. TypeOK
  BY DEF Typed
<1>1. ASSUME NEW h \in Handlers, AnswerAtOnce(h)
      PROVE  Typed'
  <2>1. PICK a \in AnsweredAtOnce : Answer(h, a.endpoint, a.cause, a.status)
    BY <1>1 DEF AnswerAtOnce
  <2> QED
    BY <1>0, <1>1, <2>1, AnswersAtOnceFit, AnswerTyped DEF AnswerAtOnce
<1>2. ASSUME NEW h \in Handlers, CreatePaylink(h) \/ ReadPaylink(h) \/ WebhookRequest(h) \/ SimulatorPage(h)
      PROVE  Typed'
  BY <1>0, <1>2, CreateTyped, ReadTyped, WebhookTyped, SimulatorTyped
<1>3. CASE Restart
  <2>1. task' \in [Handlers -> Task] /\ cache' \in [Refs -> Amounts \cup {NoAmount}]
    BY <1>3 DEF Restart, Task
  <2> QED
    BY <1>0, <1>3, <2>1, NoAnswerYet, TypedParts DEF Restart, TypeOK
<1>4. CASE UNCHANGED vars
  BY <1>4 DEF Typed, TypeOK, AnswerIsKnown, vars
<1> QED
  BY <1>1, <1>2, <1>3, <1>4 DEF Next

-----------------------------------------------------------------------------
(* The simulator's pages. *)

WaitsFor(page, g) == task[page].step = "wait" /\ task[page].server = g
Serves(g, page) == task[g].step = "handle" /\ task[g].caller = page

\* A page and the handler of its webhook know of each other, and of the same payment.
PagesAndServers ==
  /\ \A page, g \in Handlers : Serves(g, page) => WaitsFor(page, g) /\ Billed(page) = Billed(g)
  /\ \A page \in Handlers : task[page].step = "wait" => Serves(task[page].server, page)

ToldMeansConfirmed ==
  \A page \in Handlers :
    task[page].step = "told" /\ task[page].status < 300 => Billed(page) \in confirmed

\* Why the page calls only paid what is confirmed: the status it is told is that of its
\* own webhook, and so is the payment that is confirmed.
PagesInv == PagesAndServers /\ ToldMeansConfirmed /\ PaidMeansConfirmed

\* A request that neither serves nor waits goes on, and neither waits nor serves a page
\* then either.
LEMMA PagesUntouched ==
  ASSUME TypeOK, PagesInv, NEW h \in Handlers, task[h].step \notin {"handle", "wait"},
         NEW next, task' = [task EXCEPT ![h] = next],
         next.step \notin {"wait", "told"}, next.step = "handle" => next.caller \notin Handlers,
         UNCHANGED <<confirmed, paid>>
  PROVE  PagesInv'
<1> USE DEF Serves, WaitsFor, Billed
<1>1. ASSUME NEW page \in Handlers, NEW g \in Handlers, Serves(g, page)'
      PROVE  WaitsFor(page, g)' /\ (Billed(page) = Billed(g))'
  <2>1. g # h
    BY <1>1 DEF TypeOK
  <2>2. Serves(g, page)
    BY <1>1, <2>1
  <2>3. WaitsFor(page, g) /\ Billed(page) = Billed(g)
    BY <2>2 DEF PagesInv, PagesAndServers
  <2> QED
    BY <2>1, <2>3
<1>2. ASSUME NEW page \in Handlers, (task[page].step = "wait")'
      PROVE  Serves(task[page].server, page)'
  <2>1. page # h /\ task[page].step = "wait"
    BY <1>2 DEF TypeOK
  <2>2. Serves(task[page].server, page) /\ task[page].server \in Handlers
    BY <2>1, TaskTypes DEF PagesInv, PagesAndServers, TypeOK
  <2> QED
    BY <2>1, <2>2
<1>3. ToldMeansConfirmed'
  BY DEF PagesInv, ToldMeansConfirmed, TypeOK
<1> QED
  BY <1>1, <1>2, <1>3 DEF PagesInv, PagesAndServers, PaidMeansConfirmed

LEMMA PagesUntouchedByAnswer ==
  ASSUME TypeOK, PagesInv, NEW h \in Handlers, task[h].step \notin {"handle", "wait"},
         Goto(h, Idle), UNCHANGED <<confirmed, paid>>
  PROVE  PagesInv'
<1>1. task' = [task EXCEPT ![h] = Idle]
  BY DEF Goto
<1>2. Idle.step \notin {"wait", "told", "handle"}
  BY DEF Idle
<1> QED
  BY <1>1, <1>2, PagesUntouched

\* A handler tells the status to the page that waits for it, if there is one.
LEMMA ReplyStep ==
  ASSUME TypeOK, PagesInv, NEW h \in Handlers, task[h].step = "handle", NEW cause, NEW status,
         Reply(h, cause, status), confirmed \subseteq confirmed', UNCHANGED paid,
         status < 300 => Billed(h) \in confirmed'
  PROVE  PagesInv'
<1> USE DEF Serves, WaitsFor, Billed
<1>1. ASSUME NEW page \in Handlers, NEW g \in Handlers, Serves(g, page)'
      PROVE  WaitsFor(page, g)' /\ (Billed(page) = Billed(g))'
  <2>1. g # h /\ task'[g] = task[g]
    BY <1>1 DEF Reply, Idle
  <2>2. WaitsFor(page, g) /\ Billed(page) = Billed(g)
    BY <1>1, <2>1 DEF PagesInv, PagesAndServers
  <2>3. page # h /\ page # task[h].caller
    BY <2>1, <2>2 DEF PagesInv, PagesAndServers
  <2>4. task'[page] = task[page]
    BY <2>3 DEF Reply
  <2> QED
    BY <2>1, <2>2, <2>4
<1>2. ASSUME NEW page \in Handlers, (task[page].step = "wait")'
      PROVE  Serves(task[page].server, page)'
  <2>1. page # h /\ task'[page] = task[page] /\ task[page].step = "wait" /\ page # task[h].caller
    BY <1>2 DEF Reply, Idle
  <2>2. Serves(task[page].server, page) /\ task[page].server \in Handlers
    BY <2>1, TaskTypes DEF PagesInv, PagesAndServers, TypeOK
  <2>3. task[page].server # h
    BY <2>1, <2>2
  <2>4. task'[task[page].server] = task[task[page].server]
    <3>1. task[task[page].server].step # "wait"
      BY <2>2
    <3> QED
      BY <2>2, <2>3, <3>1 DEF Reply
  <2> QED
    BY <2>1, <2>2, <2>4
<1>3. ToldMeansConfirmed'
  <2> SUFFICES ASSUME NEW page \in Handlers, (task[page].step = "told" /\ task[page].status < 300)'
               PROVE  Billed(page)' \in confirmed'
    BY DEF ToldMeansConfirmed
  <2>1. page # h
    BY DEF Reply, Idle
  <2>2. CASE task'[page] = task[page]
    BY <2>2 DEF PagesInv, ToldMeansConfirmed
  <2>3. CASE task'[page] # task[page]
    <3>1. page = task[h].caller /\ task[page].step = "wait"
      BY <2>1, <2>3 DEF Reply
    <3>2. Billed(page) = Billed(h)
      BY <3>1 DEF PagesInv, PagesAndServers
    <3> QED
      BY <2>1, <3>1, <3>2 DEF Reply
  <2> QED
    BY <2>2, <2>3
<1>4. PaidMeansConfirmed'
  BY DEF PagesInv, PaidMeansConfirmed
<1> QED
  BY <1>1, <1>2, <1>3, <1>4 DEF PagesInv, PagesAndServers

\* A page calls the webhook, and is served by a handler that was idle.
LEMMA CallStep ==
  ASSUME TypeOK, PagesInv, NEW h \in Handlers, NEW g \in Handlers, CallWebhook(h, g)
  PROVE  PagesInv'
<1> USE DEF Serves, WaitsFor, Billed
<1>0. /\ h # g /\ task[h].step = "page" /\ task[g] = Idle
      /\ task'[h] = [step |-> "wait", ref |-> task[h].ref, amount |-> task[h].amount, server |-> g]
      /\ task'[g] = [step |-> "handle", ref |-> task[h].ref, amount |-> task[h].amount, caller |-> h]
      /\ \A k \in Handlers \ {h, g} : task'[k] = task[k]
      /\ UNCHANGED <<confirmed, paid>>
  BY DEF CallWebhook, Idle, TypeOK
<1>1. ASSUME NEW page \in Handlers, NEW s \in Handlers, Serves(s, page)'
      PROVE  WaitsFor(page, s)' /\ (Billed(page) = Billed(s))'
  <2>1. CASE s = g
    BY <1>0, <1>1, <2>1
  <2>2. CASE s # g
    <3>1. s # h /\ Serves(s, page)
      BY <1>0, <1>1, <2>2
    <3>2. WaitsFor(page, s) /\ Billed(page) = Billed(s)
      BY <3>1 DEF PagesInv, PagesAndServers
    <3>3. page \notin {h, g}
      BY <1>0, <3>2 DEF Idle
    <3> QED
      BY <1>0, <2>2, <3>1, <3>2, <3>3
  <2> QED
    BY <2>1, <2>2
<1>2. ASSUME NEW page \in Handlers, (task[page].step = "wait")'
      PROVE  Serves(task[page].server, page)'
  <2>1. CASE page = h
    BY <1>0, <2>1
  <2>2. CASE page # h
    <3>1. page # g /\ task[page].step = "wait"
      BY <1>0, <1>2, <2>2
    <3>2. Serves(task[page].server, page) /\ task[page].server \in Handlers
      BY <3>1, TaskTypes DEF PagesInv, PagesAndServers, TypeOK
    <3>3. task[page].server \notin {h, g}
      BY <1>0, <3>2 DEF Idle
    <3> QED
      BY <1>0, <2>2, <3>1, <3>2, <3>3
  <2> QED
    BY <2>1, <2>2
<1>3. ToldMeansConfirmed'
  BY <1>0 DEF PagesInv, ToldMeansConfirmed
<1>4. PaidMeansConfirmed'
  BY <1>0 DEF PagesInv, PaidMeansConfirmed
<1> QED
  BY <1>1, <1>2, <1>3, <1>4 DEF PagesInv, PagesAndServers

\* A page gives up: the handler of its webhook, if there is one, goes on for nobody.
LEMMA GiveUpStep ==
  ASSUME TypeOK, PagesInv, NEW h \in Handlers, CallWebhookFails(h)
  PROVE  PagesInv'
<1> USE DEF Serves, WaitsFor, Billed
<1>0. /\ task[h].step \in {"page", "wait"} /\ task'[h] = Idle
      /\ \A g \in Handlers \ {h} :
           \/ task'[g] = task[g] /\ ~WaitsFor(h, g)
           \/ task'[g] = [task[g] EXCEPT !.caller = "paygate"] /\ WaitsFor(h, g)
      /\ UNCHANGED <<confirmed, paid>>
  BY DEF CallWebhookFails
<1>1. ASSUME NEW g \in Handlers, g # h, WaitsFor(h, g)
      PROVE  task'[g].step = "handle" /\ task'[g].caller = "paygate"
  <2>1. task[g] \in Task /\ Serves(g, h)
    BY <1>1 DEF PagesInv, PagesAndServers, TypeOK
  <2>2. task[g] \in [step : {"handle"}, ref : Refs, amount : Amounts, caller : Handlers \cup {"paygate"}]
    BY <2>1, TaskTypes
  <2> QED
    BY <1>0, <1>1, <2>2
<1>2. ASSUME NEW page \in Handlers, NEW g \in Handlers, Serves(g, page)'
      PROVE  WaitsFor(page, g)' /\ (Billed(page) = Billed(g))'
  <2>1. g # h /\ ~WaitsFor(h, g)
    BY <1>0, <1>1, <1>2, HandlersAssumption DEF Idle
  <2>2. task'[g] = task[g]
    BY <1>0, <2>1
  <2>3. WaitsFor(page, g) /\ Billed(page) = Billed(g)
    BY <1>2, <2>2 DEF PagesInv, PagesAndServers
  <2>4. page # h /\ ~WaitsFor(h, page)
    <3>1. page # h
      BY <2>1, <2>3
    <3>2. ~Serves(page, h)
      BY <2>3
    <3> QED
      BY <3>1, <3>2 DEF PagesInv, PagesAndServers
  <2>5. task'[page] = task[page]
    BY <1>0, <2>4
  <2> QED
    BY <2>2, <2>3, <2>5
<1>3. ASSUME NEW page \in Handlers, (task[page].step = "wait")'
      PROVE  Serves(task[page].server, page)'
  <2>1. page # h /\ ~WaitsFor(h, page)
    BY <1>0, <1>1, <1>3 DEF Idle
  <2>2. task'[page] = task[page]
    BY <1>0, <2>1
  <2>3. Serves(task[page].server, page) /\ task[page].server \in Handlers
    BY <1>3, <2>2, TaskTypes DEF PagesInv, PagesAndServers, TypeOK
  <2>4. task[page].server # h /\ ~WaitsFor(h, task[page].server)
    BY <1>0, <2>1, <2>3 DEF PagesInv, PagesAndServers
  <2> QED
    BY <1>0, <2>2, <2>3, <2>4
<1>4. ToldMeansConfirmed'
  <2> SUFFICES ASSUME NEW page \in Handlers, (task[page].step = "told" /\ task[page].status < 300)'
               PROVE  Billed(page)' \in confirmed'
    BY DEF ToldMeansConfirmed
  <2>1. page # h /\ ~WaitsFor(h, page)
    BY <1>0, <1>1 DEF Idle
  <2> QED
    BY <1>0, <2>1 DEF PagesInv, ToldMeansConfirmed
<1>5. PaidMeansConfirmed'
  BY <1>0 DEF PagesInv, PaidMeansConfirmed
<1> QED
  BY <1>2, <1>3, <1>4, <1>5 DEF PagesInv, PagesAndServers

\* A page shows what it was told.
LEMMA ShowStep ==
  ASSUME TypeOK, PagesInv, NEW h \in Handlers, ShowResult(h)
  PROVE  PagesInv'
<1>1. /\ task[h].step = "told" /\ task' = [task EXCEPT ![h] = Idle] /\ UNCHANGED confirmed
      /\ paid' = paid \/ (task[h].status < 300 /\ paid' = paid \cup {Billed(h)})
  BY DEF ShowResult, Answer, Goto
<1>2. PaidMeansConfirmed'
  BY <1>1 DEF PagesInv, PaidMeansConfirmed, ToldMeansConfirmed
<1>3. ASSUME NEW page \in Handlers, NEW g \in Handlers, Serves(g, page)'
      PROVE  WaitsFor(page, g)' /\ (Billed(page) = Billed(g))'
  <2>1. g # h /\ Serves(g, page)
    BY <1>1, <1>3 DEF Serves, Idle, TypeOK
  <2>2. WaitsFor(page, g) /\ Billed(page) = Billed(g)
    BY <2>1 DEF PagesInv, PagesAndServers
  <2>3. page # h
    BY <1>1, <2>2 DEF WaitsFor
  <2> QED
    BY <1>1, <2>1, <2>2, <2>3 DEF WaitsFor, Billed
<1>4. ASSUME NEW page \in Handlers, (task[page].step = "wait")'
      PROVE  Serves(task[page].server, page)'
  <2>1. page # h /\ task[page].step = "wait"
    BY <1>1, <1>4 DEF Idle, TypeOK
  <2>2. Serves(task[page].server, page) /\ task[page].server \in Handlers
    BY <2>1, TaskTypes DEF PagesInv, PagesAndServers, TypeOK
  <2>3. task[page].server # h
    BY <1>1, <2>2 DEF Serves
  <2> QED
    BY <1>1, <2>1, <2>2, <2>3 DEF Serves
<1>5. ToldMeansConfirmed'
  <2> SUFFICES ASSUME NEW page \in Handlers, (task[page].step = "told" /\ task[page].status < 300)'
               PROVE  Billed(page)' \in confirmed'
    BY DEF ToldMeansConfirmed
  <2>1. page # h
    BY <1>1 DEF Idle, TypeOK
  <2> QED
    BY <1>1, <2>1 DEF PagesInv, ToldMeansConfirmed, Billed
<1> QED
  BY <1>2, <1>3, <1>4, <1>5 DEF PagesInv, PagesAndServers

LEMMA PagesStay == TypeOK /\ PagesInv /\ [Next]_vars => PagesInv'
<1> SUFFICES ASSUME TypeOK, PagesInv, [Next]_vars
             PROVE  PagesInv'
  OBVIOUS
<1>1. ASSUME NEW h \in Handlers, AnswerAtOnce(h)
      PROVE  PagesInv'
  BY <1>1, PagesUntouchedByAnswer DEF AnswerAtOnce, Answer, Idle
<1>2. ASSUME NEW h \in Handlers, CreatePaylink(h)
      PROVE  PagesInv'
  <2>1. ASSUME NEW r \in BilledRefs, NEW order \in Orders, AcceptCreate(h, r, order)
        PROVE  PagesInv'
    <3> DEFINE next == [step |-> "attendee", ref |-> r, order |-> order]
    <3>1. task' = [task EXCEPT ![h] = next] /\ task[h].step = "idle" /\ UNCHANGED <<confirmed, paid>>
      BY <2>1 DEF AcceptCreate, Goto, Idle
    <3>2. next.step = "attendee"
      OBVIOUS
    <3> HIDE DEF next
    <3> QED
      BY <3>1, <3>2, PagesUntouched
  <2>2. CASE GetAttendee(h)
    <3> DEFINE next == [task[h] EXCEPT !.step = "session"]
    <3>1. next.step = "session"
      BY <2>2, TaskTypes DEF GetAttendee, TypeOK
    <3>2. task' = [task EXCEPT ![h] = next] /\ task[h].step = "attendee" /\ UNCHANGED <<confirmed, paid>>
      BY <2>2 DEF GetAttendee, Goto
    <3> HIDE DEF next
    <3> QED
      BY <3>1, <3>2, PagesUntouched
  <2>3. CASE GetAttendeeFails(h)
    BY <2>3, PagesUntouchedByAnswer DEF GetAttendeeFails, Answer
  <2>4. CASE CreateSession(h) \/ CreateSessionFails(h) \/ SimulateSession(h)
    BY <2>4, PagesUntouchedByAnswer DEF CreateSession, CreateSessionFails, SimulateSession, Answer
  <2> QED
    BY <1>2, <2>1, <2>2, <2>3, <2>4 DEF CreatePaylink
<1>3. ASSUME NEW h \in Handlers, ReadPaylink(h)
      PROVE  PagesInv'
  <2>1. ASSUME NEW endpoint \in {"payment", "check"}, NEW r \in Refs, AcceptPayment(h, endpoint, r)
        PROVE  PagesInv'
    <3> DEFINE next == [step |-> "query", endpoint |-> endpoint, ref |-> r]
    <3>1. task[h].step = "idle" /\ UNCHANGED <<confirmed, paid>>
      <4>1. task[h] = Idle /\ UNCHANGED <<config, sessions, cache, confirmed, paid>>
        BY Zenon, <2>1 DEF AcceptPayment
      <4> QED
        BY <4>1 DEF Idle
    <3>2. Goto(h, Idle) \/ Goto(h, next)
      BY <2>1 DEF AcceptPayment, Answer
    <3>3. Goto(h, next) => task' = [task EXCEPT ![h] = next]
      BY DEF Goto
    <3>4. next.step = "query"
      OBVIOUS
    <3> HIDE DEF next
    <3> QED
      BY <3>1, <3>2, <3>3, <3>4, PagesUntouched, PagesUntouchedByAnswer
  <2>2. CASE FindPayment(h)
    <3> DEFINE next == [step |-> "settle", ref |-> task[h].ref]
    <3>1. /\ task[h].step = "query" /\ UNCHANGED <<confirmed, paid>>
          /\ Goto(h, Idle) \/ task' = [task EXCEPT ![h] = next]
      BY <2>2 DEF FindPayment, Answer, Goto
    <3>2. next.step = "settle"
      OBVIOUS
    <3> HIDE DEF next
    <3> QED
      BY <3>1, <3>2, PagesUntouched, PagesUntouchedByAnswer
  <2>3. CASE FindPaymentFails(h) \/ SettlePayment(h)
    BY <2>3, PagesUntouchedByAnswer DEF FindPaymentFails, SettlePayment, Answer
  <2> QED
    BY <1>3, <2>1, <2>2, <2>3 DEF ReadPaylink
<1>4. ASSUME NEW h \in Handlers, WebhookRequest(h)
      PROVE  PagesInv'
  <2>1. ASSUME NEW s \in sessions, AcceptWebhook(h, s)
        PROVE  PagesInv'
    <3> DEFINE next == [step |-> "handle", ref |-> s.ref, amount |-> s.amount, caller |-> "paygate"]
    <3>1. task' = [task EXCEPT ![h] = next] /\ task[h].step = "idle" /\ UNCHANGED <<confirmed, paid>>
      BY <2>1 DEF AcceptWebhook, Goto, Idle
    <3>2. next.step = "handle" /\ next.caller \notin Handlers
      BY HandlersAssumption
    <3> HIDE DEF next
    <3> QED
      BY <3>1, <3>2, PagesUntouched
  <2>2. CASE HandleWebhook(h)
    BY <2>2, ReplyStep DEF HandleWebhook
  <2>3. CASE HandleWebhookFails(h)
    <3>1. PICK err \in ServiceErrors : Reply(h, err, WebhookStatus(err))
      BY <2>3 DEF HandleWebhookFails
    <3>2. ~(WebhookStatus(err) < 300)
      BY <3>1, WebhookFits
    <3> QED
      BY <2>3, <3>1, <3>2, ReplyStep DEF HandleWebhookFails
  <2> QED
    BY <1>4, <2>1, <2>2, <2>3 DEF WebhookRequest
<1>5. ASSUME NEW h \in Handlers, SimulatorPage(h)
      PROVE  PagesInv'
  <2>1. ASSUME NEW r \in Refs, OpenPage(h, r)
        PROVE  PagesInv'
    <3> DEFINE next == [step |-> "page", ref |-> r, amount |-> cache[r]]
    <3>1. task[h].step = "idle" /\ UNCHANGED <<confirmed, paid>>
      <4>1. task[h] = Idle /\ UNCHANGED <<config, sessions, cache, confirmed, paid>>
        BY Zenon, <2>1 DEF OpenPage
      <4> QED
        BY <4>1 DEF Idle
    <3>2. Goto(h, Idle) \/ Goto(h, next)
      BY <2>1 DEF OpenPage, Answer
    <3>3. Goto(h, next) => task' = [task EXCEPT ![h] = next]
      BY DEF Goto
    <3>4. next.step = "page"
      OBVIOUS
    <3> HIDE DEF next
    <3> QED
      BY <3>1, <3>2, <3>3, <3>4, PagesUntouched, PagesUntouchedByAnswer
  <2> QED
    BY <1>5, <2>1, CallStep, GiveUpStep, ShowStep DEF SimulatorPage
<1>6. CASE Restart
  BY <1>6 DEF Restart, Idle, PagesInv, PagesAndServers, Serves, WaitsFor, ToldMeansConfirmed,
              PaidMeansConfirmed
<1>7. CASE UNCHANGED vars
  BY <1>7 DEF vars, PagesInv, PagesAndServers, Serves, WaitsFor, Billed, ToldMeansConfirmed,
              PaidMeansConfirmed
<1> QED
  BY <1>1, <1>2, <1>3, <1>4, <1>5, <1>6, <1>7 DEF Next

-----------------------------------------------------------------------------
(* The theorems. *)

RequestsInv == BillingInv /\ Typed /\ PagesInv

LEMMA InitRequests == Init => RequestsInv
<1> SUFFICES ASSUME Init PROVE RequestsInv
  OBVIOUS
<1>1. BillingInv
  BY DEF Init, Idle, BillingInv, OrdersAreBillable, SessionsAddUp
<1>2. Typed
  BY DEF Init, Typed, TypeOK, AnswerIsKnown, Task
<1>3. PagesInv
  BY DEF Init, Idle, PagesInv, PagesAndServers, Serves, WaitsFor, ToldMeansConfirmed, PaidMeansConfirmed
<1> QED
  BY <1>1, <1>2, <1>3 DEF RequestsInv

LEMMA NextRequests == RequestsInv /\ [Next]_vars => RequestsInv'
BY NextBillingInv, TypedStays, PagesStay DEF RequestsInv, Typed

\* Whatever requests are in progress, the state is one the declarations describe; a
\* session, in particular, is about an amount that was asked for.
THEOREM RequestsAreTyped == Spec => []TypeOK
<1>1. RequestsInv => TypeOK
  BY DEF RequestsInv, Typed
<1> QED
  BY <1>1, InitRequests, NextRequests, PTL DEF Spec

\* The simulator's page calls only that paid for which a webhook was confirmed.
THEOREM PaidWasConfirmed == Spec => []PaidMeansConfirmed
<1>1. RequestsInv => PaidMeansConfirmed
  BY DEF RequestsInv, PagesInv
<1> QED
  BY <1>1, InitRequests, NextRequests, PTL DEF Spec

\* Every request, whatever becomes of it, is answered with a status of its endpoint's, and
\* with one that means what happened: no failed call is a success, or the caller's fault.
THEOREM EveryAnswerIsDocumented == Spec => []AnswersAreDocumented
<1>1. RequestsInv => AnswersAreDocumented
  BY DEF RequestsInv, Typed, AnswerIsKnown, Fits, AnswersAreDocumented
<1> QED
  BY <1>1, InitRequests, NextRequests, PTL DEF Spec
=============================================================================
