------------------------ MODULE PaygateAdapterProofs ------------------------
(***************************************************************************)
(* Inv is an inductive invariant of PaygateAdapter, for every set of       *)
(* reference ids, amounts, handlers and disturbances; with it the type     *)
(* invariant and the safety invariants of the module.                      *)
(***************************************************************************)
EXTENDS PaygateAdapter, TLAPS

-----------------------------------------------------------------------------
(* Types. *)

\* The local variables of a handler, by its step.
LEMMA TaskTypes ==
  ASSUME NEW t \in Task
  PROVE  /\ OnWebhook(t) => t.hook \in WebhookDto
         /\ t.step \in {"fetch", "check_fetch"} => t.up \in PaymentQueryResponse
         /\ t.step \in {"check_query", "check_fetch"} => t.ref \in Refs
         /\ OnWrite(t) => t.write \in Write
BY DEF Task, Idle, OnWebhook, OnWrite

\* An existing transaction is a whole one.
LEMMA ExistingTransaction ==
  ASSUME TypeOK, NEW r \in Refs, Exists(r)
  PROVE  tx[r] \in Transaction
BY DEF TypeOK, Exists, NoTransaction

\* The documents that are written are transactions.
LEMMA DocumentTypes ==
  ASSUME NEW w \in WebhookDto, NEW t \in Transaction, NEW up \in PaymentQueryResponse
  PROVE  /\ Updated(w, t, up) \in Transaction
         /\ AutoCreated(w) \in Transaction
         /\ Settled(t) \in Transaction
BY DEF WebhookDto, Transaction, Updated, AutoCreated, Settled, TransactionStatus

\* What Paygate answers, and what stands in for an answer.
LEMMA AnswerTypes ==
  ASSUME TypeOK
  PROVE  /\ \A r \in Refs : Answers(r) \subseteq PaymentQueryResponse
         /\ \A status \in {"OK", "AUTHORIZED", "unknown"} :
              MinimalInfo(status) \in PaymentQueryResponse
<1>1. ASSUME NEW r \in Refs PROVE Answers(r) \subseteq PaymentQueryResponse
  <2>1. pay[r] \in PaymentQueryResponse
    BY DEF TypeOK
  <2>2. WithoutAmount(pay[r]) \in PaymentQueryResponse
    BY <2>1 DEF WithoutAmount, PaymentQueryResponse
  <2> QED
    BY <2>1, <2>2 DEF Answers
<1>2. ASSUME NEW status \in {"OK", "AUTHORIZED", "unknown"}
      PROVE  MinimalInfo(status) \in PaymentQueryResponse
  BY DEF MinimalInfo, PaymentQueryResponse, ResponseCodes
<1> QED
  BY <1>1, <1>2

\* A write leaves a transaction as it is or replaces it by the document.
LEMMA AppliedEffect ==
  ASSUME TypeOK, NEW write \in Write
  PROVE  /\ Applied(write) \in [Refs -> Transaction \cup {NoTransaction}]
         /\ \A r \in Refs : \/ Applied(write)[r] = tx[r]
                            \/ /\ r = write.ref
                               /\ Applied(write)[r] = write.doc
                               /\ write.op = "add" => ~Exists(r)
         /\ write.op = "put" => Applied(write)[write.ref] = write.doc
         /\ write.op = "add" /\ ~Exists(write.ref) => Applied(write)[write.ref] = write.doc
BY DEF TypeOK, Applied, Write

-----------------------------------------------------------------------------
(* What never shrinks. *)

Grows ==
  /\ hooks \subseteq hooks'
  /\ alarms \subseteq alarms'
  /\ \A r \in Refs : pay[r].status = "OK" => pay'[r] = pay[r]
  /\ \A r \in Refs : Booked(r) => Booked(r)'
  /\ \A r \in Refs : tx'[r].status = "tentative" => tx[r].status = "tentative"

LEMMA SafeToWriteIsStable ==
  ASSUME Grows, NEW write \in Write, SafeToWrite(write)
  PROVE  SafeToWrite(write)'
BY DEF Grows, SafeToWrite, Backed, Write

LEMMA TaskIsSoundIsStable ==
  ASSUME Grows, NEW t \in Task, TaskIsSound(t)
  PROVE  TaskIsSound(t)'
<1> USE DEF OnWebhook, OnWrite
<1>1. OnWrite(t) => SafeToWrite(t.write)'
  BY TaskTypes, SafeToWriteIsStable DEF TaskIsSound
<1>2. t.step = "fetch" => t.hook.ref \in Refs /\ StillTrue(t.hook.ref, t.up)'
  BY TaskTypes DEF TaskIsSound, StillTrue, Grows, WebhookDto
<1>3. t.step = "check_fetch" => StillTrue(t.ref, t.up)'
  BY TaskTypes DEF TaskIsSound, StillTrue, Grows
<1>4. t.step = "report" => Booked(t.hook.ref)'
  BY TaskTypes DEF TaskIsSound, Grows, WebhookDto
<1> QED
  BY <1>1, <1>2, <1>3, <1>4 DEF TaskIsSound, Grows

\* A handler that does not move is as sound as it was.
LEMMA RestIsSound ==
  ASSUME Inv, Grows, NEW g \in Handlers, task'[g] = task[g]
  PROVE  TaskIsSound(task[g])'
<1>1. task[g] \in Task /\ TaskIsSound(task[g])
  BY DEF Inv, TypeOK
<1>2. PICK t \in Task : t = task[g]
  BY <1>1
<1>3. TaskIsSound(t)'
  BY <1>1, <1>2, TaskIsSoundIsStable
<1> QED
  BY <1>2, <1>3 DEF TaskIsSound

\* Writes nobody waits for stay safe.
LEMMA LateIsSafe ==
  ASSUME Inv, Grows, late' = late
  PROVE  \A write \in late' : SafeToWrite(write)'
<1> SUFFICES ASSUME NEW write \in late'
             PROVE  SafeToWrite(write)'
  OBVIOUS
<1>1. write \in Write /\ SafeToWrite(write)
  BY DEF Inv, TypeOK
<1> QED
  BY <1>1, SafeToWriteIsStable

-----------------------------------------------------------------------------
(* The kinds of steps. *)

\* Something happens at Paygate.
LEMMA PaymentStep ==
  ASSUME Inv,
         pay' \in [Refs -> PaymentQueryResponse],
         hooks \subseteq hooks', hooks' \subseteq WebhookDto,
         UNCHANGED <<tx, acked, late, alarms, task>>, left' \in Nat,
         \A r \in Refs : pay[r].status = "OK" => pay'[r] = pay[r],
         PaygateIsHonest'
  PROVE  Inv'
<1>1. Grows
  BY DEF Inv, Grows, Booked
<1>2. TypeOK'
  BY DEF Inv, TypeOK
<1>3. \A h \in Handlers : TaskIsSound(task[h])'
  BY <1>1, RestIsSound
<1>4. \A write \in late' : SafeToWrite(write)'
  BY <1>1, LateIsSafe
<1>5. ValidMeansPaid'
  BY DEF Inv, ValidMeansPaid, SetByAdapter
<1>6. ConfirmedIsBooked' /\ PendingIsReported'
  BY DEF Inv, ConfirmedIsBooked, PendingIsReported, Booked
<1> QED
  BY <1>2, <1>3, <1>4, <1>5, <1>6 DEF Inv

\* A safe write reaches the payment service.
LEMMA WriteReaches ==
  ASSUME Inv, NEW write \in Write, SafeToWrite(write), tx' = Applied(write),
         UNCHANGED <<pay, hooks>>, alarms \subseteq alarms'
  PROVE  /\ Grows
         /\ tx' \in [Refs -> Transaction \cup {NoTransaction}]
         /\ ValidMeansPaid'
         /\ acked' = acked => ConfirmedIsBooked' /\ PendingIsReported'
<1> DEFINE Kept(r) == tx'[r] = tx[r]
           Written(r) == r = write.ref /\ tx'[r] = write.doc /\ (write.op = "add" => ~Exists(r))
<1>0. TypeOK
  BY DEF Inv
<1>1. tx' \in [Refs -> Transaction \cup {NoTransaction}] /\ \A r \in Refs : Kept(r) \/ Written(r)
  BY <1>0, AppliedEffect
<1>2. write.ref \in Refs /\ write.op \in {"add", "put"}
  BY DEF Write
<1>3. Grows
  BY <1>1 DEF Grows, Booked, SafeToWrite
<1>4. ValidMeansPaid'
  BY <1>1 DEF Inv, ValidMeansPaid, SetByAdapter, SafeToWrite, Backed
<1>5. ASSUME acked' = acked
      PROVE  ConfirmedIsBooked'
  BY <1>0, <1>3, <1>5 DEF Inv, TypeOK, ConfirmedIsBooked, Grows, WebhookDto
<1>6. ASSUME acked' = acked
      PROVE  PendingIsReported'
  <2> SUFFICES ASSUME NEW r \in Refs, tx'[r].status = "pending"
               PROVE  \/ \E kind \in HoldKinds \cup {"created_pending"} : <<r, kind>> \in alarms'
                      \/ r \in OurRefs /\ \E w \in hooks \ acked : w.ref = r /\ IsSuccess(w)
    BY <1>6 DEF PendingIsReported
  <2>1. CASE Kept(r)
    BY <2>1 DEF Inv, PendingIsReported
  <2>2. CASE Written(r) /\ write.op = "put"
    BY <2>2 DEF SafeToWrite
  <2>3. CASE Written(r) /\ write.op = "add"
    <3>1. PICK w \in hooks : w.ref = r /\ IsSuccess(w)
      BY <2>3 DEF SafeToWrite
    <3>2. r \in OurRefs /\ <<r, "no_debitor">> \notin alarms /\ ~Booked(r)
      BY <2>3 DEF Inv, SafeToWrite, Exists, Booked
    <3>3. w \notin acked
      BY <3>1, <3>2 DEF Inv, ConfirmedIsBooked
    <3> QED
      BY <3>1, <3>2, <3>3
  <2> QED
    BY <1>1, <1>2, <2>1, <2>2, <2>3
<1> QED
  BY <1>1, <1>3, <1>4, <1>5, <1>6

\* A handler moves on, and neither confirms its webhook nor writes.
LEMMA MoveStep ==
  ASSUME Inv, NEW h \in Handlers,
         UNCHANGED <<pay, tx, hooks, acked>>, left' \in Nat,
         late' \subseteq Write, \A write \in late' : write \in late \/ SafeToWrite(write)',
         alarms \subseteq alarms', alarms' \subseteq Refs \X RecordedAlarms,
         \A r \in ParseableRefs : <<r, "no_debitor">> \notin alarms',
         task' \in [Handlers -> Task], \A g \in Handlers \ {h} : task'[g] = task[g],
         TaskIsSound(task[h])'
  PROVE  Inv'
<1>1. Grows
  BY DEF Inv, Grows, Booked
<1>2. TypeOK'
  BY DEF Inv, TypeOK
<1>3. \A g \in Handlers : TaskIsSound(task[g])'
  BY <1>1, RestIsSound
<1>4. \A write \in late' : SafeToWrite(write)'
  BY <1>1, SafeToWriteIsStable DEF Inv, TypeOK
<1>5. PaygateIsHonest' /\ ValidMeansPaid'
  BY DEF Inv, PaygateIsHonest, ValidMeansPaid, SetByAdapter
<1>6. ConfirmedIsBooked' /\ PendingIsReported'
  BY DEF Inv, ConfirmedIsBooked, PendingIsReported, Booked
<1> QED
  BY <1>2, <1>3, <1>4, <1>5, <1>6 DEF Inv

\* A handler moves on to next, or leaves its request, after a call that may have
\* written and an answer that may have confirmed its webhook.
LEMMA FinishStep ==
  ASSUME Inv, Grows, NEW h \in Handlers,
         task' = [task EXCEPT ![h] = Idle],
         UNCHANGED <<pay, hooks>>, late' = late, left' \in Nat,
         tx' \in [Refs -> Transaction \cup {NoTransaction}],
         acked' \subseteq hooks, alarms' \subseteq Refs \X RecordedAlarms,
         \A r \in ParseableRefs : <<r, "no_debitor">> \notin alarms',
         ValidMeansPaid', ConfirmedIsBooked', PendingIsReported'
  PROVE  Inv'
<1>1. task' \in [Handlers -> Task] /\ task'[h] = Idle /\ \A g \in Handlers \ {h} : task'[g] = task[g]
  BY DEF Inv, TypeOK, Task
<1>2. TypeOK'
  BY <1>1 DEF Inv, TypeOK
<1>3. TaskIsSound(task[h])'
  BY <1>1 DEF TaskIsSound, Idle, OnWebhook, OnWrite
<1>4. \A g \in Handlers : TaskIsSound(task[g])'
  BY <1>1, <1>3, RestIsSound
<1>5. \A write \in late' : SafeToWrite(write)'
  BY LateIsSafe
<1>6. PaygateIsHonest'
  BY DEF Inv, PaygateIsHonest
<1> QED
  BY <1>2, <1>4, <1>5, <1>6 DEF Inv

\* A webhook is confirmed and the transaction left alone.
LEMMA ConfirmStep ==
  ASSUME Inv, NEW h \in Handlers, OnWebhook(task[h]), Confirm(h),
         UNCHANGED <<pay, tx, hooks, late, left>>,
         alarms \subseteq alarms', alarms' \subseteq Refs \X RecordedAlarms,
         \A r \in ParseableRefs : <<r, "no_debitor">> \notin alarms',
         Booked(task[h].hook.ref) \/ <<task[h].hook.ref, "no_debitor">> \in alarms',
         tx[task[h].hook.ref].status = "pending" =>
           <<task[h].hook.ref, "created_pending">> \in alarms'
  PROVE  Inv'
<1>1. Grows
  BY DEF Inv, Grows, Booked
<1>2. acked' = acked \cup {task[h].hook} /\ task[h].hook \in hooks /\ task[h].hook.ref \in OurRefs
  BY DEF Inv, Confirm, TaskIsSound
<1>3. ValidMeansPaid'
  BY DEF Inv, ValidMeansPaid, SetByAdapter
<1>4. ConfirmedIsBooked'
  BY <1>2 DEF Inv, ConfirmedIsBooked, Booked
<1>5. PendingIsReported'
  BY <1>2 DEF Inv, PendingIsReported
<1> QED
  BY <1>1, <1>2, <1>3, <1>4, <1>5, FinishStep DEF Inv, TypeOK, Confirm, Goto

\* A call that writes has failed, and the request with it.
LEMMA FailedWriteStep ==
  ASSUME Inv, NEW h \in Handlers, NEW write \in Write, SafeToWrite(write),
         WriteFails(write), Finish(h), UNCHANGED <<pay, hooks>>,
         alarms \subseteq alarms', alarms' \subseteq Refs \X RecordedAlarms,
         \A r \in ParseableRefs : <<r, "no_debitor">> \notin alarms'
  PROVE  Inv'
<1>1. left' \in Nat
  BY DEF Inv, TypeOK, WriteFails, Disturb
<1>2. task' = [task EXCEPT ![h] = Idle] /\ acked' = acked
  BY DEF Finish, Goto
<1>3. CASE tx' = Applied(write) /\ late' = late
  BY <1>1, <1>2, <1>3, WriteReaches, FinishStep DEF Inv, TypeOK
<1>4. CASE tx' = tx /\ late' \in {late, late \cup {write}}
  <2>1. Grows
    BY <1>4 DEF Inv, Grows, Booked
  <2>2. task' \in [Handlers -> Task] /\ task'[h] = Idle /\ \A g \in Handlers \ {h} : task'[g] = task[g]
    BY <1>2 DEF Inv, TypeOK, Task
  <2>3. TaskIsSound(task[h])'
    BY <2>2 DEF TaskIsSound, Idle, OnWebhook, OnWrite
  <2>4. late' \subseteq Write /\ \A w \in late' : w \in late \/ SafeToWrite(w)'
    BY <1>4, <2>1, SafeToWriteIsStable DEF Inv, TypeOK
  <2> QED
    BY <1>1, <1>2, <1>4, <2>2, <2>3, <2>4, MoveStep
<1> QED
  BY <1>3, <1>4 DEF WriteFails

-----------------------------------------------------------------------------
(* The steps at Paygate and in the payment service. *)

LEMMA PaygateStep ==
  ASSUME Inv, Paygate
  PROVE  Inv'
<1> USE DEF PaymentMoves, Notify
<1>0. TypeOK /\ PaygateIsHonest
  BY DEF Inv
<1>1. PICK r \in Refs :
        \/ \E amount \in Amounts : OpenPayment(r, amount)
        \/ Authorize(r)
        \/ PayAtOnce(r)
        \/ \E captured \in Amounts, code \in ResponseCodes : Capture(r, captured, code)
        \/ Decline(r)
        \/ Expire(r)
  BY DEF Paygate
<1>2. pay \in [Refs -> PaymentQueryResponse] /\ pay[r] \in PaymentQueryResponse /\ left \in Nat
  BY <1>0 DEF TypeOK
<1>3. hooks \subseteq WebhookDto /\ (pay[r].status # "none" => pay[r].amount \in Amounts)
  BY <1>0, <1>2 DEF TypeOK, PaygateIsHonest, PaymentQueryResponse
<1>4. ASSUME NEW payment \in PaymentQueryResponse, PaymentMoves(r, payment),
             payment.amount # NoAmount, pay[r].status # "OK",
             hooks \subseteq hooks', hooks' \subseteq WebhookDto,
             \A w \in hooks' \ hooks :
               w.ref = r /\ (w.status = "OK" => payment.status = "OK" /\ w.amount = payment.amount),
             UNCHANGED <<tx, acked, late, alarms, task>>, left' \in Nat
      PROVE  Inv'
  <2>1. /\ pay' \in [Refs -> PaymentQueryResponse] /\ pay'[r] = payment
        /\ \A q \in Refs \ {r} : pay'[q] = pay[q]
    BY <1>2, <1>4
  <2>2. \A w \in hooks' : w.ref \in Refs /\ (w \in hooks => w.ref \in Refs)
    BY <1>4 DEF WebhookDto
  <2>3. PaygateIsHonest'
    BY <1>0, <1>4, <2>1, <2>2 DEF PaygateIsHonest
  <2>4. \A q \in Refs : pay[q].status = "OK" => pay'[q] = pay[q]
    BY <1>4, <2>1
  <2> QED
    BY <1>4, <2>1, <2>3, <2>4, PaymentStep
\* What a notification adds to the webhooks.
<1>5. ASSUME NEW status \in {"OK", "AUTHORIZED", "FAILED"}, Notify(r, status), pay[r].status # "none"
      PROVE  /\ hooks \subseteq hooks' /\ hooks' \subseteq WebhookDto
             /\ \A w \in hooks' \ hooks : w.ref = r /\ w.status = status /\ w.amount = pay[r].amount
  BY <1>3, <1>5 DEF WebhookDto
<1>6. ASSUME NEW amount \in Amounts, OpenPayment(r, amount)
      PROVE  Inv'
  <2> DEFINE payment == [NoPayment EXCEPT !.status = "open", !.amount = amount]
  <2>1. payment \in PaymentQueryResponse /\ payment.amount # NoAmount
    BY AmountsAssumption DEF PaymentQueryResponse, NoPayment, ResponseCodes
  <2>2. left' \in Nat /\ pay[r].status # "OK"
    BY <1>2, <1>6 DEF OpenPayment, Disturb
  <2> QED
    BY <1>3, <1>4, <1>6, <2>1, <2>2 DEF OpenPayment
<1>7. ASSUME Authorize(r)
      PROVE  Inv'
  <2> DEFINE payment == [pay[r] EXCEPT !.status = "AUTHORIZED", !.code = "00000000"]
  <2>1. payment \in PaymentQueryResponse /\ payment.amount # NoAmount
    BY <1>0, <1>2, <1>7 DEF Authorize, PaymentQueryResponse, ResponseCodes, PaygateIsHonest
  <2> QED
    BY <1>2, <1>4, <1>5, <1>7, <2>1 DEF Authorize
<1>8. ASSUME PayAtOnce(r)
      PROVE  Inv'
  <2> DEFINE payment == [pay[r] EXCEPT !.status = "OK", !.captured = pay[r].amount,
                                       !.code = "00000000"]
  <2>1. /\ payment \in PaymentQueryResponse /\ payment.amount # NoAmount
        /\ payment.status = "OK" /\ payment.amount = pay[r].amount
    BY <1>0, <1>2, <1>8 DEF PayAtOnce, PaymentQueryResponse, ResponseCodes, PaygateIsHonest
  <2> QED
    BY <1>2, <1>4, <1>5, <1>8, <2>1 DEF PayAtOnce
<1>9. ASSUME NEW captured \in Amounts, NEW code \in ResponseCodes, Capture(r, captured, code)
      PROVE  Inv'
  <2> DEFINE payment == [pay[r] EXCEPT !.status = "OK", !.captured = captured, !.code = code]
  <2>1. payment \in PaymentQueryResponse /\ payment.amount # NoAmount
    BY <1>0, <1>2, <1>9 DEF Capture, PaymentQueryResponse, PaygateIsHonest
  <2> QED
    BY <1>2, <1>3, <1>4, <1>9, <2>1 DEF Capture
<1>10. ASSUME Decline(r) \/ Expire(r)
       PROVE  Inv'
  <2> DEFINE payment == [pay[r] EXCEPT !.status = "FAILED"]
  <2>1. payment \in PaymentQueryResponse /\ payment.amount # NoAmount
    BY <1>0, <1>2, <1>10 DEF Decline, Expire, PaymentQueryResponse, PaygateIsHonest
  <2>2. CASE Decline(r)
    BY <1>2, <1>4, <1>5, <2>1, <2>2 DEF Decline
  <2>3. CASE Expire(r)
    BY <1>2, <1>3, <1>4, <2>1, <2>3 DEF Expire
  <2> QED
    BY <1>10, <2>2, <2>3
<1> QED
  BY <1>1, <1>6, <1>7, <1>8, <1>9, <1>10

LEMMA PaymentServiceStep ==
  ASSUME Inv, PaymentService
  PROVE  Inv'
<1>0. TypeOK
  BY DEF Inv
<1>1. ASSUME NEW write \in late, LateWrite(write)
      PROVE  Inv'
  <2>0. write \in Write /\ SafeToWrite(write)
    BY DEF Inv, TypeOK
  <2>1. UNCHANGED <<pay, hooks, acked, alarms, task, left>> /\ late' \subseteq late
    BY <1>1 DEF LateWrite
  <2>2. /\ Grows /\ tx' \in [Refs -> Transaction \cup {NoTransaction}]
        /\ ValidMeansPaid' /\ ConfirmedIsBooked' /\ PendingIsReported'
    BY <1>1, <2>0, <2>1, WriteReaches DEF LateWrite
  <2>3. TypeOK'
    BY <2>1, <2>2, <1>0 DEF TypeOK
  <2>4. \A h \in Handlers : TaskIsSound(task[h])'
    BY <2>1, <2>2, RestIsSound
  <2>5. \A w \in late' : SafeToWrite(w)'
    BY <2>1, <2>2, SafeToWriteIsStable DEF Inv, TypeOK
  <2>6. PaygateIsHonest'
    BY <2>1 DEF Inv, PaygateIsHonest
  <2> QED
    BY <2>1, <2>2, <2>3, <2>4, <2>5, <2>6 DEF Inv
<1>2. ASSUME NEW r \in Refs, NEW status \in {"valid", "deleted"}, AdminDecides(r, status)
      PROVE  Inv'
  <2>1. tx[r] \in Transaction
    BY <1>0, <1>2, ExistingTransaction DEF AdminDecides, Exists
  <2>2. /\ tx'[r] = [tx[r] EXCEPT !.status = status, !.vat = TRUE, !.comment = "admin"]
        /\ \A q \in Refs \ {r} : tx'[q] = tx[q]
        /\ tx' \in [Refs -> Transaction \cup {NoTransaction}]
    BY <1>0, <1>2, <2>1 DEF AdminDecides, TypeOK, Transaction, TransactionStatus
  <2>3. tx'[r].status = status /\ tx'[r].comment = "admin"
    BY <2>1, <2>2 DEF Transaction
  <2>4. UNCHANGED <<pay, hooks, acked, late, alarms, task>> /\ left' \in Nat
    BY <1>0, <1>2 DEF AdminDecides, Disturb, TypeOK
  <2>5. Grows
    BY <2>2, <2>3, <2>4 DEF Grows, Booked
  <2>6. TypeOK'
    BY <1>0, <2>2, <2>4 DEF TypeOK
  <2>7. \A h \in Handlers : TaskIsSound(task[h])'
    BY <2>4, <2>5, RestIsSound
  <2>8. \A w \in late' : SafeToWrite(w)'
    BY <2>4, <2>5, LateIsSafe
  <2>9. PaygateIsHonest' /\ ValidMeansPaid'
    BY <2>2, <2>3, <2>4 DEF Inv, PaygateIsHonest, ValidMeansPaid, SetByAdapter
  <2>10. ConfirmedIsBooked'
    BY <1>0, <2>4, <2>5 DEF Inv, TypeOK, ConfirmedIsBooked, Grows, WebhookDto
  <2>11. PendingIsReported'
    BY <2>2, <2>3, <2>4 DEF Inv, PendingIsReported
  <2> QED
    BY <2>4, <2>6, <2>7, <2>8, <2>9, <2>10, <2>11 DEF Inv
<1> QED
  BY <1>1, <1>2 DEF PaymentService

-----------------------------------------------------------------------------
(* What the handlers' steps have in common. *)

\* What a handler knows of its local variables.
LEMMA HandlerFacts ==
  ASSUME Inv, NEW h \in Handlers
  PROVE  /\ task[h] \in Task /\ TaskIsSound(task[h])
         /\ OnWebhook(task[h]) =>
              /\ task[h].hook \in WebhookDto /\ task[h].hook \in hooks
              /\ IsSuccess(task[h].hook) /\ task[h].hook.ref \in Refs \cap OurRefs
         /\ task[h].step \in {"fetch", "check_fetch"} => task[h].up \in PaymentQueryResponse
         /\ task[h].step \in {"check_query", "check_fetch"} => task[h].ref \in Refs
         /\ OnWrite(task[h]) =>
              task[h].write \in Write /\ SafeToWrite(task[h].write) /\ task[h].write.ref \in Refs
<1>1. PICK t \in Task : t = task[h] /\ TaskIsSound(t)
  BY DEF Inv, TypeOK
<1> QED
  BY <1>1, TaskTypes DEF TaskIsSound, WebhookDto, Write

LEMMA GotoEffect ==
  ASSUME Inv, NEW h \in Handlers, NEW next \in Task, Goto(h, next)
  PROVE  /\ task' \in [Handlers -> Task]
         /\ task'[h] = next
         /\ \A g \in Handlers \ {h} : task'[g] = task[g]
BY DEF Inv, TypeOK, Goto

\* Alarms are only added, and "no_debitor" only for an id without a debitor.
LEMMA WarnEffect ==
  ASSUME Inv, NEW r \in Refs, NEW kinds, Warn(r, kinds),
         r \in ParseableRefs => "no_debitor" \notin kinds
  PROVE  /\ alarms \subseteq alarms'
         /\ alarms' \subseteq Refs \X RecordedAlarms
         /\ \A q \in ParseableRefs : <<q, "no_debitor">> \notin alarms'
         /\ \A kind \in kinds \cap RecordedAlarms : <<r, kind>> \in alarms'
BY DEF Inv, TypeOK, Warn

\* A webhook is confirmed as soon as it arrives.
LEMMA DiscardStep ==
  ASSUME Inv, NEW h \in Handlers, NEW w, NEW kind, Receive(h, w),
         Warn(w.ref, {kind}), kind # "no_debitor",
         acked' = acked \cup {w}, UNCHANGED <<pay, tx, hooks, late, task>>,
         IsSuccess(w) => w.ref \notin OurRefs /\ kind = "wrong_prefix"
  PROVE  Inv'
<1>1. w \in hooks /\ w \in WebhookDto /\ w.ref \in Refs
  BY DEF Inv, TypeOK, Receive, WebhookDto
<1>2. /\ alarms \subseteq alarms' /\ alarms' \subseteq Refs \X RecordedAlarms
      /\ \A q \in ParseableRefs : <<q, "no_debitor">> \notin alarms'
      /\ IsSuccess(w) => <<w.ref, "wrong_prefix">> \in alarms'
  BY <1>1, WarnEffect, AlarmsAssumption
<1>3. Grows
  BY <1>2 DEF Inv, Grows, Booked
<1>4. TypeOK'
  BY <1>1, <1>2 DEF Inv, TypeOK, Receive, Disturb
<1>5. \A g \in Handlers : TaskIsSound(task[g])'
  BY <1>3, RestIsSound
<1>6. \A write \in late' : SafeToWrite(write)'
  BY <1>3, LateIsSafe
<1>7. PaygateIsHonest' /\ ValidMeansPaid'
  BY DEF Inv, PaygateIsHonest, ValidMeansPaid, SetByAdapter
<1>8. ConfirmedIsBooked'
  BY <1>2 DEF Inv, ConfirmedIsBooked, Booked
<1>9. PendingIsReported'
  BY <1>2 DEF Inv, PendingIsReported
<1> QED
  BY <1>2, <1>4, <1>5, <1>6, <1>7, <1>8, <1>9 DEF Inv

-----------------------------------------------------------------------------
(* HandleWebhook, up to the call that fetches the transaction. *)

LEMMA ReceiveStep ==
  ASSUME Inv, NEW h \in Handlers, NEW w \in hooks,
         Unexpected(h, w) \/ WrongPrefix(h, w) \/ Accept(h, w)
  PROVE  Inv'
<1>1. CASE Unexpected(h, w)
  BY <1>1, DiscardStep DEF Unexpected
<1>2. CASE WrongPrefix(h, w)
  BY <1>2, DiscardStep DEF WrongPrefix
<1>3. CASE Accept(h, w)
  <2> DEFINE next == IF UpstreamConfigured
                     THEN [step |-> "query", hook |-> w]
                     ELSE [step |-> "fetch", hook |-> w, up |-> MinimalInfo(w.status)]
  <2>1. /\ TypeOK /\ PaygateIsHonest /\ w \in WebhookDto /\ w.ref \in Refs
        /\ IsSuccess(w) /\ w.ref \in OurRefs
    BY <1>3 DEF Inv, TypeOK, Accept, WebhookDto
  <2>2. MinimalInfo(w.status) \in PaymentQueryResponse
    BY <2>1, AnswerTypes DEF IsSuccess
  <2>3. next \in Task
    BY <2>1, <2>2 DEF Task
  <2>4. StillTrue(w.ref, MinimalInfo(w.status))
    BY <2>1 DEF StillTrue, MinimalInfo, PaygateIsHonest
  <2>5. UNCHANGED <<pay, tx, hooks, acked, late, alarms>> /\ left' \in Nat
    BY <1>3, <2>1 DEF Accept, Receive, Disturb, TypeOK
  <2>6. /\ task' \in [Handlers -> Task] /\ task'[h] = next
        /\ \A g \in Handlers \ {h} : task'[g] = task[g]
    BY <1>3, <2>3, GotoEffect DEF Accept
  <2>7. TaskIsSound(next)'
    BY <2>1, <2>4, <2>5 DEF TaskIsSound, OnWebhook, OnWrite, StillTrue
  <2>8. TaskIsSound(task[h])'
    BY <2>6, <2>7 DEF TaskIsSound
  <2> QED
    BY <2>1, <2>5, <2>6, <2>8, MoveStep DEF Inv, TypeOK
<1> QED
  BY <1>1, <1>2, <1>3

\* Paygate's answer is true when it is given.
LEMMA AnswerIsTrue ==
  ASSUME TypeOK, NEW r \in Refs, NEW up \in Answers(r)
  PROVE  up \in PaymentQueryResponse /\ StillTrue(r, up)
<1>1. pay[r] \in PaymentQueryResponse
  BY DEF TypeOK
<1>2. up \in PaymentQueryResponse
  BY AnswerTypes
<1> QED
  BY <1>1, <1>2 DEF Answers, WithoutAmount, StillTrue, PaymentQueryResponse

LEMMA ReadUpstreamStep ==
  ASSUME Inv, NEW h \in Handlers, ReadUpstream(h) \/ ReadUpstreamFails(h)
  PROVE  Inv'
<1>1. PICK w \in WebhookDto :
        /\ w = task[h].hook /\ TypeOK
        /\ w \in hooks /\ IsSuccess(w) /\ w.ref \in Refs \cap OurRefs
  BY HandlerFacts DEF Inv, ReadUpstream, ReadUpstreamFails, OnWebhook
<1>2. PICK up \in PaymentQueryResponse :
        /\ StillTrue(w.ref, up)
        /\ Goto(h, [step |-> "fetch", hook |-> w, up |-> up])
  <2>1. CASE ReadUpstream(h)
    BY <1>1, <2>1, AnswerIsTrue DEF ReadUpstream
  <2>2. CASE ReadUpstreamFails(h)
    <3>1. MinimalInfo("unknown") \in PaymentQueryResponse /\ StillTrue(w.ref, MinimalInfo("unknown"))
      BY <1>1, AnswerTypes DEF MinimalInfo, StillTrue
    <3> QED
      BY <1>1, <2>2, <3>1 DEF ReadUpstreamFails
  <2> QED
    BY <2>1, <2>2
<1> DEFINE next == [step |-> "fetch", hook |-> w, up |-> up]
<1>3. next \in Task
  BY <1>1 DEF Task
<1>4. UNCHANGED <<pay, tx, hooks, acked, late>> /\ left' \in Nat
  <2>1. CASE ReadUpstream(h)
    BY <1>1, <2>1 DEF ReadUpstream, QueryPaymentLink, Disturb, TypeOK
  <2>2. CASE ReadUpstreamFails(h)
    BY <1>1, <2>2 DEF ReadUpstreamFails, QueryFails, Disturb, TypeOK
  <2> QED
    BY <2>1, <2>2
<1>5. /\ alarms \subseteq alarms' /\ alarms' \subseteq Refs \X RecordedAlarms
      /\ \A r \in ParseableRefs : <<r, "no_debitor">> \notin alarms'
  <2>1. CASE ReadUpstream(h)
    BY <2>1 DEF ReadUpstream, Inv, TypeOK
  <2>2. CASE ReadUpstreamFails(h)
    BY <1>1, <2>2, WarnEffect DEF ReadUpstreamFails
  <2> QED
    BY <2>1, <2>2
<1>6. /\ task' \in [Handlers -> Task] /\ task'[h] = next
      /\ \A g \in Handlers \ {h} : task'[g] = task[g]
  BY <1>2, <1>3, GotoEffect
<1>7. TaskIsSound(next)'
  BY <1>1, <1>2, <1>4 DEF TaskIsSound, OnWebhook, OnWrite, StillTrue
<1>8. TaskIsSound(task[h])'
  BY <1>6, <1>7 DEF TaskIsSound
<1> QED
  BY <1>1, <1>4, <1>5, <1>6, <1>8, MoveStep DEF TypeOK

-----------------------------------------------------------------------------
(* HandleWebhook, from the transaction it has fetched. *)

\* A handler gives its request up after a call that has changed nothing.
LEMMA AbandonStep ==
  ASSUME Inv, NEW h \in Handlers, Finish(h), UNCHANGED <<pay, tx, hooks, late>>, left' \in Nat,
         alarms \subseteq alarms', alarms' \subseteq Refs \X RecordedAlarms,
         \A r \in ParseableRefs : <<r, "no_debitor">> \notin alarms'
  PROVE  Inv'
<1>1. Idle \in Task /\ TypeOK
  BY DEF Task, Inv
<1>2. /\ task' \in [Handlers -> Task] /\ task'[h] = Idle
      /\ \A g \in Handlers \ {h} : task'[g] = task[g]
  BY <1>1, GotoEffect DEF Finish
<1>3. TaskIsSound(task[h])'
  BY <1>2 DEF TaskIsSound, Idle, OnWebhook, OnWrite
<1> QED
  BY <1>1, <1>2, <1>3, MoveStep DEF Finish, TypeOK

\* The reasons for a hold, and what it means that there is none.
LEMMA HoldReasonsMeaning ==
  ASSUME NEW data, NEW transaction, NEW upstream
  PROVE  /\ HoldReasons(data, transaction, upstream) \subseteq HoldKinds
         /\ HoldReasons(data, transaction, upstream) = {} =>
              \/ upstream.amount = NoAmount /\ data.status = "OK"
              \/ upstream.amount = data.amount /\ upstream.status = "OK"
<1> DEFINE check == HoldChecks(data, transaction, upstream)
<1>1. DOMAIN check = HoldKinds
  BY DEF HoldChecks, HoldKinds
<1>2. HoldReasons(data, transaction, upstream) = {reason \in HoldKinds : check[reason]}
  BY <1>1 DEF HoldReasons
<1>3. ASSUME HoldReasons(data, transaction, upstream) = {}
      PROVE  \/ upstream.amount = NoAmount /\ data.status = "OK"
             \/ upstream.amount = data.amount /\ upstream.status = "OK"
  <2>1. /\ ~check["upstream_differs"] /\ ~check["awaiting_capture"]
        /\ ~check["upstream_not_ok"] /\ ~check["webhook_not_ok"]
    BY <1>2, <1>3 DEF HoldKinds
  <2> QED
    BY <2>1 DEF HoldChecks
<1> QED
  BY <1>2, <1>3

\* An update is safe to write: it settles only what Paygate backs.
LEMMA PreparedUpdateIsSafe ==
  ASSUME Inv, NEW w \in hooks, NEW up \in PaymentQueryResponse, StillTrue(w.ref, up),
         NEW t \in Transaction,
         \A kind \in HoldReasons(w, t, up) : <<w.ref, kind>> \in alarms',
         UNCHANGED <<pay, tx, hooks>>
  PROVE  SafeToWrite([op |-> "put", ref |-> w.ref, doc |-> Updated(w, t, up)])'
<1> DEFINE doc == Updated(w, t, up)
<1>1. /\ doc.status = IF HoldReasons(w, t, up) = {} THEN "valid" ELSE "pending"
      /\ doc.amount = w.amount
  BY DEF Updated, Transaction
<1>2. ASSUME doc.status = "valid"
      PROVE  Backed(w.ref, doc.amount)
  <2>1. \/ up.amount = NoAmount /\ w.status = "OK"
        \/ up.amount = w.amount /\ up.status = "OK"
    BY <1>1, <1>2, HoldReasonsMeaning
  <2>2. w.amount # NoAmount
    BY AmountsAssumption DEF Inv, TypeOK, WebhookDto
  <2> QED
    BY <1>1, <2>1, <2>2 DEF Inv, PaygateIsHonest, Backed, StillTrue
<1>3. ASSUME doc.status = "pending"
      PROVE  \E kind \in HoldKinds : <<w.ref, kind>> \in alarms'
  BY <1>1, <1>3, HoldReasonsMeaning
<1> QED
  BY <1>1, <1>2, <1>3 DEF SafeToWrite, Backed

LEMMA FetchStep ==
  ASSUME Inv, NEW h \in Handlers,
         \/ FetchFails(h) \/ CannotCreate(h) \/ PrepareCreate(h)
         \/ AbortUpdate(h) \/ PrepareUpdate(h)
  PROVE  Inv'
<1>1. PICK w \in WebhookDto :
        /\ w = task[h].hook /\ TypeOK /\ OnWebhook(task[h])
        /\ w \in hooks /\ IsSuccess(w) /\ w.ref \in Refs \cap OurRefs
  BY HandlerFacts
     DEF Inv, FetchFails, CannotCreate, PrepareCreate, AbortUpdate, PrepareUpdate, OnWebhook
<1>2. PICK up \in PaymentQueryResponse : up = task[h].up /\ StillTrue(w.ref, up)
  BY <1>1, HandlerFacts
     DEF FetchFails, CannotCreate, PrepareCreate, AbortUpdate, PrepareUpdate, TaskIsSound
<1>3. CASE FetchFails(h)
  BY <1>1, <1>3, AbandonStep DEF FetchFails, Disturb, Inv, TypeOK
<1>4. CASE CannotCreate(h)
  <2>1. /\ alarms \subseteq alarms' /\ alarms' \subseteq Refs \X RecordedAlarms
        /\ \A r \in ParseableRefs : <<r, "no_debitor">> \notin alarms'
        /\ <<w.ref, "no_debitor">> \in alarms'
    BY <1>1, <1>4, WarnEffect, AlarmsAssumption DEF CannotCreate
  <2>2. tx[w.ref].status = "absent"
    BY <1>1, <1>4 DEF CannotCreate, Exists
  <2> QED
    BY <1>1, <1>4, <2>1, <2>2, ConfirmStep DEF CannotCreate
<1>5. CASE AbortUpdate(h)
  <2>1. /\ alarms \subseteq alarms' /\ alarms' \subseteq Refs \X RecordedAlarms
        /\ \A r \in ParseableRefs : <<r, "no_debitor">> \notin alarms'
    BY <1>1, <1>5, WarnEffect DEF AbortUpdate
  <2>2. tx[w.ref].status \in {"valid", "deleted"}
    BY <1>1, <1>5 DEF AbortUpdate
  <2> QED
    BY <1>1, <1>5, <2>1, <2>2, ConfirmStep DEF AbortUpdate, Booked
<1>6. CASE PrepareCreate(h)
  <2> DEFINE write == [op |-> "add", ref |-> w.ref, doc |-> AutoCreated(w)]
             next  == [step |-> "add", hook |-> w, write |-> write]
  <2>1. AutoCreated(w) \in Transaction
    BY <1>1 DEF AutoCreated, Transaction, TransactionStatus, WebhookDto
  <2>2. next \in Task
    BY <1>1, <2>1 DEF Task, Write
  <2>3. /\ tx[w.ref].status = "absent" /\ w.ref \in ParseableRefs
        /\ Warn(w.ref, CreationWarnings(w, up)) /\ Goto(h, next)
        /\ UNCHANGED <<pay, tx, hooks, acked, late, left>>
    BY <1>1, <1>2, <1>6 DEF PrepareCreate, Exists
  <2>4. /\ alarms \subseteq alarms' /\ alarms' \subseteq Refs \X RecordedAlarms
        /\ \A r \in ParseableRefs : <<r, "no_debitor">> \notin alarms'
    BY <1>1, <2>3, WarnEffect DEF CreationWarnings
  <2>5. /\ task' \in [Handlers -> Task] /\ task'[h] = next
        /\ \A g \in Handlers \ {h} : task'[g] = task[g]
    BY <2>2, <2>3, GotoEffect
  <2>6. SafeToWrite(write)'
    BY <1>1, <2>3 DEF SafeToWrite, AutoCreated
  <2>7. TaskIsSound(next)'
    BY <1>1, <2>3, <2>6 DEF TaskIsSound, OnWebhook, OnWrite
  <2>8. TaskIsSound(task[h])'
    BY <2>5, <2>7 DEF TaskIsSound
  <2> QED
    BY <1>1, <2>3, <2>4, <2>5, <2>8, MoveStep DEF TypeOK
<1>7. CASE PrepareUpdate(h)
  <2>0. PICK t \in Transaction : t = tx[w.ref]
    BY <1>1, <1>7, ExistingTransaction DEF PrepareUpdate, Exists
  <2> DEFINE write == [op |-> "put", ref |-> w.ref, doc |-> Updated(w, t, up)]
             next  == [step |-> "update", hook |-> w, write |-> write]
  <2>1. Updated(w, t, up) \in Transaction
    BY DocumentTypes
  <2>2. next \in Task
    BY <1>1, <2>1 DEF Task, Write
  <2>3. /\ Warn(w.ref, HoldReasons(w, t, up)) /\ Goto(h, next)
        /\ UNCHANGED <<pay, tx, hooks, acked, late, left>>
    BY <1>1, <1>2, <1>7, <2>0 DEF PrepareUpdate
  <2>4. /\ alarms \subseteq alarms' /\ alarms' \subseteq Refs \X RecordedAlarms
        /\ \A r \in ParseableRefs : <<r, "no_debitor">> \notin alarms'
        /\ \A kind \in HoldReasons(w, t, up) : <<w.ref, kind>> \in alarms'
    <3>1. /\ HoldReasons(w, t, up) \subseteq RecordedAlarms
          /\ "no_debitor" \notin HoldReasons(w, t, up)
      BY HoldReasonsMeaning, AlarmsAssumption DEF HoldKinds
    <3> QED
      BY <1>1, <2>3, <3>1, WarnEffect
  <2>5. /\ task' \in [Handlers -> Task] /\ task'[h] = next
        /\ \A g \in Handlers \ {h} : task'[g] = task[g]
    BY <2>2, <2>3, GotoEffect
  <2>6. SafeToWrite(write)'
    BY <1>1, <1>2, <2>3, <2>4, PreparedUpdateIsSafe
  <2>7. TaskIsSound(next)'
    BY <1>1, <2>3, <2>6 DEF TaskIsSound, OnWebhook, OnWrite
  <2>8. TaskIsSound(task[h])'
    BY <2>5, <2>7 DEF TaskIsSound
  <2> QED
    BY <1>1, <2>3, <2>4, <2>5, <2>8, MoveStep DEF TypeOK
<1> QED
  BY <1>3, <1>4, <1>5, <1>6, <1>7

-----------------------------------------------------------------------------
(* HandleWebhook, from the call that writes. *)

LEMMA UpdateTransactionStep ==
  ASSUME Inv, NEW h \in Handlers, UpdateTransaction(h)
  PROVE  Inv'
<1>1. PICK w \in WebhookDto, write \in Write :
        /\ w = task[h].hook /\ w \in hooks /\ IsSuccess(w) /\ w.ref \in Refs \cap OurRefs
        /\ write = task[h].write /\ SafeToWrite(write) /\ write.op = "put" /\ write.ref = w.ref
  BY HandlerFacts DEF UpdateTransaction, OnWebhook, OnWrite, TaskIsSound
<1>2. /\ tx' = Applied(write) /\ Confirm(h) /\ TypeOK /\ left' \in Nat
      /\ UNCHANGED <<pay, hooks, late, alarms>>
  BY <1>1 DEF UpdateTransaction, Inv, TypeOK
<1>3. Grows /\ tx' \in [Refs -> Transaction \cup {NoTransaction}] /\ ValidMeansPaid'
  BY <1>1, <1>2, WriteReaches
<1>4. /\ tx'[w.ref] = write.doc
      /\ \A r \in Refs \ {w.ref} : tx'[r] = tx[r]
      /\ write.doc.status \in {"pending", "valid"}
      /\ write.doc.status = "pending" => \E kind \in HoldKinds : <<w.ref, kind>> \in alarms
  BY <1>1, <1>2, AppliedEffect DEF SafeToWrite
<1>5. task' = [task EXCEPT ![h] = Idle] /\ acked' = acked \cup {w}
  BY <1>1, <1>2 DEF Confirm, Goto
<1>6. ConfirmedIsBooked'
  <2> SUFFICES ASSUME NEW v \in acked', IsSuccess(v)
               PROVE  IF v.ref \in OurRefs
                      THEN Booked(v.ref)' \/ <<v.ref, "no_debitor">> \in alarms'
                      ELSE <<v.ref, "wrong_prefix">> \in alarms'
    BY DEF ConfirmedIsBooked, IsSuccess, Booked
  <2>1. CASE v = w
    BY <1>1, <1>4, <2>1 DEF Booked
  <2>2. CASE v \in acked
    <3>1. v.ref \in Refs
      BY <1>2, <2>2 DEF TypeOK, WebhookDto
    <3> QED
      BY <1>2, <1>3, <2>2, <3>1 DEF Inv, ConfirmedIsBooked, Grows
  <2> QED
    BY <1>5, <2>1, <2>2
<1>7. PendingIsReported'
  BY <1>2, <1>4, <1>5 DEF Inv, PendingIsReported
<1>8. \A r \in ParseableRefs : <<r, "no_debitor">> \notin alarms'
  BY <1>2 DEF Inv
<1> QED
  BY <1>1, <1>2, <1>3, <1>5, <1>6, <1>7, <1>8, FinishStep DEF TypeOK

LEMMA AddTransactionStep ==
  ASSUME Inv, NEW h \in Handlers, AddTransaction(h)
  PROVE  Inv'
<1>1. PICK w \in WebhookDto, write \in Write :
        /\ w = task[h].hook /\ w \in hooks /\ IsSuccess(w) /\ w.ref \in Refs \cap OurRefs
        /\ write = task[h].write /\ SafeToWrite(write) /\ write.op = "add" /\ write.ref = w.ref
  BY HandlerFacts DEF AddTransaction, OnWebhook, OnWrite, TaskIsSound
<1> DEFINE next == [step |-> "report", hook |-> w]
<1>2. /\ tx' = Applied(write) /\ Goto(h, next) /\ TypeOK /\ left' \in Nat
      /\ UNCHANGED <<pay, hooks, acked, late, alarms>>
  BY <1>1 DEF AddTransaction, Inv, TypeOK
<1>3. /\ Grows /\ tx' \in [Refs -> Transaction \cup {NoTransaction}]
      /\ ValidMeansPaid' /\ ConfirmedIsBooked' /\ PendingIsReported'
  BY <1>1, <1>2, WriteReaches
<1>4. Booked(w.ref)'
  <2>1. CASE Exists(w.ref)
    BY <1>1, <1>2, <2>1 DEF Applied, SafeToWrite, Booked, TypeOK, Exists, Transaction,
                            NoTransaction, TransactionStatus
  <2>2. CASE ~Exists(w.ref)
    BY <1>1, <1>2, <2>2, AppliedEffect DEF SafeToWrite, Booked
  <2> QED
    BY <2>1, <2>2
<1>5. next \in Task
  BY DEF Task
<1>6. /\ task' \in [Handlers -> Task] /\ task'[h] = next
      /\ \A g \in Handlers \ {h} : task'[g] = task[g]
  BY <1>2, <1>5, GotoEffect
<1>7. TaskIsSound(next)'
  BY <1>1, <1>2, <1>4 DEF TaskIsSound, OnWebhook, OnWrite
<1>8. TaskIsSound(task[h])'
  BY <1>6, <1>7 DEF TaskIsSound
<1>9. \A g \in Handlers : TaskIsSound(task[g])'
  BY <1>3, <1>6, <1>8, RestIsSound
<1>10. \A q \in late' : SafeToWrite(q)'
  BY <1>2, <1>3, LateIsSafe
<1>11. TypeOK' /\ PaygateIsHonest'
  BY <1>2, <1>3, <1>6 DEF TypeOK, Inv, PaygateIsHonest
<1> QED
  BY <1>2, <1>3, <1>9, <1>10, <1>11 DEF Inv

LEMMA ReportCreatedStep ==
  ASSUME Inv, NEW h \in Handlers, ReportCreated(h)
  PROVE  Inv'
<1>1. task[h].hook.ref \in Refs /\ OnWebhook(task[h]) /\ Booked(task[h].hook.ref)
  BY HandlerFacts DEF ReportCreated, OnWebhook, TaskIsSound
<1>2. /\ alarms \subseteq alarms' /\ alarms' \subseteq Refs \X RecordedAlarms
      /\ \A r \in ParseableRefs : <<r, "no_debitor">> \notin alarms'
      /\ <<task[h].hook.ref, "created_pending">> \in alarms'
  BY <1>1, WarnEffect, AlarmsAssumption DEF ReportCreated
<1> QED
  BY <1>1, <1>2, ConfirmStep DEF ReportCreated

\* A call that writes fails, in a webhook or in a status-check.
LEMMA WriteFailsStep ==
  ASSUME Inv, NEW h \in Handlers, UpdateFails(h) \/ AddFails(h) \/ CheckUpdateFails(h)
  PROVE  Inv'
<1>1. /\ task[h].write \in Write /\ SafeToWrite(task[h].write) /\ TypeOK
      /\ task[h].step \in {"update", "add"} => task[h].hook.ref \in Refs
      /\ task[h].write.ref \in Refs
  BY HandlerFacts DEF UpdateFails, AddFails, CheckUpdateFails, OnWrite, OnWebhook, Inv
<1>2. /\ alarms \subseteq alarms' /\ alarms' \subseteq Refs \X RecordedAlarms
      /\ \A r \in ParseableRefs : <<r, "no_debitor">> \notin alarms'
  <2>1. PICK r \in Refs, kind \in {"update_failed", "create_failed"} : Warn(r, {kind})
    BY <1>1 DEF UpdateFails, AddFails, CheckUpdateFails
  <2> QED
    BY <2>1, WarnEffect
<1>3. Finish(h) /\ UNCHANGED <<pay, hooks>>
  BY DEF UpdateFails, AddFails, CheckUpdateFails
<1>4. CASE WriteFails(task[h].write)
  BY <1>1, <1>2, <1>3, <1>4, FailedWriteStep
<1>5. CASE UNCHANGED <<tx, late, left>>
  BY <1>1, <1>2, <1>3, <1>5, AbandonStep DEF TypeOK
<1> QED
  BY <1>4, <1>5 DEF UpdateFails, AddFails, CheckUpdateFails

-----------------------------------------------------------------------------
(* CheckPaymentStatus. *)

LEMMA CheckQueryStep ==
  ASSUME Inv, NEW h \in Handlers, NEW r \in Refs,
         StartCheck(h, r) \/ GetPayment(h) \/ GetPaymentFails(h)
  PROVE  Inv'
<1>0. TypeOK
  BY DEF Inv
<1>1. CASE StartCheck(h, r)
  <2> DEFINE next == [step |-> "check_query", ref |-> r]
  <2>1. next \in Task
    BY DEF Task
  <2>2. /\ task' \in [Handlers -> Task] /\ task'[h] = next
        /\ \A g \in Handlers \ {h} : task'[g] = task[g]
    BY <1>1, <2>1, GotoEffect DEF StartCheck
  <2>3. TaskIsSound(task[h])'
    BY <2>2 DEF TaskIsSound, OnWebhook, OnWrite
  <2> QED
    BY <1>0, <1>1, <2>2, <2>3, MoveStep DEF StartCheck, Inv, TypeOK
<1>2. CASE GetPayment(h)
  <2>1. PICK q \in Refs : q = task[h].ref
    BY <1>2, HandlerFacts DEF GetPayment
  <2>2. PICK up \in PaymentQueryResponse :
          /\ StillTrue(q, up) /\ QueryPaymentLink(q, up)
          /\ Goto(h, [step |-> "check_fetch", ref |-> q, up |-> up])
    BY <1>0, <1>2, <2>1, AnswerIsTrue DEF GetPayment
  <2> DEFINE next == [step |-> "check_fetch", ref |-> q, up |-> up]
  <2>3. UNCHANGED <<pay, tx, hooks, acked, late, alarms>> /\ left' \in Nat
    BY <1>0, <1>2, <2>2 DEF GetPayment, QueryPaymentLink, Disturb, TypeOK
  <2>4. next \in Task
    BY DEF Task
  <2>5. /\ task' \in [Handlers -> Task] /\ task'[h] = next
        /\ \A g \in Handlers \ {h} : task'[g] = task[g]
    BY <2>2, <2>4, GotoEffect
  <2>6. TaskIsSound(next)'
    BY <2>2, <2>3 DEF TaskIsSound, OnWebhook, OnWrite, StillTrue
  <2>7. TaskIsSound(task[h])'
    BY <2>5, <2>6 DEF TaskIsSound
  <2> QED
    BY <1>0, <2>3, <2>5, <2>7, MoveStep DEF Inv, TypeOK
<1>3. CASE GetPaymentFails(h)
  <2>1. task[h].ref \in Refs
    BY <1>3, HandlerFacts DEF GetPaymentFails
  <2>2. /\ alarms \subseteq alarms' /\ alarms' \subseteq Refs \X RecordedAlarms
        /\ \A q \in ParseableRefs : <<q, "no_debitor">> \notin alarms'
    BY <1>3, <2>1, WarnEffect DEF GetPaymentFails
  <2>3. left' \in Nat
    BY <1>0, <1>3 DEF GetPaymentFails, QueryFails, Disturb, TypeOK
  <2> QED
    BY <1>3, <2>2, <2>3, AbandonStep DEF GetPaymentFails
<1> QED
  BY <1>1, <1>2, <1>3

LEMMA CheckFetchStep ==
  ASSUME Inv, NEW h \in Handlers,
         CheckFetchFails(h) \/ CheckOnly(h) \/ CheckRefuses(h) \/ CheckPrepares(h)
  PROVE  Inv'
<1>1. PICK r \in Refs, up \in PaymentQueryResponse :
        r = task[h].ref /\ up = task[h].up /\ StillTrue(r, up) /\ TypeOK
  BY HandlerFacts
     DEF CheckFetchFails, CheckOnly, CheckRefuses, CheckPrepares, TaskIsSound, Inv
<1>2. CASE CheckFetchFails(h) \/ CheckOnly(h)
  <2>1. UNCHANGED <<pay, tx, hooks, late, alarms>> /\ Finish(h) /\ left' \in Nat
    BY <1>1, <1>2 DEF CheckFetchFails, CheckOnly, Disturb, TypeOK
  <2> QED
    BY <2>1, AbandonStep DEF Inv, TypeOK
<1>3. CASE CheckRefuses(h)
  <2>1. /\ alarms \subseteq alarms' /\ alarms' \subseteq Refs \X RecordedAlarms
        /\ \A q \in ParseableRefs : <<q, "no_debitor">> \notin alarms'
    BY <1>1, <1>3, WarnEffect DEF CheckRefuses, CheckRefusals
  <2> QED
    BY <1>1, <1>3, <2>1, AbandonStep DEF CheckRefuses, TypeOK
<1>4. CASE CheckPrepares(h)
  <2>1. PICK t \in Transaction : t = tx[r]
    BY <1>1, <1>4, ExistingTransaction DEF CheckPrepares
  <2> DEFINE write == [op |-> "put", ref |-> r, doc |-> Settled(t)]
             next  == [step |-> "check_update", write |-> write]
  <2>2. /\ PaidAtPaygate(up) /\ CheckRefusals(t, up) = {} /\ Goto(h, next)
        /\ UNCHANGED <<pay, tx, hooks, acked, late, alarms, left>>
    BY <1>1, <1>4, <2>1 DEF CheckPrepares
  <2>3. Settled(t) \in Transaction /\ Settled(t).status = "valid" /\ Settled(t).amount = t.amount
    BY DEF Settled, Transaction, TransactionStatus
  <2>4. next \in Task
    BY <2>3 DEF Task, Write
  <2>5. /\ task' \in [Handlers -> Task] /\ task'[h] = next
        /\ \A g \in Handlers \ {h} : task'[g] = task[g]
    BY <2>2, <2>4, GotoEffect
  <2>6. Backed(r, t.amount)
    <3>1. t.amount = up.captured /\ up.status = "OK"
      BY <2>2 DEF CheckRefusals, PaidAtPaygate
    <3>2. t.amount # NoAmount
      BY AmountsAssumption DEF Transaction
    <3> QED
      BY <1>1, <3>1, <3>2 DEF StillTrue, Backed
  <2>7. SafeToWrite(write)'
    BY <2>2, <2>3, <2>6 DEF SafeToWrite, Backed
  <2>8. TaskIsSound(next)'
    BY <2>7 DEF TaskIsSound, OnWebhook, OnWrite
  <2>9. TaskIsSound(task[h])'
    BY <2>5, <2>8 DEF TaskIsSound
  <2> QED
    BY <1>1, <2>2, <2>5, <2>9, MoveStep DEF Inv, TypeOK
<1> QED
  BY <1>2, <1>3, <1>4

LEMMA CheckUpdatesStep ==
  ASSUME Inv, NEW h \in Handlers, CheckUpdates(h)
  PROVE  Inv'
<1>1. task[h].write \in Write /\ SafeToWrite(task[h].write) /\ TypeOK
  BY HandlerFacts DEF CheckUpdates, OnWrite, Inv
<1>2. /\ tx' = Applied(task[h].write) /\ task' = [task EXCEPT ![h] = Idle]
      /\ UNCHANGED <<pay, hooks, acked, late, alarms, left>>
  BY DEF CheckUpdates, Finish, Goto
<1>3. /\ Grows /\ tx' \in [Refs -> Transaction \cup {NoTransaction}]
      /\ ValidMeansPaid' /\ ConfirmedIsBooked' /\ PendingIsReported'
  BY <1>1, <1>2, WriteReaches
<1> QED
  BY <1>1, <1>2, <1>3, FinishStep DEF Inv, TypeOK

-----------------------------------------------------------------------------
(* The process, and all steps together. *)

LEMMA CrashStep ==
  ASSUME Inv, Crash
  PROVE  Inv'
<1>1. /\ UNCHANGED <<pay, tx, hooks, acked, alarms>> /\ left' \in Nat
      /\ late' \subseteq late \cup InFlight
      /\ task' = [h \in Handlers |-> Idle]
  BY DEF Crash, Disturb, Inv, TypeOK
<1>2. ASSUME NEW write \in late'
      PROVE  write \in Write /\ SafeToWrite(write)
  <2>1. CASE write \in late
    BY <2>1 DEF Inv, TypeOK
  <2>2. CASE write \in InFlight
    <3>1. PICK h \in Handlers : OnWrite(task[h]) /\ write = task[h].write
      BY <2>2 DEF InFlight, OnWrite
    <3> QED
      BY <3>1, HandlerFacts
  <2> QED
    BY <1>1, <2>1, <2>2
<1>3. Grows
  BY <1>1 DEF Inv, Grows, Booked
<1>4. \A write \in late' : SafeToWrite(write)'
  BY <1>2, <1>3, SafeToWriteIsStable
<1>5. \A h \in Handlers : TaskIsSound(task[h])'
  BY <1>1 DEF TaskIsSound, Idle, OnWebhook, OnWrite
<1>6. TypeOK'
  BY <1>1, <1>2 DEF Inv, TypeOK, Task
<1>7. PaygateIsHonest' /\ ValidMeansPaid'
  BY <1>1 DEF Inv, PaygateIsHonest, ValidMeansPaid, SetByAdapter
<1>8. ConfirmedIsBooked' /\ PendingIsReported'
  BY <1>1 DEF Inv, ConfirmedIsBooked, PendingIsReported, Booked
<1> QED
  BY <1>1, <1>4, <1>5, <1>6, <1>7, <1>8 DEF Inv

LEMMA InitInv == Init => Inv
<1> SUFFICES ASSUME Init
             PROVE  Inv
  OBVIOUS
<1>1. NoPayment \in PaymentQueryResponse
  BY DEF NoPayment, PaymentQueryResponse, ResponseCodes
<1>2. TypeOK
  BY <1>1, DisturbancesAssumption DEF Init, TypeOK, Task, Transaction, TransactionStatus
<1>3. PaygateIsHonest
  BY DEF Init, PaygateIsHonest, NoPayment
<1>4. \A h \in Handlers : TaskIsSound(task[h])
  BY DEF Init, TaskIsSound, Idle, OnWebhook, OnWrite
<1>5. ASSUME NEW r \in Refs
      PROVE  tx[r].status \in {"absent", "tentative"}
  <2>1. tx[r] \in {NoTransaction} \cup
          [status : {"tentative"}, amount : Amounts, vat : {TRUE}, comment : {"service"}]
    BY DEF Init
  <2>2. CASE tx[r] = NoTransaction
    BY <2>2 DEF NoTransaction
  <2> QED
    BY <2>1, <2>2
<1>6. ValidMeansPaid /\ ConfirmedIsBooked /\ PendingIsReported
  BY <1>5 DEF Init, ValidMeansPaid, SetByAdapter, ConfirmedIsBooked, PendingIsReported
<1> QED
  BY <1>2, <1>3, <1>4, <1>6 DEF Init, Inv

LEMMA WebhookStep ==
  ASSUME Inv, NEW h \in Handlers, Webhook(h)
  PROVE  Inv'
<1>1. CASE \E w \in hooks : Unexpected(h, w) \/ WrongPrefix(h, w) \/ Accept(h, w)
  BY <1>1, ReceiveStep
<1>2. CASE ReadUpstream(h) \/ ReadUpstreamFails(h)
  BY <1>2, ReadUpstreamStep
<1>3. CASE \/ FetchFails(h) \/ CannotCreate(h) \/ PrepareCreate(h)
           \/ AbortUpdate(h) \/ PrepareUpdate(h)
  BY <1>3, FetchStep
<1>4. CASE UpdateTransaction(h)
  BY <1>4, UpdateTransactionStep
<1>5. CASE UpdateFails(h) \/ AddFails(h)
  BY <1>5, WriteFailsStep
<1>6. CASE AddTransaction(h)
  BY <1>6, AddTransactionStep
<1>7. CASE ReportCreated(h)
  BY <1>7, ReportCreatedStep
<1> QED
  BY <1>1, <1>2, <1>3, <1>4, <1>5, <1>6, <1>7 DEF Webhook, StartWebhook, ContinueWebhook

LEMMA StatusCheckStep ==
  ASSUME Inv, NEW h \in Handlers, StatusCheck(h)
  PROVE  Inv'
<1>1. CASE \E r \in Refs : StartCheck(h, r)
  BY <1>1, CheckQueryStep
<1>2. CASE GetPayment(h) \/ GetPaymentFails(h)
  <2>1. PICK r \in Refs : r = task[h].ref
    BY <1>2, HandlerFacts DEF GetPayment, GetPaymentFails
  <2> QED
    BY <1>2, <2>1, CheckQueryStep
<1>3. CASE CheckFetchFails(h) \/ CheckOnly(h) \/ CheckRefuses(h) \/ CheckPrepares(h)
  BY <1>3, CheckFetchStep
<1>4. CASE CheckUpdates(h)
  BY <1>4, CheckUpdatesStep
<1>5. CASE CheckUpdateFails(h)
  BY <1>5, WriteFailsStep
<1> QED
  BY <1>1, <1>2, <1>3, <1>4, <1>5 DEF StatusCheck

LEMMA NextInv == Inv /\ [Next]_vars => Inv'
<1> SUFFICES ASSUME Inv, [Next]_vars
             PROVE  Inv'
  OBVIOUS
<1>1. CASE Paygate
  BY <1>1, PaygateStep
<1>2. CASE PaymentService
  BY <1>2, PaymentServiceStep
<1>3. ASSUME NEW h \in Handlers, Webhook(h)
      PROVE  Inv'
  BY <1>3, WebhookStep
<1>4. ASSUME NEW h \in Handlers, StatusCheck(h)
      PROVE  Inv'
  BY <1>4, StatusCheckStep
<1>5. CASE Crash
  BY <1>5, CrashStep
<1>6. CASE UNCHANGED vars
  <2>1. UNCHANGED <<pay, tx, hooks, acked, late, alarms, task, left>>
    BY <1>6 DEF vars
  <2>2. Grows
    BY <2>1 DEF Grows, Booked
  <2>3. TypeOK' /\ PaygateIsHonest' /\ ValidMeansPaid'
    BY <2>1 DEF Inv, TypeOK, PaygateIsHonest, ValidMeansPaid, SetByAdapter
  <2>4. ConfirmedIsBooked' /\ PendingIsReported'
    BY <2>1 DEF Inv, ConfirmedIsBooked, PendingIsReported, Booked
  <2>5. (\A h \in Handlers : TaskIsSound(task[h])') /\ \A write \in late' : SafeToWrite(write)'
    BY <2>1, <2>2, RestIsSound, LateIsSafe
  <2> QED
    BY <2>1, <2>3, <2>4, <2>5 DEF Inv
<1> QED
  BY <1>1, <1>2, <1>3, <1>4, <1>5, <1>6 DEF Next

-----------------------------------------------------------------------------
(* The theorems. *)

\* The inductive invariant: what handlers know from the calls they have made stays true
\* while they wait for the next, and every write that is under way is safe to arrive.
THEOREM Invariance == Spec => []Inv
<1>1. Init => Inv
  BY InitInv
<1>2. Inv /\ [Next]_vars => Inv'
  BY NextInv
<1> QED
  BY <1>1, <1>2, PTL DEF Spec

\* Every call sends and stores whole, well-formed transactions and payments.
THEOREM TypeCorrectness == Spec => []TypeOK
<1>1. Inv => TypeOK
  BY DEF Inv
<1> QED
  BY <1>1, Invariance, PTL

\* Whatever the handlers overlap in and however old the webhooks they work on are, a
\* transaction that HandleWebhook or CheckPaymentStatus has set to valid belongs to a
\* payment that is OK at Paygate, and has an amount of that payment.
THEOREM ValidTransactionsArePaid == Spec => []ValidMeansPaid
<1>1. Inv => ValidMeansPaid
  BY DEF Inv
<1> QED
  BY <1>1, Invariance, PTL

\* HandleWebhook answers 200 to a success only when the transaction is booked, or when
\* it has reported why it makes none; Paygate will not repeat that webhook.
THEOREM ConfirmedWebhooksAreBooked == Spec => []ConfirmedIsBooked
<1>1. Inv => ConfirmedIsBooked
  BY DEF Inv
<1> QED
  BY <1>1, Invariance, PTL

\* No pending transaction is forgotten: HandleWebhook has reported it, or Paygate still
\* has the webhook to repeat that makes it do so.
THEOREM PendingTransactionsAreReported == Spec => []PendingIsReported
<1>1. Inv => PendingIsReported
  BY DEF Inv
<1> QED
  BY <1>1, Invariance, PTL
=============================================================================
