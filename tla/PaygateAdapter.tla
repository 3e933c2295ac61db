--------------------------- MODULE PaygateAdapter ---------------------------
(***************************************************************************)
(* The settling of payments: webhooks and status-checks as they run, one   *)
(* goroutine per request, between Paygate, the adapter and the payment     *)
(* service (HandleWebhook and CheckPaymentStatus).                         *)
(*                                                                         *)
(* A handler is a sequence of calls to other systems. Between two calls it *)
(* only computes, writes protocol entries and sends mails, so one step of  *)
(* the model is one call together with everything up to the next one. The  *)
(* adapter shares no data between handlers and locks nothing: what they    *)
(* race for is the transaction in the payment service, which each of them  *)
(* reads in one call and overwrites, as a whole, in a later one.           *)
(*                                                                         *)
(* Paygate, its customers, the payment service and its admins are external *)
(* and modelled from how the code uses them.                               *)
(***************************************************************************)
EXTENDS Transactions

CONSTANTS
  Handlers,             \* requests that can be in progress at once
  UpstreamConfigured,   \* service.nexi_downstream is set
  RecordedAlarms,       \* the kinds of alarms a run keeps track of
  Disturbances,         \* the kinds of mishap that happen, see Kinds below
  Unlimited,            \* the kinds that may happen any number of times
  MaxDisturbances       \* how many of the others, in one behaviour (a bound)

ASSUME UpstreamAssumption == UpstreamConfigured \in BOOLEAN

\* omission  : Paygate answers without the optional amount
\* failure   : a call fails
\* late      : a write the adapter has given up arrives later
\* duplicate : a webhook is delivered again though it was confirmed
\* crash     : the process dies and is started again
\* reopen    : a payment that failed is attempted again, for another amount
\* admin     : somebody settles or deletes a transaction by hand
Kinds == {"omission", "failure", "late", "duplicate", "crash", "reopen", "admin"}
ASSUME DisturbancesAssumption ==
  Disturbances \subseteq Kinds /\ Unlimited \subseteq Kinds /\ MaxDisturbances \in Nat

\* The alarms: protocol entries of kind warning and error, each with a mail, except
\* "awaiting_capture", which is not mailed. Entries of kind success say nothing new.
HoldKinds == {"upstream_differs", "awaiting_capture", "upstream_not_ok",
              "webhook_not_ok", "amount_changed"}
AlarmKinds == HoldKinds \cup
  {"wrong_prefix", "unexpected_status", "read_failed", "already_final", "no_debitor",
   "created_differs", "create_failed", "created_pending", "update_failed",
   "get_failed", "check_blocked", "check_differs"}
ASSUME AlarmsAssumption ==
  /\ HoldKinds \cup {"created_pending", "no_debitor", "wrong_prefix"} \subseteq RecordedAlarms
  /\ RecordedAlarms \subseteq AlarmKinds

VARIABLES
  pay,      \* the payment at Paygate, per reference id
  tx,       \* the transaction in the payment service, per reference id
  hooks,    \* every webhook Paygate has sent; it repeats those not confirmed
  acked,    \* the webhooks the adapter has answered with 200
  late,     \* writes under way to the payment service that nobody waits for
  alarms,   \* <<ref, kind>>: warnings and errors in the protocol table
  task,     \* what each handler is doing, with its local variables
  left      \* disturbances the bound still allows

vars == <<pay, tx, hooks, acked, late, alarms, task, left>>

-----------------------------------------------------------------------------
Idle == [step |-> "idle"]

\* A write to the payment service: AddTransaction or UpdateTransaction.
Write == [op : {"add", "put"}, ref : Refs, doc : Transaction]

Task ==
  {Idle}
    \cup [step : {"query", "report"}, hook : WebhookDto]
    \cup [step : {"fetch"}, hook : WebhookDto, up : PaymentQueryResponse]
    \cup [step : {"add", "update"}, hook : WebhookDto, write : Write]
    \cup [step : {"check_query"}, ref : Refs]
    \cup [step : {"check_fetch"}, ref : Refs, up : PaymentQueryResponse]
    \cup [step : {"check_update"}, write : Write]

TypeOK ==
  /\ pay \in [Refs -> PaymentQueryResponse]
  /\ tx \in [Refs -> Transaction \cup {NoTransaction}]
  /\ hooks \subseteq WebhookDto
  /\ acked \subseteq hooks
  /\ late \subseteq Write
  /\ alarms \subseteq Refs \X RecordedAlarms
  /\ task \in [Handlers -> Task]
  /\ left \in Nat

NoPayment ==
  [status |-> "none", amount |-> NoAmount, captured |-> NoAmount, code |-> "other"]

Init ==
  /\ pay = [r \in Refs |-> NoPayment]
  /\ tx \in [Refs -> {NoTransaction} \cup
               [status : {"tentative"}, amount : Amounts, vat : {TRUE}, comment : {"service"}]]
  /\ hooks = {}
  /\ acked = {}
  /\ late = {}
  /\ alarms = {}
  /\ task = [h \in Handlers |-> Idle]
  /\ left = MaxDisturbances

Disturb(kind) ==
  \/ kind \in Unlimited /\ UNCHANGED left
  \/ kind \in Disturbances /\ left > 0 /\ left' = left - 1

-----------------------------------------------------------------------------
(* Paygate and its customers (external). *)

PaymentMoves(r, payment) == pay' = [pay EXCEPT ![r] = payment]
Notify(r, status) == hooks' = hooks \cup {[ref |-> r, status |-> status, amount |-> pay[r].amount]}

\* A paylink is made for the reference id, or made anew while nobody has used it;
\* one that failed can be replaced.
OpenPayment(r, amount) ==
  /\ \/ pay[r].status \in {"none", "open"} /\ UNCHANGED left
     \/ pay[r].status = "FAILED" /\ Disturb("reopen")
  /\ PaymentMoves(r, [NoPayment EXCEPT !.status = "open", !.amount = amount])
  /\ UNCHANGED <<tx, hooks, acked, late, alarms, task>>

Authorize(r) ==
  /\ UpstreamConfigured
  /\ pay[r].status = "open"
  /\ PaymentMoves(r, [pay[r] EXCEPT !.status = "AUTHORIZED", !.code = "00000000"])
  /\ Notify(r, "AUTHORIZED")
  /\ UNCHANGED <<tx, acked, late, alarms, task, left>>

PayAtOnce(r) ==
  /\ pay[r].status = "open"
  /\ PaymentMoves(r, [pay[r] EXCEPT !.status = "OK", !.captured = pay[r].amount, !.code = "00000000"])
  /\ Notify(r, "OK")
  /\ UNCHANGED <<tx, acked, late, alarms, task, left>>

\* Paygate sends no webhook for what happens after AUTHORIZED.
Capture(r, captured, code) ==
  /\ pay[r].status = "AUTHORIZED"
  /\ captured <= pay[r].amount
  /\ PaymentMoves(r, [pay[r] EXCEPT !.status = "OK", !.captured = captured, !.code = code])
  /\ UNCHANGED <<tx, hooks, acked, late, alarms, task, left>>

Decline(r) ==
  /\ UpstreamConfigured
  /\ pay[r].status = "open"
  /\ PaymentMoves(r, [pay[r] EXCEPT !.status = "FAILED"])
  /\ Notify(r, "FAILED")
  /\ UNCHANGED <<tx, acked, late, alarms, task, left>>

Expire(r) ==
  /\ pay[r].status = "AUTHORIZED"
  /\ PaymentMoves(r, [pay[r] EXCEPT !.status = "FAILED"])
  /\ UNCHANGED <<tx, hooks, acked, late, alarms, task, left>>

Paygate ==
  \E r \in Refs :
    \/ \E amount \in Amounts : OpenPayment(r, amount)
    \/ Authorize(r)
    \/ PayAtOnce(r)
    \/ \E captured \in Amounts, code \in ResponseCodes : Capture(r, captured, code)
    \/ Decline(r)
    \/ Expire(r)

-----------------------------------------------------------------------------
(* The payment service (external): it stores what it is sent, under its id. *)

Exists(r) == tx[r].status # "absent"

\* A second transaction with the same id changes nothing that a GET would show.
Applied(write) ==
  IF write.op = "add" /\ Exists(write.ref) THEN tx ELSE [tx EXCEPT ![write.ref] = write.doc]

\* A failed write: lost, or done with its answer lost, or still under way.
WriteFails(write) ==
  \/ Disturb("failure") /\ UNCHANGED <<tx, late>>
  \/ Disturb("failure") /\ tx' = Applied(write) /\ UNCHANGED late
  \/ Disturb("late") /\ late' = late \cup {write} /\ UNCHANGED tx

LateWrite(write) ==
  /\ tx' = Applied(write)
  /\ late' = late \ {write}
  /\ UNCHANGED <<pay, hooks, acked, alarms, task, left>>

\* An admin confirms a transaction, with its VAT rate, or deletes it.
AdminDecides(r, status) ==
  /\ tx[r].status \in IF status = "valid" THEN {"pending"} ELSE {"tentative", "pending", "valid"}
  /\ Disturb("admin")
  /\ tx' = [tx EXCEPT ![r].status = status, ![r].vat = TRUE, ![r].comment = "admin"]
  /\ UNCHANGED <<pay, hooks, acked, late, alarms, task>>

PaymentService ==
  \/ \E write \in late : LateWrite(write)
  \/ \E r \in Refs, status \in {"valid", "deleted"} : AdminDecides(r, status)

-----------------------------------------------------------------------------
(* What handlers have in common. *)

Goto(h, next) == task' = [task EXCEPT ![h] = next]
Warn(r, kinds) == alarms' = alarms \cup ({r} \X (kinds \cap RecordedAlarms))

\* The request ends: a webhook is confirmed with 200; whatever else is answered
\* leaves the webhook to be repeated.
Confirm(h) == Goto(h, Idle) /\ acked' = acked \cup {task[h].hook}
Finish(h) == Goto(h, Idle) /\ UNCHANGED acked

\* GET payments/getByTransId: a payment nobody has attempted yet is an error.
WithoutAmount(payment) == [payment EXCEPT !.amount = NoAmount, !.captured = NoAmount]
QueryPaymentLink(r, response) ==
  /\ pay[r].status \notin {"none", "open"}
  /\ \/ response = pay[r] /\ UNCHANGED left
     \/ response = WithoutAmount(pay[r]) /\ Disturb("omission")
Answers(r) == {pay[r], WithoutAmount(pay[r])}
QueryFails(r) ==
  \/ pay[r].status \in {"none", "open"} /\ UNCHANGED left
  \/ Disturb("failure")

-----------------------------------------------------------------------------
(* HandleWebhook. *)

Receive(h, w) ==
  /\ task[h] = Idle
  /\ w \in hooks
  /\ IF w \in acked THEN Disturb("duplicate") ELSE UNCHANGED left

IsSuccess(w) == w.status \in {"OK", "AUTHORIZED"}

\* unexpected(): reported and confirmed, nothing else.
Unexpected(h, w) ==
  /\ Receive(h, w)
  /\ ~IsSuccess(w)
  /\ Warn(w.ref, {"unexpected_status"})
  /\ acked' = acked \cup {w}
  /\ UNCHANGED <<pay, tx, hooks, late, task>>

\* success() for somebody else's reference id.
WrongPrefix(h, w) ==
  /\ Receive(h, w)
  /\ IsSuccess(w)
  /\ w.ref \notin OurRefs
  /\ Warn(w.ref, {"wrong_prefix"})
  /\ acked' = acked \cup {w}
  /\ UNCHANGED <<pay, tx, hooks, late, task>>

\* success() up to its first call. Without a Paygate to ask, the webhook is trusted.
Accept(h, w) ==
  /\ Receive(h, w)
  /\ IsSuccess(w)
  /\ w.ref \in OurRefs
  /\ Goto(h, IF UpstreamConfigured
             THEN [step |-> "query", hook |-> w]
             ELSE [step |-> "fetch", hook |-> w, up |-> MinimalInfo(w.status)])
  /\ UNCHANGED <<pay, tx, hooks, acked, late, alarms>>

ReadUpstream(h) ==
  /\ task[h].step = "query"
  /\ \E up \in Answers(task[h].hook.ref) :
       /\ QueryPaymentLink(task[h].hook.ref, up)
       /\ Goto(h, [step |-> "fetch", hook |-> task[h].hook, up |-> up])
  /\ UNCHANGED <<pay, tx, hooks, acked, late, alarms>>

ReadUpstreamFails(h) ==
  /\ task[h].step = "query"
  /\ QueryFails(task[h].hook.ref)
  /\ Warn(task[h].hook.ref, {"read_failed"})
  /\ Goto(h, [step |-> "fetch", hook |-> task[h].hook, up |-> MinimalInfo("unknown")])
  /\ UNCHANGED <<pay, tx, hooks, acked, late>>

\* Fault: the error is swallowed and the webhook confirmed.
FetchFailsConfirmed(h) ==
  /\ task[h].step = "fetch"
  /\ Disturb("failure")
  /\ Confirm(h)
  /\ UNCHANGED <<pay, tx, hooks, late, alarms>>

\* The four outcomes of GetTransactionByReferenceId: an error ...
FetchFails(h) ==
  /\ task[h].step = "fetch"
  /\ Disturb("failure")
  /\ Finish(h)
  /\ UNCHANGED <<pay, tx, hooks, late, alarms>>

\* Fault: that no transaction could be made for it is reported to nobody.
CannotCreateSilently(h) ==
  /\ task[h].step = "fetch"
  /\ ~Exists(task[h].hook.ref)
  /\ task[h].hook.ref \notin ParseableRefs
  /\ Confirm(h)
  /\ UNCHANGED <<pay, tx, hooks, late, alarms, left>>

\* ... no such transaction: createTransaction() up to its call ...
CannotCreate(h) ==
  /\ task[h].step = "fetch"
  /\ LET r == task[h].hook.ref IN
       /\ ~Exists(r)
       /\ r \notin ParseableRefs
       /\ Warn(r, {"no_debitor"})
  /\ Confirm(h)
  /\ UNCHANGED <<pay, tx, hooks, late, left>>

PrepareCreate(h) ==
  /\ task[h].step = "fetch"
  /\ LET w == task[h].hook IN
       /\ ~Exists(w.ref)
       /\ w.ref \in ParseableRefs
       /\ Warn(w.ref, CreationWarnings(w, task[h].up))
       /\ Goto(h, [step  |-> "add", hook |-> w,
                   write |-> [op |-> "add", ref |-> w.ref, doc |-> AutoCreated(w)]])
  /\ UNCHANGED <<pay, tx, hooks, acked, late, left>>

\* ... one in a final status ...
AbortUpdate(h) ==
  /\ task[h].step = "fetch"
  /\ tx[task[h].hook.ref].status \in {"valid", "deleted"}
  /\ Warn(task[h].hook.ref, {"already_final"})
  /\ Confirm(h)
  /\ UNCHANGED <<pay, tx, hooks, late, left>>

\* Fault: a transaction in a final status is updated like any other.
PrepareUpdateOfAny(h) ==
  /\ task[h].step = "fetch"
  /\ LET w == task[h].hook
         up == task[h].up
     IN  /\ Exists(w.ref)
         /\ Warn(w.ref, HoldReasons(w, tx[w.ref], up))
         /\ Goto(h, [step  |-> "update", hook |-> w,
                     write |-> [op |-> "put", ref |-> w.ref, doc |-> Updated(w, tx[w.ref], up)]])
  /\ UNCHANGED <<pay, tx, hooks, acked, late, left>>

\* ... or one to update: updateTransaction() up to its call.
PrepareUpdate(h) ==
  /\ task[h].step = "fetch"
  /\ LET w == task[h].hook
         up == task[h].up
     IN  /\ tx[w.ref].status \in {"tentative", "pending"}
         /\ Warn(w.ref, HoldReasons(w, tx[w.ref], up))
         /\ Goto(h, [step  |-> "update", hook |-> w,
                     write |-> [op |-> "put", ref |-> w.ref, doc |-> Updated(w, tx[w.ref], up)]])
  /\ UNCHANGED <<pay, tx, hooks, acked, late, left>>

UpdateTransaction(h) ==
  /\ task[h].step = "update"
  /\ tx' = Applied(task[h].write)
  /\ Confirm(h)
  /\ UNCHANGED <<pay, hooks, late, alarms, left>>

UpdateFails(h) ==
  /\ task[h].step = "update"
  /\ WriteFails(task[h].write)
  /\ Warn(task[h].hook.ref, {"update_failed"})
  /\ Finish(h)
  /\ UNCHANGED <<pay, hooks>>

AddTransaction(h) ==
  /\ task[h].step = "add"
  /\ tx' = Applied(task[h].write)
  /\ Goto(h, [step |-> "report", hook |-> task[h].hook])
  /\ UNCHANGED <<pay, hooks, acked, late, alarms, left>>

\* The payment service may also refuse to add what it already has.
AddFails(h) ==
  /\ task[h].step = "add"
  /\ \/ WriteFails(task[h].write)
     \/ Exists(task[h].hook.ref) /\ UNCHANGED <<tx, late, left>>
  /\ Warn(task[h].hook.ref, {"create_failed"})
  /\ Finish(h)
  /\ UNCHANGED <<pay, hooks>>

\* Fault: nobody is asked for a review.
ReportCreatedSilently(h) ==
  /\ task[h].step = "report"
  /\ Confirm(h)
  /\ UNCHANGED <<pay, tx, hooks, late, alarms, left>>

\* The request for a review comes after the call that creates the transaction.
ReportCreated(h) ==
  /\ task[h].step = "report"
  /\ Warn(task[h].hook.ref, {"created_pending"})
  /\ Confirm(h)
  /\ UNCHANGED <<pay, tx, hooks, late, left>>

StartWebhook(h, w) == Unexpected(h, w) \/ WrongPrefix(h, w) \/ Accept(h, w)

ContinueWebhook(h) ==
  \/ ReadUpstream(h) \/ ReadUpstreamFails(h)
  \/ FetchFails(h) \/ CannotCreate(h) \/ PrepareCreate(h) \/ AbortUpdate(h) \/ PrepareUpdate(h)
  \/ UpdateTransaction(h) \/ UpdateFails(h)
  \/ AddTransaction(h) \/ AddFails(h) \/ ReportCreated(h)

Webhook(h) == (\E w \in hooks : StartWebhook(h, w)) \/ ContinueWebhook(h)

-----------------------------------------------------------------------------
(* CheckPaymentStatus. *)

\* The request handler lets only ids with our prefix through.
StartCheck(h, r) ==
  /\ UpstreamConfigured
  /\ task[h] = Idle
  /\ r \in OurRefs
  /\ Goto(h, [step |-> "check_query", ref |-> r])
  /\ UNCHANGED <<pay, tx, hooks, acked, late, alarms, left>>

GetPayment(h) ==
  /\ task[h].step = "check_query"
  /\ \E up \in Answers(task[h].ref) :
       /\ QueryPaymentLink(task[h].ref, up)
       /\ Goto(h, [step |-> "check_fetch", ref |-> task[h].ref, up |-> up])
  /\ UNCHANGED <<pay, tx, hooks, acked, late, alarms>>

GetPaymentFails(h) ==
  /\ task[h].step = "check_query"
  /\ QueryFails(task[h].ref)
  /\ Warn(task[h].ref, {"get_failed"})
  /\ Finish(h)
  /\ UNCHANGED <<pay, tx, hooks, late>>

CheckFetchFails(h) ==
  /\ task[h].step = "check_fetch"
  /\ \/ Disturb("failure")
     \/ ~Exists(task[h].ref) /\ UNCHANGED left
  /\ Finish(h)
  /\ UNCHANGED <<pay, tx, hooks, late, alarms>>

\* Paygate does not say OK: the payment is returned as it is.
CheckOnly(h) ==
  /\ task[h].step = "check_fetch"
  /\ Exists(task[h].ref)
  /\ ~PaidAtPaygate(task[h].up)
  /\ Finish(h)
  /\ UNCHANGED <<pay, tx, hooks, late, alarms, left>>

CheckRefuses(h) ==
  /\ task[h].step = "check_fetch"
  /\ LET r == task[h].ref IN
       /\ Exists(r)
       /\ PaidAtPaygate(task[h].up)
       /\ CheckRefusals(tx[r], task[h].up) # {}
       /\ Warn(r, CheckRefusals(tx[r], task[h].up))
  /\ Finish(h)
  /\ UNCHANGED <<pay, tx, hooks, late, left>>

CheckPrepares(h) ==
  /\ task[h].step = "check_fetch"
  /\ LET r == task[h].ref IN
       /\ Exists(r)
       /\ PaidAtPaygate(task[h].up)
       /\ CheckRefusals(tx[r], task[h].up) = {}
       /\ Goto(h, [step  |-> "check_update",
                   write |-> [op |-> "put", ref |-> r, doc |-> Settled(tx[r])]])
  /\ UNCHANGED <<pay, tx, hooks, acked, late, alarms, left>>

CheckUpdates(h) ==
  /\ task[h].step = "check_update"
  /\ tx' = Applied(task[h].write)
  /\ Finish(h)
  /\ UNCHANGED <<pay, hooks, late, alarms, left>>

CheckUpdateFails(h) ==
  /\ task[h].step = "check_update"
  /\ WriteFails(task[h].write)
  /\ Warn(task[h].write.ref, {"update_failed"})
  /\ Finish(h)
  /\ UNCHANGED <<pay, hooks>>

StatusCheck(h) ==
  \/ \E r \in Refs : StartCheck(h, r)
  \/ GetPayment(h) \/ GetPaymentFails(h)
  \/ CheckFetchFails(h) \/ CheckOnly(h) \/ CheckRefuses(h) \/ CheckPrepares(h)
  \/ CheckUpdates(h) \/ CheckUpdateFails(h)

-----------------------------------------------------------------------------
(* The process. *)

InFlight == {task[h].write : h \in {g \in Handlers :
                                     task[g].step \in {"add", "update", "check_update"}}}

\* The process dies and is started again: it keeps nothing of a request, but a
\* write it had already sent may still arrive.
Crash ==
  /\ Disturb("crash")
  /\ \E sent \in SUBSET InFlight :
       /\ sent = {} \/ "late" \in Disturbances \cup Unlimited
       /\ late' = late \cup sent
  /\ task' = [h \in Handlers |-> Idle]
  /\ UNCHANGED <<pay, tx, hooks, acked, alarms>>

Next ==
  \/ Paygate
  \/ PaymentService
  \/ \E h \in Handlers : Webhook(h) \/ StatusCheck(h)
  \/ Crash

Spec == Init /\ [][Next]_vars

-----------------------------------------------------------------------------
(* Safety. *)

SetByAdapter(r) == tx[r].status = "valid" /\ tx[r].comment # "admin"
Booked(r) == tx[r].status \in {"pending", "valid", "deleted"}

\* A transaction the adapter has set to valid belongs to a payment that is OK at
\* Paygate, and its amount is the one that was due or the one that was captured:
\* whatever the handlers overlap in, and whatever old webhook they were started by.
ValidMeansPaid ==
  \A r \in Refs :
    SetByAdapter(r) => /\ pay[r].status = "OK"
                       /\ tx[r].amount \in {pay[r].amount, pay[r].captured}

\* Paygate stops repeating a webhook once it is confirmed, so a confirmed success
\* has left its mark: the transaction is no longer tentative or absent, or an alarm
\* says why there is none, which is all that a foreign reference id can leave.
ConfirmedIsBooked ==
  \A w \in acked :
    IsSuccess(w) =>
      IF w.ref \in OurRefs THEN Booked(w.ref) \/ <<w.ref, "no_debitor">> \in alarms
                           ELSE <<w.ref, "wrong_prefix">> \in alarms

\* A pending transaction waits for somebody: an alarm names it, or Paygate still
\* has a webhook to repeat, even if the process dies between creating it and asking
\* for its review.
PendingIsReported ==
  \A r \in Refs :
    tx[r].status = "pending" =>
      \/ \E kind \in HoldKinds \cup {"created_pending"} : <<r, kind>> \in alarms
      \/ r \in OurRefs /\ \E w \in hooks \ acked : w.ref = r /\ IsSuccess(w)

\* No step of a handler, nor a write that arrives late, takes a transaction out of a
\* final status (webhook.go:231: such an update is aborted).
FinalStays(r) == tx[r].status \in {"valid", "deleted"} => tx'[r] = tx[r]
FinalIsNotTouched ==
  [][\A r \in Refs : FinalStays(r) \/ \E status \in {"valid", "deleted"} : AdminDecides(r, status)]_vars

-----------------------------------------------------------------------------
(* Why they hold: what handlers know, and what they are about to write. *)

Backed(r, amount) == pay[r].status = "OK" /\ amount \in {pay[r].amount, pay[r].captured}

PaygateIsHonest ==
  /\ \A r \in Refs : pay[r].status # "none" => pay[r].amount # NoAmount
  /\ \A w \in hooks : w.status = "OK" => pay[w.ref].status = "OK" /\ w.amount = pay[w.ref].amount

\* OK is final at Paygate: an answer that says OK does not become outdated.
StillTrue(r, up) ==
  up.status = "OK" => /\ pay[r].status = "OK"
                      /\ up.amount \in {NoAmount, pay[r].amount}
                      /\ up.captured \in {NoAmount, pay[r].captured}

\* What may be written at any time, by a handler or by nobody any more.
SafeToWrite(write) ==
  LET r == write.ref
      doc == write.doc
  IN  /\ doc.status \in {"pending", "valid"}
      /\ doc.status = "valid" => Backed(r, doc.amount)
      /\ write.op = "put" /\ doc.status = "pending" =>
           \E kind \in HoldKinds : <<r, kind>> \in alarms
      /\ write.op = "add" =>
           /\ doc.status = "pending"
           /\ r \in OurRefs \cap ParseableRefs
           /\ tx[r].status # "tentative"
           /\ \E w \in hooks : w.ref = r /\ IsSuccess(w)

OnWebhook(t) == t.step \in {"query", "fetch", "add", "update", "report"}
OnWrite(t) == t.step \in {"add", "update", "check_update"}

TaskIsSound(t) ==
  /\ OnWebhook(t) => t.hook \in hooks /\ IsSuccess(t.hook) /\ t.hook.ref \in OurRefs
  /\ t.step = "fetch" => StillTrue(t.hook.ref, t.up)
  /\ t.step = "check_fetch" => StillTrue(t.ref, t.up)
  /\ OnWrite(t) => SafeToWrite(t.write) /\ t.write.op = IF t.step = "add" THEN "add" ELSE "put"
  /\ t.step \in {"add", "update"} => t.write.ref = t.hook.ref
  /\ t.step = "report" => Booked(t.hook.ref)

Inv ==
  /\ TypeOK
  /\ PaygateIsHonest
  /\ \A h \in Handlers : TaskIsSound(task[h])
  /\ \A write \in late : SafeToWrite(write)
  /\ \A r \in ParseableRefs : <<r, "no_debitor">> \notin alarms
  /\ ValidMeansPaid
  /\ ConfirmedIsBooked
  /\ PendingIsReported

-----------------------------------------------------------------------------
(* What comments and mails of the code say, and the code does not keep. *)

HasPreparedUpdate(h) == task[h].step = "fetch" /\ task'[h].step = "update"

\* When Paygate cannot be read, the mail says "set to pending - manual intervention
\* needed" (webhook.go:86), so the update that follows should not settle anything.
FailedReadIsHeld ==
  [][\A h \in Handlers :
       HasPreparedUpdate(h) /\ task[h].up.status = "unknown" =>
         task'[h].write.doc.status = "pending"]_vars

\* An amount that differs means "continue, but keep in pending!" (webhook.go:326) and a
\* mail asking to check, so no later webhook should settle the transaction by itself.
AmountDifferenceIsHeld ==
  [][\A h \in Handlers :
       HasPreparedUpdate(h) /\ <<task[h].hook.ref, "amount_changed">> \in alarms =>
         task'[h].write.doc.status = "pending"]_vars

\* A transaction the adapter made up has no VAT rate and "will be manually checked
\* anyway" (webhook.go:155), so none should be valid before somebody has done so.
AutoCreatedIsReviewed == \A r \in Refs : tx[r].status = "valid" => tx[r].vat

-----------------------------------------------------------------------------
(* Liveness. *)

\* A handler always goes on: each of its calls has a timeout.
Continue(h) == task[h] # Idle /\ (Webhook(h) \/ StatusCheck(h))

\* Paygate repeats a webhook until it is confirmed.
Deliver(w) == w \notin acked /\ \E h \in Handlers : StartWebhook(h, w)

\* The payment service asks for a status-check again and again.
Recheck(r) == \E h \in Handlers : StartCheck(h, r)

Retries == /\ \A h \in Handlers : WF_vars(Continue(h))
           /\ SF_vars(\E w \in hooks : Deliver(w))
Rechecks == \A r \in OurRefs : SF_vars(Recheck(r))

FairSpec == Spec /\ Retries /\ Rechecks

\* However calls fail and the process dies, a payment Paygate reported as a success is
\* in the end booked, or reported as one that cannot be.
ReportedIsBooked ==
  \A w \in WebhookDto :
    IsSuccess(w) /\ w.ref \in OurRefs =>
      (w \in hooks ~> Booked(w.ref) \/ <<w.ref, "no_debitor">> \in alarms)

\* Status-checks make up for webhooks that Paygate never sends and for updates that
\* overlapping handlers have undone: a transaction whose payment is OK is in the end
\* settled or deleted for good, unless an alarm says that the amounts disagree.
PaidIsSettled ==
  \A r \in OurRefs :
    PaidAtPaygate(pay[r]) ~>
      [](\/ tx[r].status \in {"valid", "deleted"}
         \/ {<<r, "check_differs">>, <<r, "no_debitor">>} \cap alarms # {})
=============================================================================
