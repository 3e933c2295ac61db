---------------------------- MODULE Transactions ----------------------------
(***************************************************************************)
(* The data the adapter passes around and the decisions it takes on it:    *)
(* what a webhook or a status-check makes of a payment-service transaction *)
(* and of Paygate's answer (service/paymentlinksrv/webhook.go and          *)
(* checkstatus.go). There is no state here; PaygateAdapter adds it.        *)
(*                                                                         *)
(* Data is kept only as far as a decision looks at it. An amount stands    *)
(* for a (value, currency) pair, since every comparison in the code is of  *)
(* both; NoAmount is the pair (0, "") the code falls back to when Paygate  *)
(* sends none.                                                             *)
(***************************************************************************)
EXTENDS Naturals

CONSTANTS
  Refs,           \* reference ids (transId at Paygate, ID in the payment service)
  OurRefs,        \* those that start with service.transaction_id_prefix
  ParseableRefs,  \* those with five tokens and a numeric debitor id
  Amounts         \* amounts a payment or a transaction can have

NoAmount == 0

ASSUME RefsAssumption == OurRefs \subseteq Refs /\ ParseableRefs \subseteq Refs
ASSUME AmountsAssumption == Amounts \subseteq Nat \ {NoAmount}

-----------------------------------------------------------------------------
(* The records. *)

\* A webhook: FAILED stands for every status but OK and AUTHORIZED.
WebhookDto == [ref : Refs, status : {"OK", "AUTHORIZED", "FAILED"}, amount : Amounts]

\* Paygate's answer about a payment. AUTHORIZED stands for CAPTURE_REQUEST too:
\* the code treats them alike. "unknown" is the adapter's own, for a failed read.
ResponseCodes == {"00000000", "other"}
PaymentQueryResponse ==
  [status   : {"none", "open", "AUTHORIZED", "OK", "FAILED", "unknown"},
   amount   : Amounts \cup {NoAmount},
   captured : Amounts \cup {NoAmount},
   code     : ResponseCodes]

\* A transaction of the payment service. vat says whether its VAT rate was ever
\* set by somebody who knew it; comment says who wrote the transaction last.
TransactionStatus == {"tentative", "pending", "valid", "deleted"}
Transaction ==
  [status : TransactionStatus, amount : Amounts, vat : BOOLEAN,
   comment : {"service", "cc", "auto", "admin"}]
NoTransaction == [status |-> "absent"]

-----------------------------------------------------------------------------
(* Webhooks. *)

\* What the handler takes Paygate to have said when it could not ask, or when no
\* Paygate is configured: a status, and no amount.
MinimalInfo(status) ==
  [status |-> status, amount |-> NoAmount, captured |-> NoAmount, code |-> "other"]

\* Fault: what Paygate says of the status is not looked at.
HoldChecksIgnoringStatus(data, transaction, upstream) ==
  [upstream_differs |-> upstream.amount \notin {NoAmount, data.amount},
   webhook_not_ok   |-> upstream.amount = NoAmount /\ data.status # "OK",
   amount_changed   |-> transaction.amount # data.amount]

\* Why an update keeps the transaction pending. "awaiting_capture" is the one reason
\* that is only written to the protocol; the others are mailed as well.
HoldChecks(data, transaction, upstream) ==
  LET notOK           == upstream.amount # NoAmount /\ upstream.status # "OK"
      expectedAtFirst == upstream.status = "AUTHORIZED" /\ transaction.status = "tentative"
  IN  [upstream_differs |-> upstream.amount \notin {NoAmount, data.amount},
       awaiting_capture |-> notOK /\ expectedAtFirst,
       upstream_not_ok  |-> notOK /\ ~expectedAtFirst,
       webhook_not_ok   |-> upstream.amount = NoAmount /\ data.status # "OK",
       amount_changed   |-> transaction.amount # data.amount]
HoldReasons(data, transaction, upstream) ==
  LET check == HoldChecks(data, transaction, upstream)
  IN  {reason \in DOMAIN check : check[reason]}

\* Fault: the amount is taken from Paygate's answer, which may have none.
UpdatedFromUpstream(data, transaction, upstream) ==
  [transaction EXCEPT
     !.status  = IF HoldReasons(data, transaction, upstream) = {} THEN "valid" ELSE "pending",
     !.amount  = upstream.amount,
     !.comment = "cc"]

\* The document an update PUTs: the fetched transaction, with the webhook's amount.
Updated(data, transaction, upstream) ==
  [transaction EXCEPT
     !.status  = IF HoldReasons(data, transaction, upstream) = {} THEN "valid" ELSE "pending",
     !.amount  = data.amount,
     !.comment = "cc"]

\* The transaction made up for a webhook that matches none, and the warning for it.
AutoCreated(data) ==
  [status |-> "pending", amount |-> data.amount, vat |-> FALSE, comment |-> "auto"]
CreationWarnings(data, upstream) ==
  IF upstream.amount \in {NoAmount, data.amount} THEN {} ELSE {"created_differs"}

-----------------------------------------------------------------------------
(* Status-checks. *)

\* Only a payment in this state makes a status-check do anything.
PaidAtPaygate(payment) == payment.status = "OK" /\ payment.code = "00000000"

\* Fault: only transactions no webhook has touched yet are settled.
CheckRefusalsOfPending(transaction, payment) ==
  IF transaction.status # "tentative" THEN {"check_blocked"}
  ELSE IF transaction.amount # payment.captured THEN {"check_differs"}
  ELSE {}

\* Why a status-check of a paid payment refuses to touch the transaction (409).
CheckRefusals(transaction, payment) ==
  IF transaction.status \notin {"pending", "tentative"} THEN {"check_blocked"}
  ELSE IF transaction.amount # payment.captured THEN {"check_differs"}
  ELSE {}

\* The document a status-check PUTs.
Settled(transaction) == [transaction EXCEPT !.status = "valid", !.comment = "cc"]
=============================================================================
