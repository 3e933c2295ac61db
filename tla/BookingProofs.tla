--------------------------- MODULE BookingProofs ---------------------------
(***************************************************************************)
(* PaygateAdapter implements Booking: with overlapping writers for any     *)
(* handlers and mishaps, without them for one handler that nothing comes   *)
(* after. The rest of the argument is about the writes under way, which    *)
(* Inv in PaygateAdapterProofs keeps safe.                                 *)
(***************************************************************************)
EXTENDS BookingRefinement, PaygateAdapterProofs

UnderWay == InFlight \cup late

-----------------------------------------------------------------------------
(* What steps do to payments, transactions and writes. *)

\* A handler's write reaches the payment service, and the handler is done with it.
WriteArrives(h) ==
  /\ OnWrite(task[h]) /\ ~OnWrite(task'[h])
  /\ tx' = Applied(task[h].write)

\* What a handler's step may do, as far as transactions are concerned.
HandlerShape(h) ==
  /\ UNCHANGED pay
  /\ tx' = tx \/ WriteArrives(h)
  /\ \A g \in Handlers \ {h} : task'[g] = task[g]
  /\ OnWrite(task[h]) => ~OnWrite(task'[h])
  /\ \/ late' = late
     \/ OnWrite(task[h]) /\ late' = late \cup {task[h].write} /\ "late" \in Disturbances \cup Unlimited
  /\ OnWrite(task'[h]) =>
       LET write == task'[h].write IN
         /\ UNCHANGED tx
         /\ write.op = "put" => tx[write.ref].status \in {"tentative", "pending"}

LEMMA GotoShape ==
  ASSUME TypeOK, NEW h \in Handlers, NEW next, Goto(h, next)
  PROVE  task'[h] = next /\ \A g \in Handlers \ {h} : task'[g] = task[g]
BY DEF TypeOK, Goto

\* Steps that write nothing and prepare no write.
LEMMA QuietShape ==
  ASSUME TypeOK, NEW h \in Handlers, NEW next, Goto(h, next), ~OnWrite(next),
         UNCHANGED <<pay, tx, late>>
  PROVE  HandlerShape(h)
BY GotoShape DEF HandlerShape

LEMMA PrepareShape ==
  ASSUME TypeOK, NEW h \in Handlers, NEW next, Goto(h, next), ~OnWrite(task[h]),
         next.write.op = "put" => tx[next.write.ref].status \in {"tentative", "pending"},
         UNCHANGED <<pay, tx, late>>
  PROVE  HandlerShape(h)
BY GotoShape DEF HandlerShape

LEMMA WriteShape ==
  ASSUME TypeOK, NEW h \in Handlers, NEW next, Goto(h, next), OnWrite(task[h]), ~OnWrite(next),
         UNCHANGED pay,
         \/ tx' = Applied(task[h].write) /\ UNCHANGED late
         \/ WriteFails(task[h].write)
         \/ UNCHANGED <<tx, late>>
  PROVE  HandlerShape(h)
<1>1. \/ tx' = Applied(task[h].write) /\ late' = late
      \/ tx' = tx /\ late' = late
      \/ tx' = tx /\ late' = late \cup {task[h].write} /\ "late" \in Disturbances \cup Unlimited
  BY DEF WriteFails, Disturb
<1> QED
  BY <1>1, GotoShape DEF HandlerShape, WriteArrives

LEMMA WebhookShape ==
  ASSUME TypeOK, NEW h \in Handlers, Webhook(h)
  PROVE  HandlerShape(h)
<1> USE DEF OnWrite
<1>1. ASSUME NEW w \in hooks, Unexpected(h, w) \/ WrongPrefix(h, w)
      PROVE  HandlerShape(h)
  BY <1>1 DEF Unexpected, WrongPrefix, Receive, Idle, HandlerShape
<1>2. ASSUME NEW w \in hooks, Accept(h, w)
      PROVE  HandlerShape(h)
  <2>1. PICK next : Goto(h, next) /\ next.step \in {"query", "fetch"}
    BY <1>2 DEF Accept
  <2>2. UNCHANGED <<pay, tx, late>>
    BY <1>2 DEF Accept
  <2> QED
    BY <2>1, <2>2, QuietShape
<1>3. CASE ReadUpstream(h) \/ ReadUpstreamFails(h)
  <2>1. \E up : Goto(h, [step |-> "fetch", hook |-> task[h].hook, up |-> up])
    BY Zenon, <1>3 DEF ReadUpstream, ReadUpstreamFails
  <2>2. PICK next : Goto(h, next) /\ next.step = "fetch"
    BY <2>1
  <2> QED
    BY <1>3, <2>2, QuietShape DEF ReadUpstream, ReadUpstreamFails
<1>4. CASE FetchFails(h) \/ CannotCreate(h) \/ AbortUpdate(h) \/ ReportCreated(h)
  <2>1. Goto(h, Idle) /\ ~OnWrite(Idle)
    BY <1>4 DEF FetchFails, CannotCreate, AbortUpdate, ReportCreated, Finish, Confirm, Idle
  <2> QED
    BY <1>4, <2>1, QuietShape DEF FetchFails, CannotCreate, AbortUpdate, ReportCreated
<1>5. CASE PrepareCreate(h)
  <2>1. PICK next : Goto(h, next) /\ next.write.op = "add"
    BY <1>5 DEF PrepareCreate
  <2> QED
    BY <1>5, <2>1, PrepareShape DEF PrepareCreate
<1>6. CASE PrepareUpdate(h)
  <2>1. PICK next : Goto(h, next) /\ tx[next.write.ref].status \in {"tentative", "pending"}
    BY <1>6 DEF PrepareUpdate
  <2> QED
    BY <1>6, <2>1, PrepareShape DEF PrepareUpdate
<1>7. CASE UpdateTransaction(h) \/ UpdateFails(h) \/ AddFails(h)
  <2>1. Goto(h, Idle) /\ ~OnWrite(Idle)
    BY <1>7 DEF UpdateTransaction, UpdateFails, AddFails, Finish, Confirm, Idle
  <2> QED
    BY <1>7, <2>1, WriteShape DEF UpdateTransaction, UpdateFails, AddFails
<1>8. CASE AddTransaction(h)
  <2>1. PICK next : Goto(h, next) /\ next.step = "report"
    BY <1>8 DEF AddTransaction
  <2> QED
    BY <1>8, <2>1, WriteShape DEF AddTransaction
<1> QED
  BY <1>1, <1>2, <1>3, <1>4, <1>5, <1>6, <1>7, <1>8 DEF Webhook, StartWebhook, ContinueWebhook

LEMMA CheckShape ==
  ASSUME TypeOK, NEW h \in Handlers, StatusCheck(h)
  PROVE  HandlerShape(h)
<1> USE DEF OnWrite
<1>1. ASSUME NEW r \in Refs, StartCheck(h, r)
      PROVE  HandlerShape(h)
  <2>1. PICK next : Goto(h, next) /\ next.step = "check_query"
    BY <1>1 DEF StartCheck
  <2> QED
    BY <1>1, <2>1, QuietShape DEF StartCheck
<1>2. CASE GetPayment(h)
  <2>1. PICK next : Goto(h, next) /\ next.step = "check_fetch"
    BY <1>2 DEF GetPayment
  <2> QED
    BY <1>2, <2>1, QuietShape DEF GetPayment
<1>3. CASE GetPaymentFails(h) \/ CheckFetchFails(h) \/ CheckOnly(h) \/ CheckRefuses(h)
  <2>1. Goto(h, Idle) /\ ~OnWrite(Idle)
    BY <1>3 DEF GetPaymentFails, CheckFetchFails, CheckOnly, CheckRefuses, Finish, Idle
  <2> QED
    BY <1>3, <2>1, QuietShape DEF GetPaymentFails, CheckFetchFails, CheckOnly, CheckRefuses
<1>4. CASE CheckPrepares(h)
  <2>1. PICK next : Goto(h, next) /\ next.write.ref = task[h].ref
    BY <1>4 DEF CheckPrepares
  <2>2. tx[task[h].ref].status \in {"tentative", "pending"}
    BY <1>4 DEF CheckPrepares, CheckRefusals
  <2> QED
    BY <1>4, <2>1, <2>2, PrepareShape DEF CheckPrepares
<1>5. CASE CheckUpdates(h) \/ CheckUpdateFails(h)
  <2>1. Goto(h, Idle) /\ ~OnWrite(Idle)
    BY <1>5 DEF CheckUpdates, CheckUpdateFails, Finish, Idle
  <2> QED
    BY <1>5, <2>1, WriteShape DEF CheckUpdates, CheckUpdateFails
<1> QED
  BY <1>1, <1>2, <1>3, <1>4, <1>5 DEF StatusCheck

\* What happens at Paygate happens to one payment, and OK is final.
PaygateShape ==
  /\ UNCHANGED <<tx, late, task>>
  /\ \E r \in Refs : \E payment :
       pay' = [pay EXCEPT ![r] = payment] /\ (pay[r].status = "OK" => payment.status = "OK")

LEMMA PaygateHasShape == Paygate => PaygateShape
<1> SUFFICES ASSUME NEW r \in Refs,
                    \/ \E amount \in Amounts : OpenPayment(r, amount)
                    \/ Authorize(r) \/ PayAtOnce(r)
                    \/ \E captured \in Amounts, code \in ResponseCodes : Capture(r, captured, code)
                    \/ Decline(r) \/ Expire(r)
             PROVE  PaygateShape
  BY Zenon DEF Paygate
<1>1. UNCHANGED <<tx, late, task>> /\ pay[r].status # "OK" /\ \E payment : PaymentMoves(r, payment)
  BY DEF OpenPayment, Authorize, PayAtOnce, Capture, Decline, Expire
<1> QED
  BY <1>1 DEF PaygateShape, PaymentMoves

CrashShape ==
  /\ UNCHANGED <<pay, tx>>
  /\ task' = [h \in Handlers |-> Idle]
  /\ late \subseteq late' /\ late' \subseteq UnderWay
  /\ late' = late \/ "late" \in Disturbances \cup Unlimited

LEMMA CrashHasShape == Crash => CrashShape
BY DEF Crash, CrashShape, UnderWay

\* All steps.
LEMMA StepShapes ==
  ASSUME TypeOK, [Next]_vars
  PROVE  \/ \E h \in Handlers : HandlerShape(h)
         \/ PaygateShape
         \/ \E write \in late : LateWrite(write)
         \/ \E r \in Refs, status \in {"valid", "deleted"} : AdminDecides(r, status)
         \/ CrashShape
         \/ UNCHANGED <<pay, tx, late, task>>
<1>1. CASE \E h \in Handlers : Webhook(h) \/ StatusCheck(h)
  BY <1>1, WebhookShape, CheckShape
<1>2. CASE Paygate \/ Crash
  BY <1>2, PaygateHasShape, CrashHasShape
<1>3. CASE PaymentService
  BY Zenon, <1>3 DEF PaymentService
<1>4. CASE UNCHANGED vars
  BY <1>4 DEF vars
<1> QED
  BY <1>1, <1>2, <1>3, <1>4 DEF Next

-----------------------------------------------------------------------------
(* The writes under way. *)

\* An update never makes a transaction: it replaces one.
PutsReplace == \A write \in UnderWay : write.op = "put" => Exists(write.ref)

LEMMA WritesAreSafe ==
  ASSUME Inv, NEW write \in UnderWay
  PROVE  write \in Write /\ SafeToWrite(write)
<1>1. CASE write \in late
  BY <1>1 DEF Inv, TypeOK
<1>2. CASE write \in InFlight
  BY <1>2, HandlerFacts DEF InFlight, OnWrite
<1> QED
  BY <1>1, <1>2 DEF UnderWay

\* A write that is new is one a handler has just prepared, for what it has just fetched.
LEMMA NewWrites ==
  ASSUME TypeOK, [Next]_vars, NEW write \in UnderWay'
  PROVE  \/ write \in UnderWay
         \/ UNCHANGED tx /\ (write.op = "put" => tx[write.ref].status \in {"tentative", "pending"})
<1> USE DEF UnderWay, InFlight, OnWrite
<1>1. CASE write \in late'
  <2>1. ASSUME NEW h \in Handlers, HandlerShape(h)
        PROVE  write \in UnderWay
    BY <1>1, <2>1 DEF HandlerShape
  <2> QED
    BY <1>1, <2>1, StepShapes DEF PaygateShape, LateWrite, AdminDecides, CrashShape
<1>2. CASE write \in InFlight'
  <2>1. PICK g \in Handlers : OnWrite(task'[g]) /\ write = task'[g].write
    BY <1>2
  <2>2. ASSUME NEW h \in Handlers, HandlerShape(h)
        PROVE  \/ write \in UnderWay
               \/ UNCHANGED tx /\ (write.op = "put" => tx[write.ref].status \in {"tentative", "pending"})
    <3>1. CASE g = h
      BY <2>1, <2>2, <3>1 DEF HandlerShape
    <3>2. CASE g # h
      BY <2>1, <2>2, <3>2 DEF HandlerShape
    <3> QED
      BY <3>1, <3>2
  <2>3. CASE UNCHANGED task
    BY <2>1, <2>3
  <2>4. CASE CrashShape
    BY <2>1, <2>4 DEF CrashShape, Idle
  <2> QED
    BY <2>2, <2>3, <2>4, StepShapes DEF PaygateShape, LateWrite, AdminDecides
<1> QED
  BY <1>1, <1>2

\* What happens to transactions: a write arrives, or an admin decides.
LEMMA TransactionSteps ==
  ASSUME TypeOK, [Next]_vars
  PROVE  \/ UNCHANGED tx
         \/ \E write \in UnderWay : tx' = Applied(write) /\ UNCHANGED pay
         \/ \E r \in Refs, status \in {"valid", "deleted"} : AdminDecides(r, status)
<1>1. ASSUME NEW h \in Handlers, HandlerShape(h)
      PROVE  UNCHANGED tx \/ \E write \in UnderWay : tx' = Applied(write) /\ UNCHANGED pay
  BY <1>1 DEF HandlerShape, WriteArrives, UnderWay, InFlight, OnWrite
<1>2. ASSUME NEW write \in late, LateWrite(write)
      PROVE  \E w \in UnderWay : tx' = Applied(w) /\ UNCHANGED pay
  BY <1>2 DEF LateWrite, UnderWay
<1> QED
  BY <1>1, <1>2, StepShapes DEF PaygateShape, CrashShape

LEMMA ExistingStay ==
  ASSUME Inv, [Next]_vars, NEW r \in Refs, Exists(r)
  PROVE  Exists(r)'
<1>1. TypeOK
  BY DEF Inv
<1>2. ASSUME NEW write \in UnderWay, tx' = Applied(write)
      PROVE  Exists(r)'
  <2>1. write \in Write
    BY WritesAreSafe
  <2>2. tx'[r] = tx[r] \/ tx'[r] \in Transaction
    BY <1>1, <1>2, <2>1, AppliedEffect DEF Write
  <2> QED
    BY <2>2 DEF Exists, Transaction, TransactionStatus
<1>3. ASSUME NEW q \in Refs, NEW status \in {"valid", "deleted"}, AdminDecides(q, status)
      PROVE  Exists(r)'
  <2>1. q # r => tx'[r] = tx[r]
    BY <1>1, <1>3 DEF AdminDecides, TypeOK
  <2>2. q = r => tx'[r] = [tx[r] EXCEPT !.status = status, !.vat = TRUE, !.comment = "admin"]
    BY <1>1, <1>3 DEF AdminDecides, TypeOK
  <2>3. tx[r] \in Transaction
    BY <1>1, ExistingTransaction
  <2>4. q = r => tx'[r].status = status
    BY <2>2, <2>3 DEF Transaction
  <2> QED
    BY <2>1, <2>4 DEF Exists
<1>4. ASSUME UNCHANGED tx
      PROVE  Exists(r)'
  BY <1>4 DEF Exists
<1>5. \/ UNCHANGED tx
      \/ \E write \in UnderWay : tx' = Applied(write)
      \/ \E q \in Refs, status \in {"valid", "deleted"} : AdminDecides(q, status)
  BY <1>1, TransactionSteps
<1> QED
  BY <1>2, <1>3, <1>4, <1>5

\* Nothing that is under way, and nobody, makes a booked transaction tentative or absent.
LEMMA BookedStay ==
  ASSUME Inv, [Next]_vars, NEW r \in Refs, Booked(r)
  PROVE  Booked(r)'
<1>1. TypeOK
  BY DEF Inv
<1>2. ASSUME NEW write \in UnderWay, tx' = Applied(write)
      PROVE  Booked(r)'
  <2>1. write \in Write /\ write.doc.status \in {"pending", "valid"}
    BY WritesAreSafe DEF SafeToWrite
  <2>2. tx'[r] = tx[r] \/ tx'[r] = write.doc
    BY <1>1, <1>2, <2>1, AppliedEffect
  <2> QED
    BY <2>1, <2>2 DEF Booked
<1>3. ASSUME NEW q \in Refs, NEW status \in {"valid", "deleted"}, AdminDecides(q, status)
      PROVE  Booked(r)'
  <2>1. q # r => tx'[r] = tx[r]
    BY <1>1, <1>3 DEF AdminDecides, TypeOK
  <2>2. q = r => tx'[r] = [tx[r] EXCEPT !.status = status, !.vat = TRUE, !.comment = "admin"]
    BY <1>1, <1>3 DEF AdminDecides, TypeOK
  <2>3. tx[r] \in Transaction
    BY <1>1, ExistingTransaction DEF Booked, Exists
  <2>4. q = r => tx'[r].status = status
    BY <2>2, <2>3 DEF Transaction
  <2> QED
    BY <2>1, <2>4 DEF Booked
<1>4. ASSUME UNCHANGED tx
      PROVE  Booked(r)'
  BY <1>4 DEF Booked
<1>5. \/ UNCHANGED tx
      \/ \E write \in UnderWay : tx' = Applied(write)
      \/ \E q \in Refs, status \in {"valid", "deleted"} : AdminDecides(q, status)
  BY <1>1, TransactionSteps
<1> QED
  BY <1>2, <1>3, <1>4, <1>5

LEMMA PutsReplaceStays == Inv /\ PutsReplace /\ [Next]_vars => PutsReplace'
<1> SUFFICES ASSUME Inv, PutsReplace, [Next]_vars, NEW write \in UnderWay', write.op = "put"
             PROVE  Exists(write.ref)'
  BY DEF PutsReplace
<1>1. TypeOK
  BY DEF Inv
<1>2. CASE write \in UnderWay
  <2>1. write.ref \in Refs
    BY <1>2, WritesAreSafe DEF Write
  <2> QED
    BY <1>2, <2>1, ExistingStay DEF PutsReplace
<1>3. CASE write \notin UnderWay
  BY <1>1, <1>3, NewWrites DEF Exists
<1> QED
  BY <1>2, <1>3

-----------------------------------------------------------------------------
(* What steps are in Booking. *)

\* A write that arrives puts a transaction up for review, holds or settles one.
LEMMA ArrivalBooks ==
  ASSUME Inv, NEW write \in UnderWay, tx' = Applied(write), UNCHANGED pay,
         write.op = "put" => Abstract!Writable(write.ref)
  PROVE  [Abstract!Next]_<<Paid, Book>>
<1> DEFINE r == write.ref
           status == write.doc.status
<1>1. write \in Write /\ SafeToWrite(write) /\ TypeOK
  BY WritesAreSafe DEF Inv
<1>2. r \in Refs /\ write.doc \in Transaction /\ write.op \in {"add", "put"}
  BY <1>1 DEF Write
<1>3. Paid' = Paid
  BY DEF Paid
<1>4. CASE write.op = "add" /\ Exists(r)
  BY <1>3, <1>4 DEF Applied, Book
<1>5. CASE ~(write.op = "add" /\ Exists(r))
  <2>1. tx' = [tx EXCEPT ![r] = write.doc]
    BY <1>5 DEF Applied
  <2>2. Book' = [Book EXCEPT ![r] = status]
    BY <1>1, <1>2, <2>1 DEF Book, TypeOK
  <2>3. Abstract!Become(r, status)
    BY <1>3, <2>2 DEF Abstract!Become
  <2>4. Book[r] = tx[r].status
    BY <1>2 DEF Book
  <2> HIDE DEF r, status
  <2>5. CASE write.op = "add"
    <3>1. status = "pending" /\ Book[r] = "absent"
      BY <1>1, <1>5, <2>4, <2>5 DEF SafeToWrite, Exists, r, status
    <3> QED
      BY <1>2, <2>3, <3>1 DEF Abstract!Next, Abstract!Register, r
  <2>6. CASE write.op = "put"
    <3>1. Abstract!Writable(r) /\ status \in {"pending", "valid"}
      BY <1>1, <2>6 DEF SafeToWrite, r, status
    <3>2. status = "valid" => r \in Paid
      BY <1>1, <1>2 DEF SafeToWrite, Backed, Paid, r, status
    <3> QED
      BY <1>2, <2>3, <3>1, <3>2 DEF Abstract!Next, Abstract!Hold, Abstract!Settle, r
  <2> QED
    BY <1>2, <2>5, <2>6
<1> QED
  BY <1>4, <1>5

\* An admin decides in Booking as well.
LEMMA DecisionBooks ==
  ASSUME TypeOK, NEW r \in Refs, NEW status \in {"valid", "deleted"}, AdminDecides(r, status)
  PROVE  [Abstract!Next]_<<Paid, Book>>
<1>1. Paid' = Paid
  BY DEF AdminDecides, Paid
<1>2. Exists(r) /\ tx[r].status \in IF status = "valid" THEN {"pending"} ELSE {"tentative", "pending", "valid"}
  BY DEF AdminDecides, Exists
<1>3. tx[r] \in Transaction
  BY <1>2, ExistingTransaction
<1>4. Book' = [Book EXCEPT ![r] = status]
  BY <1>3 DEF AdminDecides, Book, TypeOK, Transaction
<1>5. Book[r] = tx[r].status
  BY DEF Book
<1>6. Abstract!Become(r, status)
  BY <1>1, <1>4 DEF Abstract!Become
<1>7. Abstract!Decide(r)
  BY <1>2, <1>5, <1>6 DEF Abstract!Decide
<1> QED
  BY <1>7 DEF Abstract!Next

LEMMA PaymentBooks ==
  ASSUME TypeOK, PaygateShape
  PROVE  [Abstract!Next]_<<Paid, Book>>
<1>1. PICK r \in Refs : \E payment :
        pay' = [pay EXCEPT ![r] = payment] /\ (pay[r].status = "OK" => payment.status = "OK")
  BY DEF PaygateShape
<1>2. Book' = Book
  BY DEF PaygateShape, Book
<1>3. Paid' = Paid \/ Paid' = Paid \cup {r}
  BY <1>1 DEF Paid, TypeOK
<1> QED
  BY <1>2, <1>3 DEF Abstract!Next, Abstract!Pay

\* A step that touches neither payments nor transactions is none in Booking.
LEMMA QuietBooks ==
  ASSUME UNCHANGED <<pay, tx>>
  PROVE  [Abstract!Next]_<<Paid, Book>>
BY DEF Paid, Book

-----------------------------------------------------------------------------
(* Handlers that overlap. *)

LEMMA InitReplaces == Init => PutsReplace
BY DEF Init, PutsReplace, UnderWay, InFlight, Idle

LEMMA InitBooks == Init => Abstract!Init
<1> SUFFICES ASSUME Init
             PROVE  Abstract!Init
  OBVIOUS
<1>1. Paid = {}
  BY DEF Init, Paid, NoPayment
<1>2. ASSUME NEW r \in Refs
      PROVE  tx[r].status \in {"absent", "tentative"}
  <2>1. CASE tx[r] = NoTransaction
    BY <2>1 DEF NoTransaction
  <2>2. CASE tx[r] \in [status : {"tentative"}, amount : Amounts, vat : {TRUE}, comment : {"service"}]
    BY <2>2
  <2> QED
    BY <2>1, <2>2 DEF Init
<1>3. Book \in [Refs -> {"absent", "tentative"}]
  BY <1>2 DEF Book
<1> QED
  BY <1>1, <1>3 DEF Abstract!Init

\* All that is left is to say when an update that arrives is allowed.
LEMMA StepBooks ==
  ASSUME Inv, [Next]_vars,
         \A write \in UnderWay : write.op = "put" => Abstract!Writable(write.ref)
  PROVE  [Abstract!Next]_<<Paid, Book>>
<1>1. TypeOK
  BY DEF Inv
<1>2. ASSUME NEW write \in UnderWay, tx' = Applied(write), UNCHANGED pay
      PROVE  [Abstract!Next]_<<Paid, Book>>
  BY <1>2, ArrivalBooks
<1>3. ASSUME NEW r \in Refs, NEW status \in {"valid", "deleted"}, AdminDecides(r, status)
      PROVE  [Abstract!Next]_<<Paid, Book>>
  BY <1>1, <1>3, DecisionBooks
<1>4. ASSUME UNCHANGED tx
      PROVE  [Abstract!Next]_<<Paid, Book>>
  <2>1. PaygateShape \/ UNCHANGED pay
    BY <1>1, StepShapes DEF HandlerShape, LateWrite, AdminDecides, CrashShape
  <2> QED
    BY <1>1, <1>4, <2>1, PaymentBooks, QuietBooks
<1> QED
  BY <1>1, <1>2, <1>3, <1>4, TransactionSteps

LEMMA OverlappingWritable ==
  ASSUME Inv, PutsReplace, Overlap = TRUE, NEW write \in UnderWay, write.op = "put"
  PROVE  Abstract!Writable(write.ref)
<1>1. write.ref \in Refs
  BY WritesAreSafe DEF Write
<1>2. Exists(write.ref)
  BY DEF PutsReplace
<1>3. tx[write.ref].status \in {"tentative", "pending", "valid", "deleted"}
  BY <1>1, <1>2, ExistingTransaction DEF Inv, Transaction, TransactionStatus
<1>4. Book[write.ref] = tx[write.ref].status
  BY <1>1 DEF Book
<1> QED
  BY <1>3, <1>4 DEF Abstract!Writable, Abstract!Open, Abstract!Final

-----------------------------------------------------------------------------
(* One handler at a time, and nothing that comes after it. *)

Alone ==
  /\ \A g, h \in Handlers : g = h
  /\ {"late", "admin"} \cap (Disturbances \cup Unlimited) = {}

\* What a handler has prepared to update is still open when the update arrives.
OneAtATime ==
  /\ late = {}
  /\ \A write \in UnderWay : write.op = "put" => tx[write.ref].status \in {"tentative", "pending"}

LEMMA InitAlone == Init => OneAtATime
BY DEF Init, OneAtATime, UnderWay, InFlight, Idle

\* A write that arrives was the only one.
LEMMA ArrivalIsLast ==
  ASSUME TypeOK, Alone, OneAtATime, [Next]_vars
  PROVE  UNCHANGED tx \/ UnderWay' = {}
<1> USE DEF Alone
<1>1. ASSUME NEW h \in Handlers, HandlerShape(h), tx' # tx
      PROVE  UnderWay' = {}
  <2>1. late' = {}
    BY <1>1 DEF HandlerShape, OneAtATime
  <2>2. \A g \in Handlers : ~OnWrite(task'[g])
    BY <1>1 DEF HandlerShape, WriteArrives
  <2>3. InFlight' = {}
    BY <2>2 DEF InFlight, OnWrite
  <2> QED
    BY <2>1, <2>3 DEF UnderWay
<1>2. ASSUME NEW r \in Refs, NEW status \in {"valid", "deleted"}
      PROVE  ~AdminDecides(r, status)
  BY DEF AdminDecides, Disturb
<1>3. late = {}
  BY DEF OneAtATime
<1> QED
  BY <1>1, <1>2, <1>3, StepShapes DEF PaygateShape, CrashShape

LEMMA AloneStays == Inv /\ Alone /\ OneAtATime /\ [Next]_vars => OneAtATime'
<1> SUFFICES ASSUME Inv, Alone, OneAtATime, [Next]_vars
             PROVE  OneAtATime'
  OBVIOUS
<1>1. TypeOK
  BY DEF Inv
<1>2. late' = {}
  BY <1>1, StepShapes
     DEF HandlerShape, PaygateShape, LateWrite, AdminDecides, CrashShape, Alone, OneAtATime
<1>3. ASSUME NEW write \in UnderWay', write.op = "put"
      PROVE  tx'[write.ref].status \in {"tentative", "pending"}
  <2>1. UNCHANGED tx
    BY <1>1, <1>3, ArrivalIsLast
  <2> QED
    BY <1>1, <1>3, <2>1, NewWrites DEF OneAtATime
<1> QED
  BY <1>2, <1>3 DEF OneAtATime

LEMMA AloneWritable ==
  ASSUME Inv, OneAtATime, NEW write \in UnderWay, write.op = "put"
  PROVE  Abstract!Writable(write.ref)
<1>1. write.ref \in Refs
  BY WritesAreSafe DEF Write
<1> QED
  BY <1>1 DEF OneAtATime, Book, Abstract!Writable, Abstract!Open

LEMMA AloneFinalStays ==
  ASSUME Inv, Alone, OneAtATime, [Next]_vars, NEW r \in Refs
  PROVE  FinalStays(r)
<1>1. TypeOK
  BY DEF Inv
<1>2. ASSUME NEW write \in UnderWay, tx' = Applied(write)
      PROVE  FinalStays(r)
  <2>1. write \in Write
    BY WritesAreSafe
  <2>2. write.op \in {"add", "put"}
    BY <2>1 DEF Write
  <2>3. tx'[r] = tx[r] \/ (r = write.ref /\ (write.op = "add" => ~Exists(r)))
    BY <1>1, <1>2, <2>1, AppliedEffect
  <2> QED
    BY <2>2, <2>3 DEF FinalStays, OneAtATime, Exists
<1>3. ASSUME NEW q \in Refs, NEW status \in {"valid", "deleted"}
      PROVE  ~AdminDecides(q, status)
  BY DEF AdminDecides, Disturb, Alone
<1>4. UNCHANGED tx \/ \E write \in UnderWay : tx' = Applied(write)
  BY <1>1, <1>3, TransactionSteps
<1> QED
  BY <1>2, <1>4 DEF FinalStays

-----------------------------------------------------------------------------
(* The theorems. *)

\* An update that is under way has a transaction to replace, whatever comes between the
\* call that read it and the one that overwrites it: no PUT of HandleWebhook or
\* CheckPaymentStatus makes a transaction.
THEOREM UpdatesReplace == Spec => []PutsReplace
<1> QED
  BY InitReplaces, PutsReplaceStays, Invariance, PTL DEF Spec

\* What a confirmed webhook relies on: a transaction that has been booked stays booked,
\* whatever old document a handler or a late write overwrites it with.
BookedForGood == [][\A r \in Refs : Booked(r) => Booked(r)']_vars

THEOREM BookedTransactionsStay == Spec => BookedForGood
<1>1. Inv /\ [Next]_vars => [\A r \in Refs : Booked(r) => Booked(r)']_vars
  BY BookedStay
<1> QED
  BY <1>1, Invariance, PTL DEF Spec, BookedForGood

\* However many handlers overlap, and whatever gets lost, late or repeated, all the
\* adapter does to transactions is what Booking allows when writers overlap.
THEOREM AdapterImplementsBooking ==
  ASSUME Overlap = TRUE
  PROVE  Spec => ImplementsBooking
<1>1. Inv /\ PutsReplace /\ [Next]_vars => [Abstract!Next]_<<Paid, Book>>
  BY StepBooks, OverlappingWritable
<1> QED
  BY <1>1, InitBooks, Invariance, UpdatesReplace, PTL DEF Spec, ImplementsBooking, Abstract!Spec

\* With one handler, no admin and no write that comes late, HandleWebhook's check that
\* a transaction is not in a final status (webhook.go:231) still holds when its update
\* arrives, and so does CheckPaymentStatus's.
THEOREM UpdatesFindOpen ==
  ASSUME Alone
  PROVE  Spec => []OneAtATime
<1> QED
  BY InitAlone, AloneStays, Invariance, PTL DEF Spec

\* Such an adapter implements Booking without overlaps: what is settled or deleted stays.
THEOREM AdapterAloneImplementsBooking ==
  ASSUME Alone
  PROVE  Spec => ImplementsBooking
<1>1. Inv /\ OneAtATime /\ [Next]_vars => [Abstract!Next]_<<Paid, Book>>
  BY StepBooks, AloneWritable
<1> QED
  BY <1>1, InitBooks, Invariance, UpdatesFindOpen, PTL DEF Spec, ImplementsBooking, Abstract!Spec

\* Such an adapter takes no transaction out of a final status, in none of its fields.
THEOREM FinalTransactionsStay ==
  ASSUME Alone
  PROVE  Spec => FinalIsNotTouched
<1>1. Inv /\ OneAtATime /\ [Next]_vars => \A r \in Refs : FinalStays(r)
  BY AloneFinalStays
<1>2. Inv /\ OneAtATime /\ [Next]_vars =>
        [\A r \in Refs : FinalStays(r) \/ \E status \in {"valid", "deleted"} : AdminDecides(r, status)]_vars
  BY <1>1
<1> QED
  BY <1>2, Invariance, UpdatesFindOpen, PTL DEF Spec, FinalIsNotTouched
=============================================================================
