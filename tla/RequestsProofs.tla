--------------------------- MODULE RequestsProofs ---------------------------
(***************************************************************************)
(* What Paygate is asked to bill adds up, for every amount up to MaxAmount *)
(* and every VAT rate: the arithmetic first, then that no invalid order    *)
(* comes that far.                                                         *)
(***************************************************************************)
EXTENDS Requests, TLAPS

-----------------------------------------------------------------------------
(* The arithmetic. *)

LEMMA Division ==
  ASSUME NEW n \in Nat, NEW d \in Nat, d > 0
  PROVE  n \div d \in Nat /\ n % d \in Nat /\ n % d < d /\ n % d = n - d * (n \div d)
<1>1. n \div d \in Nat /\ n % d \in Nat /\ n % d < d
  OBVIOUS
<1>2. n % d = n - d * (n \div d)
  OBVIOUS
<1> QED
  BY <1>1, <1>2

\* Rounding is off by at most a half, whichever way an inexact half goes.
LEMMA NearestIsNear ==
  ASSUME NEW n \in Nat, NEW d \in Nat, d > 0, NEW exact \in BOOLEAN, NEW k \in Nearest(n, d, exact)
  PROVE  k \in Nat /\ 2 * (d * k - n) <= d /\ 2 * (n - d * k) <= d
<1> DEFINE low == n \div d
           rest == n % d
<1>1. low \in Nat /\ rest \in Nat /\ rest < d /\ rest = n - d * low
  BY Division
<1>2. \/ k = low /\ 2 * rest <= d
      \/ k = low + 1 /\ 2 * rest >= d
  BY <1>1 DEF Nearest
<1> HIDE DEF low, rest
<1>3. d * low \in Nat /\ d * (low + 1) = d * low + d
  BY <1>1
<1> QED
  BY <1>1, <1>2, <1>3

\* nexiCreateRequestFromApiRequest, for every amount up to MaxAmount and every rate that
\* passes the validation: net and tax add up to the amount, neither is below zero, and the tax is
\* the share that the tax rate says, but for the rounding of either.
THEOREM BillsAddUp ==
  ASSUME NEW amount \in Nat, amount > 0, amount <= MaxAmount,
         NEW rate \in Nat, rate <= MaxRate,
         NEW bill \in Bills(amount, rate)
  PROVE  bill \in [tax : Int, net : Int, taxRate : Int] /\ AddsUp(amount, bill)
<1>1. PICK tax \in Nearest(amount * rate, Hundred, IsExact(rate)),
           taxRate \in Nearest(rate, 10, IsExact(rate)) :
        bill = [tax |-> tax, net |-> amount - tax, taxRate |-> taxRate]
  BY DEF Bills
<1> DEFINE share == amount * rate
           said == amount * taxRate
<1>2. share \in Nat /\ IsExact(rate) \in BOOLEAN /\ Hundred \in Nat /\ Hundred > 0
  BY SMT DEF IsExact, Hundred
<1>3. tax \in Nat /\ 2 * (Hundred * tax - share) <= Hundred /\ 2 * (share - Hundred * tax) <= Hundred
  BY <1>2, NearestIsNear
<1>4. taxRate \in Nat /\ 10 * taxRate - rate <= 5 /\ rate - 10 * taxRate <= 5
  BY NearestIsNear, <1>2, SMT
<1>5. share <= amount * MaxRate
  BY SMT DEF MaxRate
<1>6. said \in Nat /\ 10 * said - share <= 5 * amount /\ share - 10 * said <= 5 * amount
  <2>1. 10 * said - share = amount * (10 * taxRate - rate)
    BY <1>4, SMT
  <2>2. \A off \in Int : off <= 5 => amount * off <= 5 * amount
    BY SMT
  <2>3. share - 10 * said = amount * (rate - 10 * taxRate)
    BY <1>4, SMT
  <2>4. said \in Nat
    BY <1>4, SMT
  <2> HIDE DEF share, said
  <2>5. share \in Nat
    BY <1>2 DEF share
  <2> QED
    BY <1>4, <2>1, <2>2, <2>3, <2>4, <2>5, SMT
<1> HIDE DEF share, said
<1>7. tax <= amount
  BY <1>2, <1>3, <1>5, SMT DEF Hundred, MaxRate
<1>8. /\ 2 * (10000 * tax - said) <= 10000 + amount
      /\ -2 * (10000 * tax - said) <= 10000 + amount
  BY <1>2, <1>3, <1>6, SMT DEF Hundred
<1> QED
  BY <1>1, <1>3, <1>4, <1>7, <1>8, SMT DEF AddsUp, said

-----------------------------------------------------------------------------
(* From the request to the session. *)

Billable(order) ==
  /\ order.amount \in Nat /\ order.amount > 0 /\ order.amount <= MaxAmount
  /\ order.rate \in Nat /\ order.rate <= MaxRate

OrdersAreBillable ==
  /\ DOMAIN task = Handlers
  /\ \A h \in Handlers : task[h].step \in {"attendee", "session"} => Billable(task[h].order)

BillingInv == OrdersAreBillable /\ SessionsAddUp

\* ValidatePaymentLinkRequest lets only billable orders through.
LEMMA ValidIsBillable ==
  ASSUME NEW order \in Orders, IsValid(order)
  PROVE  Billable(order)
<1>1. order.amount \in Int /\ order.rate \in Int /\ order.amount <= MaxAmount
  BY OrdersAssumption
<1>2. \A rate \in 0 .. MaxRate : rate \in Nat /\ rate <= MaxRate
  BY DEF MaxRate
<1> QED
  BY <1>1, <1>2 DEF IsValid, Billable

LEMMA RequestedAddsUp ==
  ASSUME NEW h \in Handlers, Billable(task[h].order), NEW session \in Requested(h)
  PROVE  AddsUp(session.amount, session.bill)
<1> DEFINE order == task[h].order
<1>1. PICK bill \in Bills(order.amount, order.rate) :
        session = [ref |-> task[h].ref, amount |-> order.amount, bill |-> bill]
  BY DEF Requested
<1>2. AddsUp(order.amount, bill)
  BY <1>1, BillsAddUp DEF Billable
<1> QED
  BY <1>1, <1>2

\* The steps that make a session.
LEMMA CreateStep ==
  ASSUME BillingInv, NEW h \in Handlers, CreateSession(h) \/ CreateSessionFails(h)
  PROVE  BillingInv'
<1>1. task[h].step = "session" /\ Billable(task[h].order)
  BY DEF CreateSession, CreateSessionFails, BillingInv, OrdersAreBillable
<1>2. \/ sessions' = sessions
      \/ \E session \in Requested(h) : sessions' = sessions \cup {session}
  BY DEF CreateSession, CreateSessionFails
<1>3. SessionsAddUp'
  BY <1>1, <1>2, RequestedAddsUp DEF BillingInv, SessionsAddUp
<1>4. task' = [task EXCEPT ![h] = Idle]
  BY DEF CreateSession, CreateSessionFails, Answer, Goto
<1>5. OrdersAreBillable'
  BY <1>4 DEF BillingInv, OrdersAreBillable, Idle
<1> QED
  BY <1>3, <1>5 DEF BillingInv

\* All others leave the sessions alone; what they do to a task is in three ways harmless.
LEMMA TaskMoves ==
  ASSUME BillingInv, UNCHANGED sessions, NEW h \in Handlers, NEW next, task' = [task EXCEPT ![h] = next],
         next.step \in {"attendee", "session"} => Billable(next.order)
  PROVE  BillingInv'
BY DEF BillingInv, OrdersAreBillable, SessionsAddUp

LEMMA NextBillingInv == BillingInv /\ [Next]_vars => BillingInv'
<1> SUFFICES ASSUME BillingInv, [Next]_vars
             PROVE  BillingInv'
  OBVIOUS
<1> USE DEF Answer, Goto
<1>1. ASSUME NEW h \in Handlers, AnswerAtOnce(h)
      PROVE  BillingInv'
  BY <1>1, TaskMoves DEF AnswerAtOnce, Idle
<1>2. ASSUME NEW h \in Handlers, CreatePaylink(h)
      PROVE  BillingInv'
  <2>1. ASSUME NEW r \in BilledRefs, NEW order \in Orders, AcceptCreate(h, r, order)
        PROVE  BillingInv'
    <3>1. Billable(order)
      BY <2>1, ValidIsBillable DEF AcceptCreate
    <3> QED
      BY <2>1, <3>1, TaskMoves DEF AcceptCreate
  <2>2. CASE GetAttendee(h)
    <3> DEFINE next == [task[h] EXCEPT !.step = "session"]
    <3>1. Billable(next.order)
      BY <2>2 DEF GetAttendee, BillingInv, OrdersAreBillable, Billable
    <3> QED
      BY <2>2, <3>1, TaskMoves DEF GetAttendee
  <2>3. CASE GetAttendeeFails(h)
    BY <2>3, TaskMoves DEF GetAttendeeFails, Idle
  <2>4. CASE CreateSession(h) \/ CreateSessionFails(h)
    BY <2>4, CreateStep
  <2>5. CASE SimulateSession(h)
    BY <2>5, TaskMoves DEF SimulateSession, Idle
  <2> QED
    BY <1>2, <2>1, <2>2, <2>3, <2>4, <2>5 DEF CreatePaylink
<1>3. ASSUME NEW h \in Handlers, ReadPaylink(h)
      PROVE  BillingInv'
  <2>1. ASSUME NEW endpoint \in {"payment", "check"}, NEW r \in Refs, AcceptPayment(h, endpoint, r)
        PROVE  BillingInv'
    BY <2>1, TaskMoves DEF AcceptPayment, Idle
  <2>2. CASE FindPayment(h) \/ FindPaymentFails(h) \/ SettlePayment(h)
    BY <2>2, TaskMoves DEF FindPayment, FindPaymentFails, SettlePayment, Idle
  <2> QED
    BY <1>3, <2>1, <2>2 DEF ReadPaylink
<1>4. ASSUME NEW h \in Handlers, WebhookRequest(h)
      PROVE  BillingInv'
  <2>1. ASSUME NEW s \in sessions, AcceptWebhook(h, s)
        PROVE  BillingInv'
    BY <2>1, TaskMoves DEF AcceptWebhook
  <2>2. CASE HandleWebhook(h) \/ HandleWebhookFails(h)
    BY <2>2 DEF HandleWebhook, HandleWebhookFails, Reply, Idle, BillingInv, OrdersAreBillable, SessionsAddUp
  <2> QED
    BY <1>4, <2>1, <2>2 DEF WebhookRequest
<1>5. ASSUME NEW h \in Handlers, SimulatorPage(h)
      PROVE  BillingInv'
  <2>1. ASSUME NEW r \in Refs, OpenPage(h, r)
        PROVE  BillingInv'
    BY <2>1, TaskMoves DEF OpenPage, Idle
  <2>2. ASSUME NEW g \in Handlers, CallWebhook(h, g)
        PROVE  BillingInv'
    BY <2>2 DEF CallWebhook, BillingInv, OrdersAreBillable, SessionsAddUp
  <2>3. CASE CallWebhookFails(h)
    BY <2>3 DEF CallWebhookFails, Idle, BillingInv, OrdersAreBillable, SessionsAddUp
  <2>4. CASE ShowResult(h)
    BY <2>4, TaskMoves DEF ShowResult, Idle
  <2> QED
    BY <1>5, <2>1, <2>2, <2>3, <2>4 DEF SimulatorPage
<1>6. CASE Restart
  BY <1>6 DEF Restart, Idle, BillingInv, OrdersAreBillable, SessionsAddUp
<1>7. CASE UNCHANGED vars
  BY <1>7 DEF vars, BillingInv, OrdersAreBillable, SessionsAddUp
<1> QED
  BY <1>1, <1>2, <1>3, <1>4, <1>5, <1>6, <1>7 DEF Next

\* For every amount up to MaxAmount and every VAT rate somebody may ask for, what CreatePaymentLink sends to
\* Paygate adds up.
THEOREM WhatIsBilledAddsUp == Spec => []SessionsAddUp
<1>1. Init => BillingInv
  BY DEF Init, Idle, BillingInv, OrdersAreBillable, SessionsAddUp
<1>2. BillingInv /\ [Next]_vars => BillingInv'
  BY NextBillingInv
<1>3. BillingInv => SessionsAddUp
  BY DEF BillingInv
<1> QED
  BY <1>1, <1>2, <1>3, PTL DEF Spec
=============================================================================
