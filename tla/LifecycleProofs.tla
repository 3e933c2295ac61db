-------------------------- MODULE LifecycleProofs --------------------------
(* The invariants of Lifecycle, for any number of requests. *)
EXTENDS Lifecycle, TLAPS

LEMMA InitLifecycle == Init => LifecycleInv
<1>1. Init => TypeOK
  BY Zenon DEF Init, TypeOK
<1>2. Init => ~closing /\ ~(signals > 0) /\ alive /\ main = "configure"
  BY DEF Init
<1> QED
  BY <1>1, <1>2 DEF LifecycleInv, Stopping, Started, ZeroMeansAsked, ServedWithDatabase

\* The types, kept by every step.
LEMMA TypesStay == TypeOK /\ [Next]_vars => TypeOK'
<1> SUFFICES ASSUME TypeOK, [Next]_vars
             PROVE  TypeOK'
  OBVIOUS
<1> USE DEF TypeOK, MainAt, Go, Return, Exit
<1>1. CASE LoadConfiguration
  BY Zenon, <1>1 DEF LoadConfiguration
<1>2. CASE OpenDatabase
  BY Zenon, <1>2 DEF OpenDatabase
<1>3. CASE Migrate \/ CreateClients
  BY Zenon, <1>3 DEF Migrate, CreateClients
<1>4. CASE Subscribe \/ Route
  BY Zenon, <1>4 DEF Subscribe, Route
<1>5. CASE Listen \/ StopServing \/ ServingFails
  BY Zenon, <1>5 DEF Listen, StopServing, ServingFails
<1>6. CASE CloseDatabase \/ Leave
  BY Zenon, <1>6 DEF CloseDatabase, Leave
<1>7. CASE Signal
  BY Zenon, <1>7 DEF Signal
<1>8. CASE Shutdown
  <2>1. signals' \in {0, 1}
    BY <1>8 DEF Shutdown
  <2> QED
    BY Zenon, <1>8, <2>1 DEF Shutdown
<1>9. CASE ShutdownReturns \/ ShutdownTimesOut
  BY Zenon, <1>9 DEF ShutdownReturns, ShutdownTimesOut
<1>10. ASSUME NEW r \in Requests, Begin(r) \/ GetRepositoryFails(r) \/ End(r)
       PROVE  TypeOK'
  <2>1. request' \in [Requests -> {"none", "running"}]
    BY <1>10 DEF Begin, GetRepositoryFails, End
  <2> QED
    BY Zenon, <1>10, <2>1 DEF Begin, GetRepositoryFails, End
<1>11. CASE UNCHANGED vars
  <2>1. /\ main' = main /\ stopper' = stopper /\ signals' = signals /\ asked' = asked
        /\ closing' = closing /\ repository' = repository /\ request' = request
        /\ alive' = alive /\ code' = code
    BY <1>11 DEF vars
  <2> QED
    BY <2>1
<1> HIDE DEF TypeOK
<1> QED
  BY <1>1, <1>2, <1>3, <1>4, <1>5, <1>6, <1>7, <1>8, <1>9, <1>10, <1>11 DEF Next, Main, Stopper

LEMMA NextLifecycle == LifecycleInv /\ [Next]_vars => LifecycleInv'
<1> SUFFICES ASSUME LifecycleInv, [Next]_vars
             PROVE  LifecycleInv'
  OBVIOUS
<1>0. TypeOK'
  BY TypesStay DEF LifecycleInv
<1> USE DEF LifecycleInv, Stopping, Started, ZeroMeansAsked, ServedWithDatabase,
            MainAt, Go, Return, Exit
<1>1. CASE LoadConfiguration
  <2>1. /\ main' \in {"configure", "open"} /\ (alive' => main' = "open")
        /\ UNCHANGED <<signals, asked, closing>>
    BY Zenon, <1>1 DEF LoadConfiguration
  <2>2. code' = code \/ code' = 1
    BY Zenon, <1>1 DEF LoadConfiguration
  <2>3. alive' = alive \/ code' = 1
    BY Zenon, <1>1 DEF LoadConfiguration
  <2> QED
    BY <1>0, <1>1, <2>1, <2>2, <2>3
<1>2. CASE OpenDatabase
  <2>1. /\ main' \in {"open", "migrate"} /\ UNCHANGED <<signals, asked, closing>>
        /\ main' = "migrate" => repository' = "open"
    BY <1>2 DEF OpenDatabase
  <2>2. alive' = alive \/ code' = 1
    BY Zenon, <1>2 DEF OpenDatabase
  <2>3. code' = code \/ code' = 1
    BY Zenon, <1>2 DEF OpenDatabase
  <2> QED
    BY <1>0, <1>2, <2>1, <2>2, <2>3
<1>3. CASE Migrate \/ CreateClients
  BY <1>0, <1>3 DEF Migrate, CreateClients
<1>4. CASE Subscribe \/ Route
  BY <1>0, <1>4 DEF Subscribe, Route
<1>5. CASE Listen \/ StopServing \/ ServingFails
  BY <1>0, <1>5 DEF Listen, StopServing, ServingFails
<1>6. CASE CloseDatabase \/ Leave
  BY <1>0, <1>6 DEF CloseDatabase, Leave
<1>7. CASE Signal
  <2>1. CASE Subscribed
    BY <1>0, <1>7, <2>1 DEF Signal
  <2>2. CASE ~Subscribed
    <3>1. ~alive' /\ code' # 0 /\ UNCHANGED <<main, signals, asked, closing>>
      BY <1>7, <2>2 DEF Signal, Killed
    <3> QED
      BY <1>0, <3>1 DEF Subscribed
  <2> QED
    BY <2>1, <2>2
<1>8. CASE Stopper
  BY <1>0, <1>8 DEF Stopper, Shutdown, ShutdownReturns, ShutdownTimesOut
<1>9. ASSUME NEW r \in Requests, Begin(r) \/ GetRepositoryFails(r) \/ End(r)
      PROVE  LifecycleInv'
  BY <1>0, <1>9 DEF Begin, GetRepositoryFails, End
<1>10. CASE UNCHANGED vars
  BY <1>0, <1>10 DEF vars
<1> QED
  BY <1>1, <1>2, <1>3, <1>4, <1>5, <1>6, <1>7, <1>8, <1>9, <1>10 DEF Next, Main

\* The whole invariant: the types, and why neither of the next two can fail.
THEOREM LifecycleInvariance == Spec => []LifecycleInv
BY InitLifecycle, NextLifecycle, PTL DEF Spec

\* However many requests are in progress and whenever the signals come, the process
\* returns 0 only when it was asked to stop.
THEOREM ZeroOnlyWhenAsked == Spec => []ZeroMeansAsked
<1>1. LifecycleInv => ZeroMeansAsked
  BY DEF LifecycleInv
<1> QED
  BY <1>1, InitLifecycle, NextLifecycle, PTL DEF Spec

\* The server never accepts requests without an open database.
THEOREM ServesOnlyWithDatabase == Spec => []ServedWithDatabase
<1>1. LifecycleInv => ServedWithDatabase
  BY DEF LifecycleInv
<1> QED
  BY <1>1, InitLifecycle, NextLifecycle, PTL DEF Spec
=============================================================================
