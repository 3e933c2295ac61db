----------------------------- MODULE Lifecycle -----------------------------
(***************************************************************************)
(* The process: starting up, serving, and shutting down on a signal        *)
(* (web/app/application.go and server.go, repository/database/init.go).    *)
(*                                                                         *)
(* Three kinds of goroutines take steps: the main one in Run(), the one    *)
(* that waits for a signal and shuts the server down, and one per request. *)
(* Requests are kept only as far as the process matters to them: they      *)
(* start, use the database some number of times, and end.                  *)
(***************************************************************************)
EXTENDS Naturals

CONSTANT Requests   \* requests that can be in progress at once

VARIABLES
  main,        \* what Run() does next
  stopper,     \* the goroutine that waits for a signal
  signals,     \* signals in its channel, which has room for one
  asked,       \* whether a signal came that the process has subscribed to
  closing,     \* http.Server.Shutdown was called: no request is accepted any more
  repository,  \* database.ActiveRepository
  request,     \* what each request is doing
  alive,       \* the process has not ended
  code         \* the exit code it has ended with, or Run() is going to return

vars == <<main, stopper, signals, asked, closing, repository, request, alive, code>>

Killed == 143

TypeOK ==
  /\ main \in {"configure", "open", "migrate", "create", "subscribe", "route", "listen",
               "serve", "close", "leave"}
  /\ stopper \in {"none", "waiting", "shutdown", "done"}
  /\ signals \in {0, 1}
  /\ asked \in BOOLEAN /\ closing \in BOOLEAN
  /\ repository \in {"nil", "broken", "open"}
  /\ request \in [Requests -> {"none", "running"}]
  /\ alive \in BOOLEAN
  /\ code \in {0, 1, 2, 3, Killed}

Init ==
  /\ main = "configure"
  /\ stopper = "none"
  /\ signals = 0
  /\ asked = FALSE /\ closing = FALSE
  /\ repository = "nil"
  /\ request = [r \in Requests |-> "none"]
  /\ alive = TRUE
  /\ code = 0

Exit(result) == alive' = FALSE /\ code' = result

-----------------------------------------------------------------------------
(* Run(), in the order of its calls. *)

MainAt(step) == alive /\ main = step
Return(result) == main' = "close" /\ code' = result
Go(step) == main' = step /\ UNCHANGED code

LoadConfiguration ==
  /\ MainAt("configure")
  /\ \/ Go("open") /\ UNCHANGED alive
     \/ Exit(1) /\ UNCHANGED main
  /\ UNCHANGED <<stopper, signals, asked, closing, repository, request>>

\* Fault: an error while opening is only logged.
OpenAnyway ==
  /\ MainAt("open")
  /\ repository' \in {"open", "broken"}
  /\ Go("migrate")
  /\ UNCHANGED <<stopper, signals, asked, closing, request, alive>>

\* The repository is set even when it could not be opened; Close is not deferred yet.
OpenDatabase ==
  /\ MainAt("open")
  /\ \/ repository' = "open" /\ Go("migrate") /\ UNCHANGED alive
     \/ repository' = "broken" /\ Exit(1) /\ UNCHANGED main
  /\ UNCHANGED <<stopper, signals, asked, closing, request>>

Migrate ==
  /\ MainAt("migrate")
  /\ Go("create") \/ Return(1)
  /\ UNCHANGED <<stopper, signals, asked, closing, repository, request, alive>>

\* The clients of the other systems.
CreateClients ==
  /\ MainAt("create")
  /\ Go("subscribe") \/ Return(1)
  /\ UNCHANGED <<stopper, signals, asked, closing, repository, request, alive>>

Subscribe ==
  /\ MainAt("subscribe")
  /\ Go("route")
  /\ UNCHANGED <<stopper, signals, asked, closing, repository, request, alive>>

Route ==
  /\ MainAt("route")
  /\ \/ Go("listen") /\ stopper' = "waiting"
     \/ Return(2) /\ UNCHANGED stopper
  /\ UNCHANGED <<signals, asked, closing, repository, request, alive>>

\* Fault: whatever ended the server is taken for a shutdown.
ListenUnchecked ==
  /\ MainAt("listen")
  /\ \/ ~closing /\ Go("serve")
     \/ ~closing /\ Return(0)
     \/ closing /\ Return(0)
  /\ UNCHANGED <<stopper, signals, asked, closing, repository, request, alive>>

\* ListenAndServe: it may be too late to listen, or the address may be in use.
Listen ==
  /\ MainAt("listen")
  /\ \/ ~closing /\ Go("serve")
     \/ ~closing /\ Return(2)
     \/ closing /\ Return(0)
  /\ UNCHANGED <<stopper, signals, asked, closing, repository, request, alive>>

\* It returns as soon as Shutdown is called, whatever is still in progress ...
StopServing ==
  /\ MainAt("serve") /\ closing
  /\ Return(0)
  /\ UNCHANGED <<stopper, signals, asked, closing, repository, request, alive>>

\* ... or when the listener fails.
ServingFails ==
  /\ MainAt("serve") /\ ~closing
  /\ Return(2)
  /\ UNCHANGED <<stopper, signals, asked, closing, repository, request, alive>>

CloseDatabase ==
  /\ MainAt("close")
  /\ repository' = "nil"
  /\ Go("leave")
  /\ UNCHANGED <<stopper, signals, asked, closing, request, alive>>

Leave ==
  /\ MainAt("leave")
  /\ Exit(code)
  /\ UNCHANGED <<main, stopper, signals, asked, closing, repository, request>>

Main ==
  \/ LoadConfiguration \/ OpenDatabase \/ Migrate \/ CreateClients \/ Subscribe \/ Route
  \/ Listen \/ StopServing \/ CloseDatabase \/ Leave

-----------------------------------------------------------------------------
(* Signals, and the goroutine that waits for one. *)

Subscribed == main \notin {"configure", "open", "migrate", "create", "subscribe"}

\* Fault: a channel without a buffer takes a signal only while somebody receives.
SignalUnbuffered ==
  /\ alive
  /\ IF Subscribed
     THEN /\ signals' = IF stopper = "waiting" THEN 1 ELSE signals
          /\ asked' = TRUE /\ UNCHANGED <<alive, code>>
     ELSE Exit(Killed) /\ UNCHANGED <<signals, asked>>
  /\ UNCHANGED <<main, stopper, closing, repository, request>>

\* Fault: a channel with room for more than one.
SignalQueued ==
  /\ alive
  /\ IF Subscribed
     THEN signals' = signals + 1 /\ asked' = TRUE /\ UNCHANGED <<alive, code>>
     ELSE Exit(Killed) /\ UNCHANGED <<signals, asked>>
  /\ UNCHANGED <<main, stopper, closing, repository, request>>

\* A signal the process has not subscribed to kills it; one too many is dropped.
Signal ==
  /\ alive
  /\ IF Subscribed
     THEN signals' = 1 /\ asked' = TRUE /\ UNCHANGED <<alive, code>>
     ELSE Exit(Killed) /\ UNCHANGED <<signals, asked>>
  /\ UNCHANGED <<main, stopper, closing, repository, request>>

Shutdown ==
  /\ alive
  /\ stopper = "waiting" /\ signals > 0
  /\ stopper' = "shutdown"
  /\ signals' = signals - 1
  /\ closing' = TRUE
  /\ UNCHANGED <<main, asked, repository, request, alive, code>>

\* Shutdown returns when no request is in progress, or after five seconds.
ShutdownReturns ==
  /\ alive
  /\ stopper = "shutdown"
  /\ \A r \in Requests : request[r] = "none"
  /\ stopper' = "done"
  /\ UNCHANGED <<main, signals, asked, closing, repository, request, alive, code>>

ShutdownTimesOut ==
  /\ alive
  /\ stopper = "shutdown"
  /\ \E r \in Requests : request[r] = "running"
  /\ Exit(3)
  /\ UNCHANGED <<main, stopper, signals, asked, closing, repository, request>>

Stopper == Shutdown \/ ShutdownReturns \/ ShutdownTimesOut

-----------------------------------------------------------------------------
(* Requests. *)

Begin(r) ==
  /\ MainAt("serve") /\ ~closing
  /\ request[r] = "none"
  /\ request' = [request EXCEPT ![r] = "running"]
  /\ UNCHANGED <<main, stopper, signals, asked, closing, repository, alive, code>>

\* GetRepository() gives the process up when there is none.
GetRepositoryFails(r) ==
  /\ alive
  /\ request[r] = "running"
  /\ repository = "nil"
  /\ Exit(1)
  /\ UNCHANGED <<main, stopper, signals, asked, closing, repository, request>>

End(r) ==
  /\ alive
  /\ request[r] = "running"
  /\ request' = [request EXCEPT ![r] = "none"]
  /\ UNCHANGED <<main, stopper, signals, asked, closing, repository, alive, code>>

Next ==
  \/ Main \/ ServingFails \/ Signal \/ Stopper
  \/ \E r \in Requests : Begin(r) \/ GetRepositoryFails(r) \/ End(r)

Spec == Init /\ [][Next]_vars

-----------------------------------------------------------------------------
(* Properties. *)

\* The process returns 0 only when it was asked to stop, so that whoever runs it (a
\* restart on failure) can tell: an address in use or a listener that fails is not
\* mistaken for http.ErrServerClosed.
ZeroMeansAsked == ~alive /\ code = 0 => asked

\* While the server accepts requests they find an open database: Run() gets to serving
\* only when every step before has succeeded, and closes the database after it.
ServedWithDatabase ==
  alive /\ ~closing /\ main = "serve" => repository = "open"

\* The goroutines of Run() and of the signal get to take their steps; a listener need
\* never fail, and requests need never end.
FairSpec == Spec /\ WF_vars(Main) /\ WF_vars(Stopper)

\* A signal the process has subscribed to ends it, even one that comes before anybody
\* waits for it, and even if a request never ends.
SignalStops == asked ~> ~alive

\* "You must Open() the database before using it. This is an error in your
\* implementation." (database/init.go:54): no request finds it closed when the server
\* has been shut down and Run() is about to return 0.
ShutdownKeepsRepository ==
  [][\A r \in Requests : closing /\ code = 0 => ~GetRepositoryFails(r)]_vars

-----------------------------------------------------------------------------
(* Why the invariants hold. *)

Started == main \in {"migrate", "create", "subscribe", "route", "listen", "serve"}
Stopping == main \in {"close", "leave"}

LifecycleInv ==
  /\ TypeOK
  /\ closing => asked
  /\ signals > 0 => asked
  /\ Stopping /\ code = 0 => asked
  /\ ZeroMeansAsked
  /\ alive /\ Started => repository = "open"
  /\ ServedWithDatabase
=============================================================================
