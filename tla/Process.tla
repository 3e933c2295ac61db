------------------------------ MODULE Process ------------------------------
(***************************************************************************)
(* Lifecycle with the configuration the process is started with, and with  *)
(* the alarms its requests raise: an entry in the protocol table, then a   *)
(* mail, both best effort (repository/config, repository/database,         *)
(* mailnotify.go). A request raises at most one alarm here (a bound).      *)
(***************************************************************************)
EXTENDS Lifecycle, Configuration, FiniteSets

CONSTANTS
  Sources,      \* what the process can be started with: [file, env]
  MaxFailures   \* database inserts and mails that fail, in one behaviour (a bound)

ASSUME SourcesAssumption ==
  \A s \in Sources :
    DOMAIN s = {"file", "env"} /\ IsApplication(s.file) /\ s.env \in Environment
ASSUME MaxFailuresAssumption == MaxFailures \in Nat
ASSUME RequestsAssumption == IsFiniteSet(Requests)

VARIABLES
  source,    \* what the process is started with, until it has been read
  settings,  \* the configuration in force, as far as it is looked at below
  report,    \* how far each request is with its alarm
  entries,   \* whose alarms are in the protocol table, or in the slice that replaces it
  mails,     \* whose alarms have been mailed
  failures   \* failures the bound still allows

reporting == <<source, settings, report, entries, mails, failures>>
processVars == <<vars, reporting>>

\* No -config argument, no such file, or one that is not the YAML it should be.
NoFile == [read |-> FALSE]
Read == [read |-> TRUE]
NotRead == [use |-> "", error_notify_mail |-> FALSE, mail_service |-> ""]

\* "mailed" is an alarm with a mail; only "awaiting capture" has none.
Report ==
  [step : {"none", "done"}, mailed : BOOLEAN]
    \cup [step : {"entry", "mail"}, mailed : BOOLEAN]
    \cup [step : {"append"}, mailed : BOOLEAN, protocol : SUBSET Requests]

ProcessTypeOK ==
  /\ TypeOK
  /\ source \in Sources \cup {NoFile, Read}
  /\ settings \in [use : {"mysql", "inmemory", ""}, error_notify_mail : BOOLEAN, mail_service : Urls]
  /\ report \in [Requests -> Report]
  /\ entries \subseteq Requests
  /\ mails \subseteq Requests
  /\ failures \in 0 .. MaxFailures

ProcessInit ==
  /\ Init
  /\ source \in Sources \cup {NoFile}
  /\ settings = NotRead
  /\ report = [r \in Requests |-> [step |-> "none", mailed |-> FALSE]]
  /\ entries = {}
  /\ mails = {}
  /\ failures = MaxFailures

-----------------------------------------------------------------------------
(* The configuration. *)

\* Only an accepted file replaces the configuration; without one the process gives up.
AcceptConfiguration ==
  /\ source # NoFile
  /\ Accepted(source.file, source.env)
  /\ settings' = [key \in DOMAIN settings |-> Completed(source.file, source.env)[key]]

RefuseConfiguration ==
  /\ source # NoFile => ~Accepted(source.file, source.env)
  /\ UNCHANGED settings

ReadConfiguration ==
  /\ LoadConfiguration
  /\ source' = Read
  /\ IF main' = "open" THEN AcceptConfiguration ELSE RefuseConfiguration
  /\ UNCHANGED <<report, entries, mails, failures>>

-----------------------------------------------------------------------------
(* Alarms. *)

Moves(r, next) == report' = [report EXCEPT ![r] = next]
ReportAt(r, step) == alive /\ report[r].step = step
Fail == failures > 0 /\ failures' = failures - 1

\* What follows the entry, whether or not it was written.
AfterEntry(r) == [step |-> IF report[r].mailed THEN "mail" ELSE "done", mailed |-> report[r].mailed]
Done(r) == [step |-> "done", mailed |-> report[r].mailed]

\* GetRepository() finds a repository; GetRepositoryFails is when it finds none.
Raise(r) ==
  /\ ReportAt(r, "none")
  /\ request[r] = "running"
  /\ repository # "nil"
  /\ \E mailed \in BOOLEAN : Moves(r, [step |-> "entry", mailed |-> mailed])
  /\ UNCHANGED <<vars, source, settings, entries, mails, failures>>

\* WriteProtocolEntry of the MySQL repository.
InsertEntry(r) ==
  /\ ReportAt(r, "entry") /\ settings.use = "mysql"
  /\ entries' = entries \cup {r}
  /\ Moves(r, AfterEntry(r))
  /\ UNCHANGED <<vars, source, settings, mails, failures>>

\* Fault: a failed insert ends the report.
InsertFailsAndReturns(r) ==
  /\ ReportAt(r, "entry") /\ settings.use = "mysql"
  /\ Fail
  /\ Moves(r, Done(r))
  /\ UNCHANGED <<vars, source, settings, entries, mails>>

InsertFails(r) ==
  /\ ReportAt(r, "entry") /\ settings.use = "mysql"
  /\ Fail
  /\ Moves(r, AfterEntry(r))
  /\ UNCHANGED <<vars, source, settings, entries, mails>>

\* WriteProtocolEntry of the in-memory repository: append() reads the slice and writes
\* it back without a lock, so what another request appends in between is lost.
ReadSlice(r) ==
  /\ ReportAt(r, "entry") /\ settings.use = "inmemory"
  /\ Moves(r, [step |-> "append", mailed |-> report[r].mailed, protocol |-> entries])
  /\ UNCHANGED <<vars, source, settings, entries, mails, failures>>

WriteSlice(r) ==
  /\ ReportAt(r, "append")
  /\ entries' = report[r].protocol \cup {r}
  /\ Moves(r, AfterEntry(r))
  /\ UNCHANGED <<vars, source, settings, mails, failures>>

\* SendErrorNotifyMail. Without an address, or without a mail service, nothing is sent.
MailIsSent == settings.error_notify_mail /\ settings.mail_service # ""

NoMail(r) ==
  /\ ReportAt(r, "mail") /\ ~MailIsSent
  /\ Moves(r, Done(r))
  /\ UNCHANGED <<vars, source, settings, entries, mails, failures>>

SendEmail(r) ==
  /\ ReportAt(r, "mail") /\ MailIsSent
  /\ settings.mail_service = "base"
  /\ mails' = mails \cup {r}
  /\ Moves(r, Done(r))
  /\ UNCHANGED <<vars, source, settings, entries, failures>>

\* Nobody has checked the mail service's URL.
SendEmailFails(r) ==
  /\ ReportAt(r, "mail") /\ MailIsSent
  /\ IF settings.mail_service = "base" THEN Fail ELSE UNCHANGED failures
  /\ Moves(r, Done(r))
  /\ UNCHANGED <<vars, source, settings, entries, mails>>

Reporting(r) ==
  \/ Raise(r) \/ InsertEntry(r) \/ InsertFails(r) \/ ReadSlice(r) \/ WriteSlice(r)
  \/ NoMail(r) \/ SendEmail(r) \/ SendEmailFails(r)

-----------------------------------------------------------------------------
(* The rest of the process. *)

\* What the slice of the in-memory repository held is gone.
CloseRepository ==
  /\ CloseDatabase
  /\ entries' = IF settings.use = "inmemory" THEN {} ELSE entries
  /\ UNCHANGED <<source, settings, report, mails, failures>>

\* A request ends when it has reported what it had to.
EndRequest(r) ==
  /\ report[r].step \in {"none", "done"}
  /\ End(r)
  /\ UNCHANGED reporting

Otherwise ==
  /\ \/ OpenDatabase \/ Migrate \/ CreateClients \/ Subscribe \/ Route
     \/ Listen \/ StopServing \/ ServingFails \/ Leave
     \/ Signal \/ Stopper
     \/ \E r \in Requests : Begin(r) \/ GetRepositoryFails(r)
  /\ UNCHANGED reporting

ProcessNext ==
  \/ ReadConfiguration \/ CloseRepository \/ Otherwise
  \/ \E r \in Requests : Reporting(r) \/ EndRequest(r)

ProcessSpec == ProcessInit /\ [][ProcessNext]_processVars
FairProcessSpec == ProcessSpec /\ WF_vars(Main) /\ WF_vars(Stopper)

-----------------------------------------------------------------------------
(* Properties. *)

\* A secret is meant to be the environment's if it has one; what may be left out of a
\* file is meant to be its default.
Secret(s, key) == IF s.env[key] # 0 THEN s.env[key] ELSE s.file[key]
SpeltOut(s) ==
  [key \in Settings |->
     IF key \in DOMAIN s.env THEN Secret(s, key)
     ELSE IF key = "port" /\ s.file.port = 0 THEN 8080
     ELSE IF key = "timeout" /\ s.file.timeout <= 0 THEN 5
     ELSE IF key = "severity" /\ s.file.severity = "" THEN "INFO"
     ELSE s.file[key]]

\* What the rest of the program relies on without checking it again: secrets that are
\* not guessed, whichever place they come from, credentials for a database that wants
\* them, and an address for the simulator's paylinks.
Sufficient(s) ==
  /\ Secret(s, "api") >= 16 /\ Secret(s, "webhook") >= 8 /\ Secret(s, "nexi_api_key") > 0
  /\ s.file.use = "mysql" => Secret(s, "password") > 0
  /\ s.file.nexi_downstream = "" => s.file.public_url # ""

\* The process goes on exactly with the configurations meant to be used: none without
\* what the program relies on, and none refused for a secret that is only in the
\* environment or a setting that may be left out (loading.go:50-75: defaults, then the
\* environment, then validation).
LoadedAsMeant ==
  [][main = "configure" =>
       /\ main' = "open" => Sufficient(source)
       /\ ~alive' /\ source' = Read => source = NoFile \/ Errors(SpeltOut(source)) # {}]_processVars

\* If mails can be sent at all, an alarm that was reported vanishes only for failures of
\* its own: with a MySQL database both its entry and its mail have failed, so that a
\* single failure leaves it in the table or in somebody's mailbox (webhook.go:52-59 and
\* its like discard both errors); with the in-memory slice, which loses entries to other
\* requests and at its end, its mail has failed. An alarm that is not mailed has only its
\* entry, and a report the end of the process cuts off may leave nothing.
MailsAreSent == settings.error_notify_mail /\ settings.mail_service = "base"
TracesAreKept == settings.use = "mysql" /\ MailsAreSent
Vanished ==
  {r \in Requests : report[r].step = "done" /\ report[r].mailed /\ r \notin entries \cup mails}
AlarmsLeaveATrace ==
  /\ MailsAreSent => Cardinality(Vanished) <= MaxFailures - failures
  /\ TracesAreKept => 2 * Cardinality(Vanished) <= MaxFailures - failures

-----------------------------------------------------------------------------
(* Why the invariants hold. *)

\* Alarms whose entry has failed and whose mail has not been tried yet.
MailOnly == {r \in Requests : report[r].step = "mail" /\ r \notin entries}

\* Alarms whose mail has failed, whatever has become of the entry.
Unmailed == {r \in Requests : report[r].step = "done" /\ report[r].mailed /\ r \notin mails}

ProcessInv ==
  /\ ProcessTypeOK
  /\ main = "configure" =>
       /\ alive => source # Read
       /\ \A r \in Requests : request[r] = "none" /\ report[r].step = "none"
  /\ \A r \in Requests : report[r].step = "append" => settings.use = "inmemory"
  /\ TracesAreKept =>
       2 * Cardinality(Vanished) + Cardinality(MailOnly) <= MaxFailures - failures
  /\ MailsAreSent => Cardinality(Unmailed) <= MaxFailures - failures
=============================================================================
