--------------------------- MODULE ProcessProofs ---------------------------
(***************************************************************************)
(* Process does nothing Lifecycle does not allow, loads the configurations *)
(* it is meant to load, for any file and any environment, and loses an     *)
(* alarm only to two failures, for any number of requests and failures.    *)
(***************************************************************************)
EXTENDS Process, LifecycleProofs, FiniteSetTheorems

-----------------------------------------------------------------------------
(* What a file and an environment amount to. *)

Secrets == {"nexi_api_key", "webhook", "api", "password"}
Defaults == {"port", "timeout", "severity"}

LEMMA SettingKinds ==
  /\ Secrets \subseteq LengthSettings
  /\ LengthSettings \subseteq Settings
  /\ Defaults \subseteq Settings
  /\ Defaults \cap Secrets = {}
BY DEF Secrets, Defaults, Settings, LengthSettings

LEMMA SourceTypes ==
  ASSUME NEW s \in Sources
  PROVE  /\ DOMAIN s.file = Settings /\ DOMAIN s.env = Secrets
         /\ s.file.timeout \in Int
         /\ \A key \in LengthSettings : s.file[key] \in Nat
         /\ \A key \in Secrets : s.env[key] \in Nat
         /\ s.file.use \in {"mysql", "inmemory", ""} /\ s.file.error_notify_mail \in BOOLEAN
         /\ s.file.mail_service \in Urls
<1>1. IsApplication(s.file) /\ s.env \in Environment
  BY Zenon, SourcesAssumption
<1>2. DOMAIN s.env = Secrets /\ \A key \in Secrets : s.env[key] \in Nat
  BY <1>1 DEF Environment, Secrets
<1>3. s.file.mail_service \in Urls
  BY Zenon, <1>1 DEF IsApplication, UrlSettings
<1> QED
  BY Zenon, <1>1, <1>2, <1>3 DEF IsApplication

\* Only the settings that may be left out are replaced by a default.
LEMMA DefaultsMeaning ==
  ASSUME NEW c, DOMAIN c = Settings
  PROVE  /\ DOMAIN WithDefaults(c) = Settings
         /\ WithDefaults(c).port = IF c.port = 0 THEN 8080 ELSE c.port
         /\ WithDefaults(c).timeout = IF c.timeout <= 0 THEN 5 ELSE c.timeout
         /\ WithDefaults(c).severity = IF c.severity = "" THEN "INFO" ELSE c.severity
         /\ \A key \in Settings \ Defaults : WithDefaults(c)[key] = c[key]
<1>1. DOMAIN WithDefaults(c) = Settings
  BY DEF WithDefaults
<1>2. WithDefaults(c).port = IF c.port = 0 THEN 8080 ELSE c.port
  BY DEF WithDefaults, Settings
<1>3. WithDefaults(c).timeout = IF c.timeout <= 0 THEN 5 ELSE c.timeout
  BY DEF WithDefaults, Settings
<1>4. WithDefaults(c).severity = IF c.severity = "" THEN "INFO" ELSE c.severity
  BY DEF WithDefaults, Settings
<1>5. \A key \in Settings \ Defaults : WithDefaults(c)[key] = c[key]
  BY Zenon DEF WithDefaults, Defaults
<1> QED
  BY <1>1, <1>2, <1>3, <1>4, <1>5

\* A setting ends up as the environment's secret, or as the file has it, or as its default.
LEMMA CompletedMeaning ==
  ASSUME NEW s \in Sources
  PROVE  LET c == Completed(s.file, s.env)
             d == WithDefaults(s.file)
         IN  /\ DOMAIN c = Settings
             /\ c = [key \in Settings |-> IF key \in Secrets THEN Secret(s, key) ELSE d[key]]
<1> DEFINE d == WithDefaults(s.file)
           c == Completed(s.file, s.env)
<1>1. DOMAIN s.file = Settings /\ DOMAIN s.env = Secrets
  BY SourceTypes
<1>2. DOMAIN d = Settings /\ \A key \in Settings \ Defaults : d[key] = s.file[key]
  BY <1>1, DefaultsMeaning
<1> HIDE DEF d
<1>3. c = [key \in Settings |-> IF key \in Secrets /\ s.env[key] # 0 THEN s.env[key] ELSE d[key]]
  BY Zenon, <1>1, <1>2 DEF Completed, WithOverrides, d
<1> HIDE DEF c
<1>4. \A key \in Secrets : d[key] = s.file[key]
  BY <1>2, SettingKinds
<1>5. c = [key \in Settings |-> IF key \in Secrets THEN Secret(s, key) ELSE d[key]]
  BY <1>3, <1>4 DEF Secret
<1>6. DOMAIN c = Settings
  BY <1>3
<1> QED
  BY Zenon, <1>5, <1>6 DEF c, d

LEMMA CompletedSettings ==
  ASSUME NEW s \in Sources
  PROVE  LET c == Completed(s.file, s.env)
         IN  /\ \A key \in Secrets : c[key] = Secret(s, key)
             /\ \A key \in Settings \ (Secrets \cup Defaults) : c[key] = s.file[key]
<1> DEFINE d == WithDefaults(s.file)
           c == Completed(s.file, s.env)
<1>1. c = [key \in Settings |-> IF key \in Secrets THEN Secret(s, key) ELSE d[key]]
  BY CompletedMeaning
<1>2. \A key \in Settings \ Defaults : d[key] = s.file[key]
  BY SourceTypes, DefaultsMeaning
<1> HIDE DEF c, d
<1>3. /\ \A key \in Secrets : c[key] = Secret(s, key)
      /\ \A key \in Settings \ (Secrets \cup Defaults) : c[key] = s.file[key]
  BY <1>1, <1>2, SettingKinds
<1> QED
  BY <1>3 DEF c

\* So what is validated is what the file and the environment are meant to be.
LEMMA CompletedIsSpeltOut ==
  ASSUME NEW s \in Sources
  PROVE  Completed(s.file, s.env) = SpeltOut(s)
<1> DEFINE d == WithDefaults(s.file)
           port == IF s.file.port = 0 THEN 8080 ELSE s.file.port
           timeout == IF s.file.timeout <= 0 THEN 5 ELSE s.file.timeout
           severity == IF s.file.severity = "" THEN "INFO" ELSE s.file.severity
           spelt(key) ==
             IF key = "port" /\ s.file.port = 0 THEN 8080
             ELSE IF key = "timeout" /\ s.file.timeout <= 0 THEN 5
             ELSE IF key = "severity" /\ s.file.severity = "" THEN "INFO"
             ELSE s.file[key]
<1>1. DOMAIN s.file = Settings /\ DOMAIN s.env = Secrets
  BY SourceTypes
<1>2. /\ d.port = port /\ d.timeout = timeout /\ d.severity = severity
      /\ \A key \in Settings \ Defaults : d[key] = s.file[key]
  BY <1>1, DefaultsMeaning
<1>3. ASSUME NEW key \in Settings
      PROVE  d[key] = spelt(key)
  <2>1. spelt("port") = port
    OBVIOUS
  <2>2. spelt("timeout") = timeout
    OBVIOUS
  <2>3. spelt("severity") = severity
    OBVIOUS
  <2>4. key \notin Defaults => spelt(key) = s.file[key]
    <3>1. key \notin Defaults => key # "port" /\ key # "timeout" /\ key # "severity"
      BY DEF Defaults
    <3>2. CASE key # "port" /\ key # "timeout" /\ key # "severity"
      BY <3>2
    <3> QED
      BY <3>1, <3>2
  <2> HIDE DEF d, port, timeout, severity, spelt
  <2> QED
    BY <1>2, <2>1, <2>2, <2>3, <2>4 DEF Defaults
<1> HIDE DEF d
<1>4. SpeltOut(s) = [key \in Settings |-> IF key \in Secrets THEN Secret(s, key) ELSE spelt(key)]
  BY <1>1 DEF SpeltOut
<1> HIDE DEF spelt
<1>5. SpeltOut(s) = [key \in Settings |-> IF key \in Secrets THEN Secret(s, key) ELSE d[key]]
  BY <1>3, <1>4
<1> QED
  BY Zenon, <1>5, CompletedMeaning DEF d

\* What the program relies on without checking it again.
LEMMA AcceptedIsSufficient ==
  ASSUME NEW s \in Sources, Accepted(s.file, s.env)
  PROVE  Sufficient(s)
<1> DEFINE c == Completed(s.file, s.env)
<1>1. Errors(c) = {}
  BY DEF Accepted
<1>2. /\ c.api = Secret(s, "api") /\ c.webhook = Secret(s, "webhook")
      /\ c.nexi_api_key = Secret(s, "nexi_api_key") /\ c.password = Secret(s, "password")
  <2>1. \A key \in Secrets : c[key] = Secret(s, key)
    BY CompletedSettings
  <2> HIDE DEF c
  <2> QED
    BY <2>1 DEF Secrets
<1>3. /\ c.use = s.file.use /\ c.nexi_downstream = s.file.nexi_downstream
      /\ c.public_url = s.file.public_url
  <2>1. {"use", "nexi_downstream", "public_url"} \subseteq Settings \ (Secrets \cup Defaults)
    BY DEF Settings, UrlSettings, Secrets, Defaults
  <2> QED
    BY <2>1, CompletedSettings
<1>4. ASSUME NEW key \in Secrets
      PROVE  Secret(s, key) \in Nat
  BY <1>4, SourceTypes, SettingKinds DEF Secret
<1>5. c.api \in Nat /\ c.webhook \in Nat /\ c.nexi_api_key \in Nat /\ c.password \in Nat
  BY <1>2, <1>4 DEF Secrets
<1> HIDE DEF c
<1>6. c.api >= 16 /\ c.webhook >= 8
  <2>1. "api" \notin SecurityErrors(c) /\ "webhook" \notin SecurityErrors(c)
    BY <1>1 DEF Errors
  <2> QED
    BY <1>5, <2>1 DEF SecurityErrors, OutOfRange
<1>7. c.nexi_api_key > 0
  <2>1. "nexi_api_key" \notin ServiceErrors(c)
    BY <1>1 DEF Errors
  <2> QED
    BY <1>5, <2>1 DEF ServiceErrors, OutOfRange
<1>8. c.nexi_downstream = "" => c.public_url # ""
  <2>1. "public_url" \notin ServiceErrors(c)
    BY <1>1 DEF Errors
  <2> QED
    BY Zenon, <2>1 DEF ServiceErrors
<1>9. c.use = "mysql" => c.password > 0
  <2>1. "password" \notin DatabaseErrors(c)
    BY <1>1 DEF Errors
  <2> QED
    BY <1>5, <2>1 DEF DatabaseErrors, OutOfRange
<1> QED
  BY <1>2, <1>3, <1>6, <1>7, <1>8, <1>9 DEF Sufficient

-----------------------------------------------------------------------------
(* Steps, and their types. *)

\* Every step is one of Lifecycle, or none.
LEMMA ProcessStep == [ProcessNext]_processVars => [Next]_vars
<1> SUFFICES ASSUME [ProcessNext]_processVars
             PROVE  [Next]_vars
  OBVIOUS
<1>1. CASE ReadConfiguration
  BY <1>1 DEF ReadConfiguration, Next, Main
<1>2. CASE CloseRepository
  BY <1>2 DEF CloseRepository, Next, Main
<1>3. CASE Otherwise
  BY <1>3 DEF Otherwise, Next, Main
<1>4. ASSUME NEW r \in Requests, Reporting(r)
      PROVE  [Next]_vars
  BY <1>4 DEF Reporting, Raise, InsertEntry, InsertFails, ReadSlice, WriteSlice,
              NoMail, SendEmail, SendEmailFails
<1>5. ASSUME NEW r \in Requests, EndRequest(r)
      PROVE  [Next]_vars
  BY <1>5 DEF EndRequest, Next
<1>6. CASE UNCHANGED processVars
  BY <1>6 DEF processVars
<1> QED
  BY <1>1, <1>2, <1>3, <1>4, <1>5, <1>6 DEF ProcessNext

\* Only Run() moves main, past reading the configuration and never back to it.
LEMMA OtherwiseKeepsPlace ==
  ASSUME Otherwise \/ CloseRepository
  PROVE  /\ main' = "configure" <=> main = "configure"
         /\ main = "configure" => UNCHANGED <<main, request>>
         /\ alive
<1> USE DEF MainAt, Go, Return, Exit
<1>1. CASE OpenDatabase
  BY Zenon, <1>1 DEF OpenDatabase
<1>2. CASE Migrate \/ CreateClients \/ Subscribe \/ Route
  BY <1>2 DEF Migrate, CreateClients, Subscribe, Route
<1>3. CASE Listen \/ StopServing \/ ServingFails \/ Leave \/ CloseDatabase
  BY <1>3 DEF Listen, StopServing, ServingFails, Leave, CloseDatabase
<1>4. CASE Signal \/ Stopper
  BY Zenon, <1>4 DEF Signal, Stopper, Shutdown, ShutdownReturns, ShutdownTimesOut
<1>5. ASSUME NEW r \in Requests, Begin(r) \/ GetRepositoryFails(r)
      PROVE  /\ UNCHANGED main /\ alive
             /\ main = "configure" => UNCHANGED request
  BY <1>5 DEF Begin, GetRepositoryFails
<1> QED
  BY <1>1, <1>2, <1>3, <1>4, <1>5 DEF Otherwise, CloseRepository

LEMMA ReportTypes ==
  /\ \A rp \in Report : /\ rp.mailed \in BOOLEAN
                        /\ rp.step = "append" => rp.protocol \subseteq Requests
  /\ \A mailed \in BOOLEAN, step \in {"none", "done", "entry", "mail"} :
       [step |-> step, mailed |-> mailed] \in Report
  /\ \A mailed \in BOOLEAN, protocol \in SUBSET Requests :
       [step |-> "append", mailed |-> mailed, protocol |-> protocol] \in Report
<1>1. ASSUME NEW rp \in Report
      PROVE  rp.mailed \in BOOLEAN /\ (rp.step = "append" => rp.protocol \subseteq Requests)
  BY DEF Report
<1>2. ASSUME NEW mailed \in BOOLEAN, NEW step \in {"none", "done"}
      PROVE  [step |-> step, mailed |-> mailed] \in Report
  BY Zenon DEF Report
<1>3. ASSUME NEW mailed \in BOOLEAN, NEW step \in {"entry", "mail"}
      PROVE  [step |-> step, mailed |-> mailed] \in Report
  BY Zenon DEF Report
<1>4. ASSUME NEW mailed \in BOOLEAN, NEW protocol \in SUBSET Requests
      PROVE  [step |-> "append", mailed |-> mailed, protocol |-> protocol] \in Report
  BY Zenon DEF Report
<1> QED
  BY <1>1, <1>2, <1>3, <1>4

\* What a request does about its alarm: it moves on, and leaves the process alone.
MovesOn(r) ==
  /\ alive
  /\ UNCHANGED <<vars, source, settings>>
  /\ \E next \in Report :
       /\ report' = [report EXCEPT ![r] = next]
       /\ next.step = "append" => settings.use = "inmemory"
  /\ entries' \subseteq Requests
  /\ mails' \in {mails, mails \cup {r}}
  /\ failures' = failures \/ Fail
  /\ report[r].step # "none" \/ request[r] = "running"

LEMMA ReportingMoves ==
  ASSUME ProcessInv, NEW r \in Requests, Reporting(r)
  PROVE  MovesOn(r)
<1>1. /\ report[r] \in Report /\ entries \subseteq Requests
      /\ report[r].step = "append" => settings.use = "inmemory"
  BY DEF ProcessInv, ProcessTypeOK
<1>2. /\ report[r].mailed \in BOOLEAN
      /\ report[r].step = "append" => report[r].protocol \subseteq Requests
  BY <1>1, ReportTypes
<1>3. AfterEntry(r) \in Report /\ Done(r) \in Report
  <2>1. \A step \in {"mail", "done"} : [step |-> step, mailed |-> report[r].mailed] \in Report
    BY Zenon, <1>2, ReportTypes
  <2> QED
    BY <2>1 DEF AfterEntry, Done
<1>4. AfterEntry(r).step # "append" /\ Done(r).step # "append"
  BY DEF AfterEntry, Done
<1>5. CASE Raise(r)
  <2>1. PICK mailed \in BOOLEAN : Moves(r, [step |-> "entry", mailed |-> mailed])
    BY <1>5 DEF Raise
  <2>2. [step |-> "entry", mailed |-> mailed] \in Report
    BY Zenon, ReportTypes
  <2> QED
    BY <1>1, <1>5, <2>1, <2>2 DEF Raise, Moves, MovesOn, ReportAt
<1>6. CASE InsertEntry(r)
  BY <1>1, <1>3, <1>4, <1>6 DEF InsertEntry, Moves, MovesOn, ReportAt
<1>7. CASE InsertFails(r)
  BY <1>1, <1>3, <1>4, <1>7 DEF InsertFails, Moves, MovesOn, ReportAt
<1>8. CASE ReadSlice(r)
  <2>1. [step |-> "append", mailed |-> report[r].mailed, protocol |-> entries] \in Report
    BY <1>1, <1>2, ReportTypes
  <2> QED
    BY <1>1, <1>8, <2>1 DEF ReadSlice, Moves, MovesOn, ReportAt
<1>9. CASE WriteSlice(r)
  BY <1>1, <1>2, <1>3, <1>4, <1>9 DEF WriteSlice, Moves, MovesOn, ReportAt
<1>10. CASE NoMail(r) \/ SendEmail(r)
  BY <1>1, <1>3, <1>4, <1>10 DEF NoMail, SendEmail, Moves, MovesOn, ReportAt
<1>11. CASE SendEmailFails(r)
  BY <1>1, <1>3, <1>4, <1>11 DEF SendEmailFails, Moves, MovesOn, ReportAt
<1> QED
  BY <1>5, <1>6, <1>7, <1>8, <1>9, <1>10, <1>11 DEF Reporting

LEMMA ConfigurationRead ==
  ASSUME ProcessInv, ReadConfiguration
  PROVE  /\ main = "configure" /\ alive /\ source' = Read
         /\ alive' => main' = "open"
         /\ UNCHANGED <<request, report, entries, mails, failures>>
         /\ main' = "open" => source \in Sources /\ AcceptConfiguration
         /\ main' # "open" => RefuseConfiguration
<1>1. source \in Sources \cup {NoFile, Read} /\ (main = "configure" /\ alive => source # Read)
  BY DEF ProcessInv, ProcessTypeOK
<1>2. /\ main = "configure" /\ alive /\ source' = Read
      /\ UNCHANGED <<request, report, entries, mails, failures>>
  BY DEF ReadConfiguration, LoadConfiguration, MainAt
<1>3. alive' => main' = "open"
  BY Zenon DEF ReadConfiguration, LoadConfiguration, MainAt, Go, Exit
<1>4. IF main' = "open" THEN AcceptConfiguration ELSE RefuseConfiguration
  BY DEF ReadConfiguration
<1>5. AcceptConfiguration => source # NoFile
  BY DEF AcceptConfiguration
<1> QED
  BY <1>1, <1>2, <1>3, <1>4, <1>5

SettingsType ==
  settings \in [use : {"mysql", "inmemory", ""}, error_notify_mail : BOOLEAN, mail_service : Urls]

LEMMA SettingsAreTyped ==
  ASSUME SettingsType, source \in Sources, AcceptConfiguration
  PROVE  SettingsType'
<1> DEFINE c == Completed(source.file, source.env)
<1>1. DOMAIN settings = {"use", "error_notify_mail", "mail_service"}
  BY DEF SettingsType
<1>2. settings' = [key \in DOMAIN settings |-> c[key]]
  BY DEF AcceptConfiguration
<1>3. \A key \in {"use", "error_notify_mail", "mail_service"} : c[key] = source.file[key]
  <2>1. {"use", "error_notify_mail", "mail_service"} \subseteq Settings \ (Secrets \cup Defaults)
    BY DEF Settings, UrlSettings, Secrets, Defaults
  <2> QED
    BY <2>1, CompletedSettings
<1>4. /\ source.file.use \in {"mysql", "inmemory", ""}
      /\ source.file.error_notify_mail \in BOOLEAN /\ source.file.mail_service \in Urls
  BY SourceTypes
<1> HIDE DEF c
<1>5. settings' = [key \in {"use", "error_notify_mail", "mail_service"} |-> source.file[key]]
  BY <1>1, <1>2, <1>3
<1> QED
  BY <1>4, <1>5 DEF SettingsType

LEMMA FailuresType ==
  ASSUME ProcessTypeOK
  PROVE  failures \in Nat /\ failures <= MaxFailures /\ MaxFailures \in Nat
<1>1. failures \in 0 .. MaxFailures
  BY Zenon DEF ProcessTypeOK
<1> QED
  BY <1>1, MaxFailuresAssumption

LEMMA ProcessTypesStay == ProcessInv /\ [ProcessNext]_processVars => ProcessTypeOK'
<1> SUFFICES ASSUME ProcessInv, [ProcessNext]_processVars
             PROVE  ProcessTypeOK'
  OBVIOUS
<1>1. ProcessTypeOK /\ SettingsType
  BY Zenon DEF ProcessInv, ProcessTypeOK, SettingsType
<1>2. TypeOK'
  BY <1>1, ProcessStep, TypesStay DEF ProcessTypeOK
<1>3. CASE UNCHANGED reporting
  BY <1>1, <1>2, <1>3 DEF reporting, ProcessTypeOK
<1>4. CASE ReadConfiguration
  <2>1. SettingsType'
    <3>1. CASE main' = "open"
      BY <1>1, <1>4, <3>1, ConfigurationRead, SettingsAreTyped
    <3>2. CASE main' # "open"
      BY <1>1, <1>4, <3>2, ConfigurationRead DEF RefuseConfiguration, SettingsType
    <3> QED
      BY <3>1, <3>2
  <2> QED
    BY <1>1, <1>2, <1>4, <2>1, ConfigurationRead DEF ProcessTypeOK, SettingsType
<1>5. CASE CloseRepository
  BY <1>1, <1>2, <1>5 DEF CloseRepository, ProcessTypeOK
<1>6. ASSUME NEW r \in Requests, Reporting(r)
      PROVE  ProcessTypeOK'
  <2>1. MovesOn(r)
    BY <1>6, ReportingMoves
  <2>2. report' \in [Requests -> Report]
    BY <1>1, <2>1 DEF MovesOn, ProcessTypeOK
  <2>3. failures' \in 0 .. MaxFailures
    BY <1>1, <2>1, FailuresType DEF MovesOn, Fail
  <2> QED
    BY <1>1, <1>2, <2>1, <2>2, <2>3 DEF MovesOn, ProcessTypeOK
<1> QED
  BY <1>3, <1>4, <1>5, <1>6 DEF ProcessNext, Otherwise, EndRequest, processVars

-----------------------------------------------------------------------------
(* Alarms that vanish. *)

Bounded == 2 * Cardinality(Vanished) + Cardinality(MailOnly) <= MaxFailures - failures

LEMMA FewAlarms ==
  /\ IsFiniteSet(Vanished) /\ Cardinality(Vanished) \in Nat
  /\ IsFiniteSet(MailOnly) /\ Cardinality(MailOnly) \in Nat
<1>1. Vanished \subseteq Requests /\ MailOnly \subseteq Requests
  BY DEF Vanished, MailOnly
<1> QED
  BY <1>1, RequestsAssumption, FS_Subset, FS_CardinalityType

LEMMA OneMore ==
  ASSUME NEW S, IsFiniteSet(S), NEW T, NEW x, T \subseteq S \cup {x}
  PROVE  Cardinality(T) <= Cardinality(S) + 1
<1>1. IsFiniteSet(S \cup {x})
  BY FS_AddElement
<1>2. Cardinality(S \cup {x}) = IF x \in S THEN Cardinality(S) ELSE Cardinality(S) + 1
  BY FS_AddElement
<1>3. Cardinality(T) <= Cardinality(S \cup {x}) /\ IsFiniteSet(T)
  BY <1>1, FS_Subset
<1>4. Cardinality(T) \in Nat /\ Cardinality(S) \in Nat
  BY <1>3, FS_CardinalityType
<1> QED
  BY <1>2, <1>3, <1>4

LEMMA FewAlarmsNext ==
  /\ IsFiniteSet(Vanished') /\ Cardinality(Vanished') \in Nat
  /\ IsFiniteSet(MailOnly') /\ Cardinality(MailOnly') \in Nat
<1>1. Vanished' \subseteq Requests /\ MailOnly' \subseteq Requests
  BY DEF Vanished, MailOnly
<1> QED
  BY <1>1, RequestsAssumption, FS_Subset, FS_CardinalityType

\* A step that makes no alarm worse off.
LEMMA NoneWorse ==
  ASSUME ProcessTypeOK, Bounded, Vanished' \subseteq Vanished, MailOnly' \subseteq MailOnly,
         UNCHANGED failures
  PROVE  Bounded'
<1>1. Cardinality(Vanished') <= Cardinality(Vanished)
  BY FewAlarms, FS_Subset
<1>2. Cardinality(MailOnly') <= Cardinality(MailOnly)
  BY FewAlarms, FS_Subset
<1>3. failures \in Nat /\ MaxFailures \in Nat
  BY FailuresType
<1> QED
  BY <1>1, <1>2, <1>3, FewAlarms, FewAlarmsNext DEF Bounded

LEMMA InsertFailsWorse ==
  ASSUME ProcessTypeOK, Bounded, NEW r \in Requests, InsertFails(r)
  PROVE  Bounded'
<1>1. /\ report[r].step = "entry" /\ report' = [report EXCEPT ![r] = AfterEntry(r)]
      /\ UNCHANGED <<entries, mails>> /\ failures' = failures - 1
  BY DEF InsertFails, ReportAt, Moves, Fail
<1>2. report \in [Requests -> Report]
  BY DEF ProcessTypeOK
<1>3. Vanished' \subseteq Vanished
  BY <1>1, <1>2 DEF Vanished, AfterEntry
<1>4. MailOnly' \subseteq MailOnly \cup {r}
  BY <1>1, <1>2 DEF MailOnly
<1>5. Cardinality(Vanished') <= Cardinality(Vanished)
  BY <1>3, FewAlarms, FS_Subset
<1>6. Cardinality(MailOnly') <= Cardinality(MailOnly) + 1
  BY <1>4, FewAlarms, OneMore
<1>7. failures \in Nat /\ MaxFailures \in Nat
  BY FailuresType
<1> QED
  BY <1>1, <1>5, <1>6, <1>7, FewAlarms, FewAlarmsNext DEF Bounded

\* The second failure of an alarm pays for the first one's.
LEMMA MailFailsWorse ==
  ASSUME ProcessTypeOK, Bounded, NEW r \in Requests, SendEmailFails(r),
         settings.mail_service = "base"
  PROVE  Bounded'
<1>1. /\ report[r].step = "mail" /\ report' = [report EXCEPT ![r] = Done(r)]
      /\ UNCHANGED <<entries, mails>> /\ failures' = failures - 1
  BY DEF SendEmailFails, ReportAt, Moves, Fail
<1>2. report \in [Requests -> Report]
  BY DEF ProcessTypeOK
<1>3. failures \in Nat /\ MaxFailures \in Nat
  BY FailuresType
<1>4. MailOnly' = MailOnly \ {r}
  BY <1>1, <1>2 DEF MailOnly, Done
<1>5. CASE r \in entries
  <2>1. Vanished' \subseteq Vanished /\ MailOnly' \subseteq MailOnly
    BY <1>1, <1>2, <1>4, <1>5 DEF Vanished, Done
  <2>2. Cardinality(Vanished') <= Cardinality(Vanished)
    BY <2>1, FewAlarms, FS_Subset
  <2>3. Cardinality(MailOnly') <= Cardinality(MailOnly)
    BY <2>1, FewAlarms, FS_Subset
  <2> QED
    BY <1>1, <1>3, <2>2, <2>3, FewAlarms, FewAlarmsNext DEF Bounded
<1>6. CASE r \notin entries
  <2>1. r \in MailOnly
    BY <1>1, <1>6 DEF MailOnly
  <2>2. Cardinality(MailOnly') = Cardinality(MailOnly) - 1
    BY <1>4, <2>1, FewAlarms, FS_RemoveElement
  <2>3. Vanished' \subseteq Vanished \cup {r}
    BY <1>1, <1>2 DEF Vanished
  <2>4. Cardinality(Vanished') <= Cardinality(Vanished) + 1
    BY <2>3, FewAlarms, OneMore
  <2> QED
    BY <1>1, <1>3, <2>2, <2>4, FewAlarms, FewAlarmsNext DEF Bounded
<1> QED
  BY <1>5, <1>6

LEMMA TracesStay ==
  ASSUME ProcessInv, [ProcessNext]_processVars, TracesAreKept'
  PROVE  Bounded'
<1>1. /\ ProcessTypeOK /\ report \in [Requests -> Report]
      /\ \A r \in Requests : report[r].step = "append" => settings.use = "inmemory"
      /\ TracesAreKept => Bounded
  BY DEF ProcessInv, ProcessTypeOK, Bounded
<1>2. failures \in Nat /\ failures <= MaxFailures /\ MaxFailures \in Nat
  BY <1>1, FailuresType
<1>3. CASE ReadConfiguration
  <2>1. /\ UNCHANGED <<report, failures>>
        /\ \A r \in Requests : report[r].step = "none"
    BY <1>3, ConfigurationRead DEF ProcessInv
  <2>2. Vanished' = {} /\ MailOnly' = {}
    BY <2>1 DEF Vanished, MailOnly
  <2>3. Cardinality(Vanished') = 0 /\ Cardinality(MailOnly') = 0
    BY <2>2, FS_EmptySet
  <2> QED
    BY <1>2, <2>1, <2>3 DEF Bounded
<1>4. ASSUME UNCHANGED settings
      PROVE  TracesAreKept /\ Bounded /\ settings.use = "mysql" /\ settings.mail_service = "base" /\ MailIsSent
  BY <1>1, <1>4 DEF TracesAreKept, MailsAreSent, MailIsSent
<1>5. CASE CloseRepository
  <2>1. TracesAreKept /\ Bounded /\ UNCHANGED <<report, entries, mails, failures>>
    BY <1>4, <1>5 DEF CloseRepository
  <2>2. Vanished' = Vanished /\ MailOnly' = MailOnly
    BY <2>1 DEF Vanished, MailOnly
  <2> QED
    BY <1>1, <2>1, <2>2, NoneWorse
<1>6. CASE UNCHANGED reporting
  <2>1. Bounded /\ UNCHANGED <<report, entries, mails, failures>>
    BY <1>4, <1>6 DEF reporting
  <2>2. Vanished' = Vanished /\ MailOnly' = MailOnly
    BY <2>1 DEF Vanished, MailOnly
  <2> QED
    BY <1>1, <2>1, <2>2, NoneWorse
<1>7. ASSUME NEW r \in Requests, Reporting(r)
      PROVE  Bounded'
  <2>1. UNCHANGED settings
    BY <1>7, ReportingMoves DEF MovesOn
  <2>2. Bounded /\ settings.use = "mysql" /\ settings.mail_service = "base" /\ MailIsSent
    BY <1>4, <2>1
  <2>3. CASE Raise(r)
    <3>1. /\ \E mailed \in BOOLEAN : report' = [report EXCEPT ![r] = [step |-> "entry", mailed |-> mailed]]
          /\ UNCHANGED <<entries, mails, failures>>
      BY <2>3 DEF Raise, Moves
    <3>2. Vanished' \subseteq Vanished /\ MailOnly' \subseteq MailOnly
      BY <1>1, <3>1 DEF Vanished, MailOnly
    <3> QED
      BY <1>1, <2>2, <3>1, <3>2, NoneWorse
  <2>4. CASE InsertEntry(r)
    <3>1. /\ report' = [report EXCEPT ![r] = AfterEntry(r)]
          /\ entries' = entries \cup {r} /\ UNCHANGED <<mails, failures>>
      BY <2>4 DEF InsertEntry, Moves
    <3>2. Vanished' \subseteq Vanished /\ MailOnly' \subseteq MailOnly
      BY <1>1, <3>1 DEF Vanished, MailOnly
    <3> QED
      BY <1>1, <2>2, <3>1, <3>2, NoneWorse
  <2>5. CASE InsertFails(r)
    BY <1>1, <2>2, <2>5, InsertFailsWorse
  <2>6. CASE SendEmail(r)
    <3>1. /\ report' = [report EXCEPT ![r] = Done(r)]
          /\ mails' = mails \cup {r} /\ UNCHANGED <<entries, failures>>
      BY <2>6 DEF SendEmail, Moves
    <3>2. Vanished' \subseteq Vanished /\ MailOnly' \subseteq MailOnly
      BY <1>1, <3>1 DEF Vanished, MailOnly, Done
    <3> QED
      BY <1>1, <2>2, <3>1, <3>2, NoneWorse
  <2>7. CASE SendEmailFails(r)
    BY <1>1, <2>2, <2>7, MailFailsWorse
  <2>8. ~ReadSlice(r) /\ ~WriteSlice(r) /\ ~NoMail(r)
    BY <1>1, <2>2 DEF ReadSlice, WriteSlice, NoMail, ReportAt
  <2> QED
    BY <1>7, <2>3, <2>4, <2>5, <2>6, <2>7, <2>8 DEF Reporting
<1> QED
  BY <1>3, <1>5, <1>6, <1>7 DEF ProcessNext, Otherwise, EndRequest, processVars

\* Mails alone: whoever keeps the entries, an alarm nobody was mailed has used up a failure.
FewUnmailed == Cardinality(Unmailed) <= MaxFailures - failures

LEMMA UnmailedTypes ==
  /\ IsFiniteSet(Unmailed) /\ Cardinality(Unmailed) \in Nat
  /\ IsFiniteSet(Unmailed') /\ Cardinality(Unmailed') \in Nat
<1>1. Unmailed \subseteq Requests /\ Unmailed' \subseteq Requests
  BY DEF Unmailed
<1> QED
  BY <1>1, RequestsAssumption, FS_Subset, FS_CardinalityType

LEMMA MailsStay ==
  ASSUME ProcessInv, [ProcessNext]_processVars, MailsAreSent'
  PROVE  FewUnmailed'
<1>1. /\ ProcessTypeOK /\ report \in [Requests -> Report]
      /\ MailsAreSent => FewUnmailed
  BY DEF ProcessInv, ProcessTypeOK, FewUnmailed
<1>2. failures \in Nat /\ failures <= MaxFailures /\ MaxFailures \in Nat
  BY <1>1, FailuresType
<1>3. ASSUME FewUnmailed, Unmailed' \subseteq Unmailed, failures' = failures \/ Fail
      PROVE  FewUnmailed'
  <2>1. Cardinality(Unmailed') <= Cardinality(Unmailed)
    BY <1>3, UnmailedTypes, FS_Subset
  <2>2. failures' \in Int /\ failures' <= failures
    BY <1>2, <1>3 DEF Fail
  <2> QED
    BY <1>2, <1>3, <2>1, <2>2, UnmailedTypes DEF FewUnmailed
<1>4. CASE ReadConfiguration
  <2>1. /\ UNCHANGED <<report, failures>>
        /\ \A r \in Requests : report[r].step = "none"
    BY <1>4, ConfigurationRead DEF ProcessInv
  <2>2. Unmailed' = {}
    BY <2>1 DEF Unmailed
  <2>3. Cardinality(Unmailed') = 0
    BY <2>2, FS_EmptySet
  <2> QED
    BY <1>2, <2>1, <2>3 DEF FewUnmailed
<1>5. CASE CloseRepository \/ UNCHANGED reporting
  <2>1. MailsAreSent /\ UNCHANGED <<report, mails, failures>>
    BY <1>5 DEF CloseRepository, reporting, MailsAreSent
  <2>2. Unmailed' = Unmailed
    BY <2>1 DEF Unmailed
  <2> QED
    BY <1>1, <1>3, <2>1, <2>2
<1>6. ASSUME NEW r \in Requests, Reporting(r)
      PROVE  FewUnmailed'
  <2>1. UNCHANGED settings /\ (failures' = failures \/ Fail)
    BY <1>6, ReportingMoves DEF MovesOn
  <2>2. FewUnmailed /\ MailIsSent /\ settings.mail_service = "base"
    BY <1>1, <2>1 DEF MailsAreSent, MailIsSent
  <2>3. CASE Raise(r) \/ InsertEntry(r) \/ InsertFails(r) \/ ReadSlice(r) \/ WriteSlice(r)
    <3>1. UNCHANGED mails
      BY <2>3 DEF Raise, InsertEntry, InsertFails, ReadSlice, WriteSlice
    <3>2. PICK next : report' = [report EXCEPT ![r] = next] /\ (next.step # "done" \/ ~next.mailed)
      <4>1. AfterEntry(r).step # "done" \/ ~AfterEntry(r).mailed
        BY DEF AfterEntry
      <4> QED
        BY <2>3, <4>1 DEF Raise, InsertEntry, InsertFails, ReadSlice, WriteSlice, Moves
    <3>3. Unmailed' \subseteq Unmailed
      BY <1>1, <3>1, <3>2 DEF Unmailed
    <3> QED
      BY <1>3, <2>1, <2>2, <3>3
  <2>4. CASE SendEmail(r)
    <3>1. report' = [report EXCEPT ![r] = Done(r)] /\ mails' = mails \cup {r}
      BY <2>4 DEF SendEmail, Moves
    <3>2. Unmailed' \subseteq Unmailed
      BY <1>1, <3>1 DEF Unmailed, Done
    <3> QED
      BY <1>3, <2>1, <2>2, <3>2
  <2>5. CASE SendEmailFails(r)
    <3>1. /\ report' = [report EXCEPT ![r] = Done(r)]
          /\ UNCHANGED mails /\ failures' = failures - 1
      BY <2>2, <2>5 DEF SendEmailFails, Moves, Fail
    <3>2. Unmailed' \subseteq Unmailed \cup {r}
      BY <1>1, <3>1 DEF Unmailed
    <3>3. Cardinality(Unmailed') <= Cardinality(Unmailed) + 1
      BY <3>2, UnmailedTypes, OneMore
    <3> QED
      BY <1>2, <2>2, <3>1, <3>3, UnmailedTypes DEF FewUnmailed
  <2>6. ~NoMail(r)
    BY <2>2 DEF NoMail
  <2> QED
    BY <1>6, <2>3, <2>4, <2>5, <2>6 DEF Reporting
<1> QED
  BY <1>4, <1>5, <1>6 DEF ProcessNext, Otherwise, EndRequest, processVars

-----------------------------------------------------------------------------
(* The invariant. *)

Unconfigured ==
  main = "configure" =>
    /\ alive => source # Read
    /\ \A r \in Requests : request[r] = "none" /\ report[r].step = "none"

LEMMA UnconfiguredStays == ProcessInv /\ [ProcessNext]_processVars => Unconfigured'
<1> SUFFICES ASSUME ProcessInv, [ProcessNext]_processVars, main' = "configure"
             PROVE  /\ alive' => source' # Read
                    /\ \A r \in Requests : request'[r] = "none" /\ report'[r].step = "none"
  BY DEF Unconfigured
<1>1. Unconfigured
  BY DEF ProcessInv, Unconfigured
<1>2. CASE ReadConfiguration
  BY <1>1, <1>2, ConfigurationRead DEF Unconfigured
<1>3. CASE Otherwise \/ CloseRepository
  <2>1. main = "configure" /\ alive /\ UNCHANGED <<request, report, source>>
    BY <1>3, OtherwiseKeepsPlace DEF Otherwise, CloseRepository, reporting
  <2> QED
    BY <1>1, <2>1 DEF Unconfigured
<1>4. ASSUME NEW r \in Requests, Reporting(r) \/ EndRequest(r)
      PROVE  FALSE
  <2>1. main = "configure"
    BY <1>4, ReportingMoves DEF MovesOn, vars, EndRequest, End
  <2>2. request[r] = "none" /\ report[r].step = "none"
    BY <1>1, <2>1 DEF Unconfigured
  <2> QED
    BY <1>4, <2>2, ReportingMoves DEF MovesOn, EndRequest, End
<1>5. CASE UNCHANGED processVars
  BY <1>1, <1>5 DEF Unconfigured, processVars, vars, reporting
<1> QED
  BY <1>2, <1>3, <1>4, <1>5 DEF ProcessNext

SlicesAreInMemory == \A r \in Requests : report[r].step = "append" => settings.use = "inmemory"

LEMMA SlicesStay == ProcessInv /\ [ProcessNext]_processVars => SlicesAreInMemory'
<1> SUFFICES ASSUME ProcessInv, [ProcessNext]_processVars
             PROVE  SlicesAreInMemory'
  OBVIOUS
<1>1. SlicesAreInMemory /\ report \in [Requests -> Report]
  BY DEF ProcessInv, ProcessTypeOK, SlicesAreInMemory
<1>2. CASE ReadConfiguration
  BY <1>2, ConfigurationRead DEF ProcessInv, SlicesAreInMemory
<1>3. CASE CloseRepository \/ UNCHANGED reporting
  BY <1>1, <1>3 DEF CloseRepository, SlicesAreInMemory, reporting
<1>4. ASSUME NEW r \in Requests, Reporting(r)
      PROVE  SlicesAreInMemory'
  BY <1>1, <1>4, ReportingMoves DEF MovesOn, SlicesAreInMemory
<1> QED
  BY <1>2, <1>3, <1>4 DEF ProcessNext, Otherwise, EndRequest, processVars

LEMMA InitProcess == ProcessInit => ProcessInv
<1> SUFFICES ASSUME ProcessInit
             PROVE  ProcessInv
  OBVIOUS
<1>1. /\ Init /\ source \in Sources \cup {NoFile} /\ settings = NotRead
      /\ report = [r \in Requests |-> [step |-> "none", mailed |-> FALSE]]
      /\ entries = {} /\ mails = {} /\ failures = MaxFailures
  BY DEF ProcessInit
<1>2. TypeOK /\ request = [r \in Requests |-> "none"]
  BY <1>1, InitLifecycle DEF LifecycleInv, Init
<1>3. report \in [Requests -> Report]
  BY <1>1, ReportTypes
<1>4. settings \in [use : {"mysql", "inmemory", ""}, error_notify_mail : BOOLEAN, mail_service : Urls]
  BY <1>1 DEF NotRead, Urls
<1>5. failures \in 0 .. MaxFailures
  BY <1>1, MaxFailuresAssumption
<1>6. ProcessTypeOK
  BY <1>1, <1>2, <1>3, <1>4, <1>5 DEF ProcessTypeOK
<1>7. /\ source # Read
      /\ \A r \in Requests : request[r] = "none" /\ report[r].step = "none"
  <2>1. Read \notin Sources
    <3>1. DOMAIN Read = {"read"}
      BY DEF Read
    <3> QED
      BY <3>1, SourcesAssumption
  <2>2. Read # NoFile
    BY Zenon DEF Read, NoFile
  <2> QED
    BY <1>1, <1>2, <2>1, <2>2
<1>8. ~TracesAreKept /\ ~MailsAreSent
  BY <1>1 DEF TracesAreKept, MailsAreSent, NotRead
<1> QED
  BY <1>6, <1>7, <1>8 DEF ProcessInv

LEMMA NextProcess == ProcessInv /\ [ProcessNext]_processVars => ProcessInv'
<1> SUFFICES ASSUME ProcessInv, [ProcessNext]_processVars
             PROVE  ProcessInv'
  OBVIOUS
<1>1. ProcessTypeOK'
  BY ProcessTypesStay
<1>2. Unconfigured'
  BY UnconfiguredStays
<1>3. SlicesAreInMemory'
  BY SlicesStay
<1>4. TracesAreKept' => Bounded'
  BY TracesStay
<1>5. MailsAreSent' => FewUnmailed'
  BY MailsStay
<1> QED
  BY <1>1, <1>2, <1>3, <1>4, <1>5 DEF ProcessInv, Unconfigured, SlicesAreInMemory, Bounded, FewUnmailed

-----------------------------------------------------------------------------
(* The theorems. *)

\* Why alarms are kept: settings do not change once requests can raise any, and every
\* alarm without an entry has used up one failure, every vanished one a second.
THEOREM ProcessInvariance == ProcessSpec => []ProcessInv
<1> QED
  BY InitProcess, NextProcess, PTL DEF ProcessSpec

\* The configuration in force and the reports are well-formed, for any file the process
\* may be started with.
THEOREM ProcessTypeCorrectness == ProcessSpec => []ProcessTypeOK
<1>1. ProcessInv => ProcessTypeOK
  BY DEF ProcessInv
<1> QED
  BY <1>1, ProcessInvariance, PTL

\* With its configuration and its alarms the process does nothing else than Lifecycle.
THEOREM ProcessImplementsLifecycle == ProcessSpec => Spec
<1>1. ProcessInit => Init
  BY DEF ProcessInit
<1> QED
  BY <1>1, ProcessStep, PTL DEF ProcessSpec, Spec

\* So it returns 0 only when it was asked to, and serves only with an open database,
\* whatever it was configured with.
THEOREM ProcessKeepsLifecycle == ProcessSpec => []LifecycleInv
<1> QED
  BY ProcessImplementsLifecycle, LifecycleInvariance, PTL

\* However many requests raise alarms at once, one that should be mailed and in the
\* table is in neither only when two calls have failed for it and for no other; and one
\* that is to be mailed and in the slice only when its mail has failed.
THEOREM AlarmsLeaveTraces == ProcessSpec => []AlarmsLeaveATrace
<1>1. ProcessInv => AlarmsLeaveATrace
  <2> SUFFICES ASSUME ProcessInv
               PROVE  AlarmsLeaveATrace
    OBVIOUS
  <2>1. failures \in Nat /\ MaxFailures \in Nat
    BY FailuresType DEF ProcessInv
  <2>2. ASSUME TracesAreKept
        PROVE  2 * Cardinality(Vanished) <= MaxFailures - failures
    <3>1. 2 * Cardinality(Vanished) + Cardinality(MailOnly) <= MaxFailures - failures
      BY <2>2 DEF ProcessInv
    <3> QED
      BY <2>1, <3>1, FewAlarms
  <2>3. ASSUME MailsAreSent
        PROVE  Cardinality(Vanished) <= MaxFailures - failures
    <3>1. Vanished \subseteq Unmailed
      BY DEF Vanished, Unmailed
    <3>2. Cardinality(Vanished) <= Cardinality(Unmailed)
      BY <3>1, UnmailedTypes, FS_Subset
    <3>3. Cardinality(Unmailed) <= MaxFailures - failures
      BY <2>3 DEF ProcessInv
    <3> QED
      BY <2>1, <3>2, <3>3, FewAlarms, UnmailedTypes
  <2> QED
    BY <2>2, <2>3 DEF AlarmsLeaveATrace
<1> QED
  BY <1>1, ProcessInvariance, PTL

\* With at most one failure, no such alarm vanishes at all.
THEOREM OneFailureLosesNothing ==
  ASSUME MaxFailures <= 1
  PROVE  ProcessSpec => [](TracesAreKept => Vanished = {})
<1>1. ProcessInv => (TracesAreKept => Vanished = {})
  <2> SUFFICES ASSUME ProcessInv, TracesAreKept
               PROVE  Vanished = {}
    OBVIOUS
  <2>1. 2 * Cardinality(Vanished) + Cardinality(MailOnly) <= MaxFailures - failures
    BY DEF ProcessInv
  <2>2. failures \in Nat /\ MaxFailures \in Nat
    BY FailuresType DEF ProcessInv
  <2>3. Cardinality(Vanished) = 0
    BY <2>1, <2>2, FewAlarms
  <2> QED
    BY <2>3, FewAlarms, FS_EmptySet
<1> QED
  BY <1>1, ProcessInvariance, PTL

\* For every file and every environment: LoadConfiguration lets the process go on with
\* nothing less than the program relies on, and refuses no configuration that is complete
\* once the environment's secrets and the defaults are counted in.
THEOREM ConfigurationIsLoadedAsMeant == ProcessSpec => LoadedAsMeant
<1>1. ASSUME ProcessInv, ProcessNext, main = "configure"
      PROVE  /\ main' = "open" => Sufficient(source)
             /\ ~alive' /\ source' = Read => source = NoFile \/ Errors(SpeltOut(source)) # {}
  <2>1. CASE ReadConfiguration
    <3>1. CASE main' = "open"
      <4>1. source \in Sources /\ Accepted(source.file, source.env)
        BY <1>1, <2>1, <3>1, ConfigurationRead DEF AcceptConfiguration
      <4>2. alive'
        BY <1>1, <2>1, <3>1 DEF ReadConfiguration, LoadConfiguration, MainAt, Go, Exit
      <4> QED
        BY <4>1, <4>2, AcceptedIsSufficient
    <3>2. CASE main' # "open"
      <4>1. source \in Sources \cup {NoFile}
        BY <1>1, <2>1, ConfigurationRead DEF ProcessInv, ProcessTypeOK
      <4>2. source # NoFile => ~Accepted(source.file, source.env)
        BY <1>1, <2>1, <3>2, ConfigurationRead DEF RefuseConfiguration
      <4> QED
        BY <3>2, <4>1, <4>2, CompletedIsSpeltOut DEF Accepted
    <3> QED
      BY <3>1, <3>2
  <2>2. CASE Otherwise \/ CloseRepository
    BY <1>1, <2>2, OtherwiseKeepsPlace DEF ProcessInv, Otherwise, CloseRepository, reporting
  <2>3. ASSUME NEW r \in Requests, Reporting(r) \/ EndRequest(r)
        PROVE  FALSE
    BY <1>1, <2>3, ReportingMoves DEF MovesOn, EndRequest, End, ProcessInv
  <2> QED
    BY <1>1, <2>1, <2>2, <2>3 DEF ProcessNext
<1>2. ProcessInv /\ [ProcessNext]_processVars =>
        [main = "configure" =>
           /\ main' = "open" => Sufficient(source)
           /\ ~alive' /\ source' = Read => source = NoFile \/ Errors(SpeltOut(source)) # {}]_processVars
  BY <1>1
<1> QED
  BY <1>2, ProcessInvariance, PTL DEF ProcessSpec, LoadedAsMeant
=============================================================================
