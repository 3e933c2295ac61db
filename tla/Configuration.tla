--------------------------- MODULE Configuration ---------------------------
(***************************************************************************)
(* How a configuration file and the environment become the configuration   *)
(* the process runs with, or are refused (repository/config). Functions    *)
(* only; Process adds the step that applies them.                          *)
(*                                                                         *)
(* Of a text that is only measured its length is kept, of a URL what the   *)
(* patterns tell apart. Settings that are treated alike share a field:     *)
(* timeout is each of the three timeouts, text each of the invoice's       *)
(* texts, account the user name and the name of the database.              *)
(***************************************************************************)
EXTENDS Integers

\* "" is an empty URL, "base" one that ends without a slash, "slash" one that ends
\* with it, and "other" does not start with http:// or https://.
Urls == {"", "base", "slash", "other"}

Uint16 == 0 .. 65535

UrlSettings ==
  {"attendee_service", "mail_service", "payment_service", "nexi_downstream",
   "public_url", "terms_url"}
LengthSettings ==
  {"nexi_api_key", "nexi_merchant_id", "account", "password", "api", "webhook", "text"}
Settings ==
  UrlSettings \cup LengthSettings
    \cup {"port", "timeout", "use", "severity", "error_notify_mail"}

\* A setting the file leaves out has its zero value.
IsApplication(c) ==
  /\ DOMAIN c = Settings
  /\ \A key \in UrlSettings : c[key] \in Urls
  /\ \A key \in LengthSettings : c[key] \in Nat
  /\ c.port \in Uint16
  /\ c.timeout \in Int
  /\ c.use \in {"mysql", "inmemory", ""}
  /\ c.severity \in {"DEBUG", "INFO", "WARN", "ERROR", "", "other"}
  /\ c.error_notify_mail \in BOOLEAN

\* The secrets the environment may hold, 0 for a variable that is empty or not set.
Environment == [nexi_api_key : Nat, webhook : Nat, api : Nat, password : Nat]

WithDefaults(c) ==
  [c EXCEPT !.port     = IF @ = 0 THEN 8080 ELSE @,
            !.timeout  = IF @ <= 0 THEN 5 ELSE @,
            !.severity = IF @ = "" THEN "INFO" ELSE @]

WithOverrides(c, env) ==
  [key \in DOMAIN c |-> IF key \in DOMAIN env /\ env[key] # 0 THEN env[key] ELSE c[key]]

-----------------------------------------------------------------------------
(* Validation: the settings that are complained about. *)

OutOfRange(c, limits) ==
  {key \in DOMAIN limits : c[key] < limits[key][1] \/ c[key] > limits[key][2]}

ServerErrors(c) == OutOfRange(c, [port |-> <<1024, 65535>>, timeout |-> <<1, 300>>])

DatabaseErrors(c) ==
  IF c.use = "mysql" THEN OutOfRange(c, [account |-> <<1, 256>>, password |-> <<1, 256>>])
  ELSE {key \in {"use"} : c[key] # "inmemory"}

LoggingErrors(c) == IF c.severity \in {"DEBUG", "INFO", "WARN", "ERROR"} THEN {} ELSE {"severity"}

SecurityErrors(c) == OutOfRange(c, [api |-> <<16, 256>>, webhook |-> <<8, 64>>])

\* The mail service's URL is not looked at, nor is the one that overrides the webhook.
ServiceErrors(c) ==
  {key \in {"attendee_service", "payment_service", "nexi_downstream", "public_url"} :
     c[key] \notin {"", "base"}}
    \cup {key \in {"terms_url"} : c[key] \notin {"base", "slash"}}
    \cup {key \in {"public_url"} : c.nexi_downstream = "" /\ c[key] = ""}
    \cup OutOfRange(c, [nexi_api_key |-> <<1, 256>>, nexi_merchant_id |-> <<1, 256>>])

InvoiceErrors(c) == OutOfRange(c, [text |-> <<1, 256>>])

Errors(c) ==
  ServiceErrors(c) \cup ServerErrors(c) \cup DatabaseErrors(c)
    \cup SecurityErrors(c) \cup LoggingErrors(c) \cup InvoiceErrors(c)

-----------------------------------------------------------------------------
\* Fault: the file is checked before the environment is looked at.
AcceptedByFile(file, env) == Errors(WithDefaults(file)) = {}

\* parseAndOverwriteConfig: what a file and an environment amount to, and whether it
\* replaces the configuration.
Completed(file, env) == WithOverrides(WithDefaults(file), env)
Accepted(file, env) == Errors(Completed(file, env)) = {}
=============================================================================
