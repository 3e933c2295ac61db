----------------------------- MODULE MCProcess -----------------------------
(* An instance of Process for TLC. *)
EXTENDS Process

\* A complete configuration file.
Complete ==
  [attendee_service |-> "base", mail_service |-> "base", payment_service |-> "base",
   nexi_downstream |-> "base", public_url |-> "base", terms_url |-> "base",
   nexi_api_key |-> 1, nexi_merchant_id |-> 1,
   port |-> 9097, timeout |-> 30,
   use |-> "mysql", account |-> 1, password |-> 1,
   severity |-> "INFO", error_notify_mail |-> TRUE,
   api |-> 16, webhook |-> 8, text |-> 1]

\* The values at and beyond the limits, setting by setting.
Values ==
  [key \in DOMAIN Complete |->
     CASE key \in UrlSettings        -> Urls
       [] key = "port"              -> {0, 1023, 1024, 65535}
       [] key = "timeout"           -> {-1, 0, 1, 300, 301}
       [] key = "use"               -> {"mysql", "inmemory", ""}
       [] key = "severity"          -> {"", "ERROR", "other"}
       [] key = "error_notify_mail" -> BOOLEAN
       [] key = "api"               -> {0, 15, 256, 257}
       [] key = "webhook"           -> {0, 7, 64, 65}
       [] OTHER                     -> {0, 256, 257}]

\* Files with up to two settings that differ from the complete one ...
Changed(file) == UNION {{[file EXCEPT ![key] = value] : value \in Values[key]} : key \in DOMAIN file}
Files == UNION {Changed(file) : file \in Changed(Complete)}

\* ... and an environment that holds at most one secret.
Unset == [nexi_api_key |-> 0, webhook |-> 0, api |-> 0, password |-> 0]
Environments ==
  {Unset} \cup {[Unset EXCEPT ![key] = value] : key \in DOMAIN Unset, value \in {1, 20, 300}}

SomeSources == [file : Files, env : Environments]
============================================================================
