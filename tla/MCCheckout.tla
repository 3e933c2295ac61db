----------------------------- MODULE MCCheckout -----------------------------
(* An instance of Checkout for TLC. *)
EXTENDS Checkout, MCPaygateAdapter

\* Webhooks to the adapter, with one of the secrets, or to a weblogger, with another:
\* a restart with the other configuration finds open sessions with an outdated secret.
OneSecret == CHOOSE s \in Secrets : TRUE
SomeConfigurations ==
  [overridden : {FALSE}, public : {TRUE}, secret : {OneSecret}]
    \cup [overridden : {TRUE}, public : {TRUE}, secret : Secrets \ {OneSecret}]
=============================================================================
