------------------------------ MODULE Booking ------------------------------
(***************************************************************************)
(* What the adapter promises about the transactions of the payment         *)
(* service, with no webhook, call, handler or crash in sight: a            *)
(* transaction is settled only once its payment is OK at Paygate, it never *)
(* goes back to being tentative or absent, and, unless handlers overlap    *)
(* (Overlap), a settled or deleted one stays as it is.                     *)
(***************************************************************************)
CONSTANTS Refs, Overlap

VARIABLES
  paid,   \* reference ids whose payment is OK at Paygate
  book    \* the status of their transactions

Open(r) == book[r] \in {"tentative", "pending"}
Final(r) == book[r] \in {"valid", "deleted"}
Writable(r) == Open(r) \/ (Overlap /\ Final(r))

Init ==
  /\ paid = {}
  /\ book \in [Refs -> {"absent", "tentative"}]

Become(r, status) ==
  /\ book' = [book EXCEPT ![r] = status]
  /\ UNCHANGED paid

Pay(r) == paid' = paid \cup {r} /\ UNCHANGED book

\* A payment nobody registered is put up for review.
Register(r) == book[r] = "absent" /\ Become(r, "pending")
Hold(r) == Writable(r) /\ Become(r, "pending")
Settle(r) == Writable(r) /\ r \in paid /\ Become(r, "valid")

\* Somebody decides by hand.
Decide(r) ==
  \/ book[r] = "pending" /\ Become(r, "valid")
  \/ book[r] \in {"tentative", "pending", "valid"} /\ Become(r, "deleted")

Next == \E r \in Refs : Pay(r) \/ Register(r) \/ Hold(r) \/ Settle(r) \/ Decide(r)

Spec == Init /\ [][Next]_<<paid, book>>
=============================================================================
