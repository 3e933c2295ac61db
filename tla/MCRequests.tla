----------------------------- MODULE MCRequests -----------------------------
(* Orders for TLC: valid ones, on both sides of the limits, and invalid ones. *)
EXTENDS Requests

\* The least amount at the highest rate, half a cent; a share of 7.6 cents; half a cent at a rate
\* that is neither exact in binary nor a multiple of a hundredth of a percent.
SomeOrders ==
  {[amount |-> 1, rate |-> MaxRate], [amount |-> 40, rate |-> 19000],
   [amount |-> 10000, rate |-> 7005],
   [amount |-> 0, rate |-> 0], [amount |-> 1, rate |-> MaxRate + 1], [amount |-> 1, rate |-> -1]}
=============================================================================
