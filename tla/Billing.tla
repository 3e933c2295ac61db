------------------------------ MODULE Billing ------------------------------
(***************************************************************************)
(* What a checkout session says of an amount and its tax: the arithmetic   *)
(* of nexiCreateRequestFromApiRequest. Amounts are in cents. VAT rates are *)
(* in thousandths of a percent, finer than the hundredths of TaxRate; the  *)
(* program has them as floating-point numbers of percent.                  *)
(***************************************************************************)
EXTENDS Integers

MaxRate == 50000

\* Ten million euros, a bound of the model: the program takes any amount. Up to here, and
\* well beyond, a float64 is so precise that nothing but a half may be rounded wrongly.
MaxAmount == 1000000000

Hundred == 100000

\* Eighths of a percent, and their products with amounts, are exact in binary.
IsExact(rate) == rate % 125 = 0

\* Fault: the conversion to an integer, without math.Round, cuts off.
Truncated(n, d, exact) == {n \div d}

\* math.Round(n / d): halves go up, unless the number that stands for n is inexact:
\* it may then be on either side of the half.
Nearest(n, d, exact) ==
  LET low == n \div d
      twice == 2 * (n % d)
  IN  {k \in {low, low + 1} :
         \/ k = low /\ twice < d
         \/ k = low + 1 /\ twice > d
         \/ twice = d /\ (k = low + 1 \/ ~exact)}

\* The tax is the rate's share of the amount due, net is what remains.
Bills(amount, rate) ==
  {[tax |-> tax, net |-> amount - tax, taxRate |-> taxRate] :
     tax \in Nearest(amount * rate, Hundred, IsExact(rate)),
     taxRate \in Nearest(rate, 10, IsExact(rate))}

\* A bill adds up, has nothing below zero, and charges the share its own tax rate says:
\* to half a cent, and to the half of a hundredth of a percent that TaxRate is rounded by.
AddsUp(amount, bill) ==
  LET error == 10000 * bill.tax - amount * bill.taxRate IN
    /\ bill.tax + bill.net = amount
    /\ bill.tax >= 0 /\ bill.net >= 0
    /\ 2 * error <= 10000 + amount /\ -2 * error <= 10000 + amount
=============================================================================
