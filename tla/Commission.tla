------------------------------ MODULE Commission ------------------------------
(***************************************************************************)
(* The platform's share of a price.  Amounts are in cents.                 *)
(*                                                                         *)
(* The code multiplies and subtracts binary doubles and rounds each result *)
(* to cents.  A product or difference is modelled as the exact value, in   *)
(* 1/10000 of a cent, plus an error of a double's arithmetic.              *)
(***************************************************************************)
EXTENDS Integers

CONSTANT MaxError   \* bound on that error, in 1/10000 of a cent

Cent == 10000

Errors == (0 - MaxError)..MaxError

\* Math.round(value * 100) / 100: to the nearest cent, halves up.
roundMoney(value) == (value + Cent \div 2) \div Cent

\* COMMISSION_RATE, 7 percent, of gross cents.
Share(gross) == gross * 7 * (Cent \div 100)

\* Mutant: the payout is taken from the price as well, 93 percent of it.
payoutByRate(gross, e, f) ==
    [ grossAmount      |-> gross,
      commissionAmount |-> roundMoney(Share(gross) + e),
      netPayout        |-> roundMoney(gross * 93 * (Cent \div 100) + f) ]

\* e and f are the errors of gross * COMMISSION_RATE and of the difference.
calculateCommission(gross, e, f) ==
    LET commission == roundMoney(Share(gross) + e) IN
    [ grossAmount      |-> gross,
      commissionAmount |-> commission,
      netPayout        |-> roundMoney((gross - commission) * Cent + f) ]

\* With numeric(12,2) amounts the error stays below 1/10000 of a cent; any bound
\* below the 1/100 of a cent between two shares will do.
ASSUME CommissionAssumption == MaxError \in Nat /\ MaxError < Cent \div 100
=============================================================================
