------------------------------ MODULE Pricing ------------------------------
(***************************************************************************)
(* What one impression costs and how its charge is split: the Decimal      *)
(* arithmetic of spend_processor.py, as operators on integers.             *)
(*                                                                         *)
(* campaigns.cost_per_*_cents is Numeric(10,4): a rate is a whole number   *)
(* of 1/10000 cent.  fleets.revenue_share_pct is Numeric(5,2): a share is  *)
(* a whole number of 1/100 percent.  Both scales make the divisor 10000.   *)
(***************************************************************************)
EXTENDS Integers

Scale == 10000

\* _cents: the whole cent nearest to n / Scale, ties away from zero (n >= 0).
Cents(n) == (2 * n + Scale) \div (2 * Scale)

\* Gross price of one play seen by `attended` people, in whole cents.
GrossCents(perImpression, perAttended, attended) ==
    Cents(perImpression + IF attended > 0 THEN perAttended * attended ELSE 0)

\* Mutant of OemShare: the share is taken as a whole percentage of the charge
\* rounded up, so the two parts may exceed the charge.
OemShareRoundedUp(charge, share) == (charge * share + Scale) \div Scale

\* The fleet owner's part of a charge.
OemShare(charge, share) == Cents(charge * share)

(* The money one impression moves.  A promo's gross price still counts     *)
(* against its budget, but it charges nobody.                              *)
Quote(perImpression, perAttended, attended, promo, share) ==
    LET gross  == GrossCents(perImpression, perAttended, attended)
        charge == IF promo THEN 0 ELSE gross
        oem    == OemShare(charge, share)
    IN  [gross |-> gross, charge |-> charge, oem |-> oem, kovio |-> charge - oem]

Quotes == [gross : Nat, charge : Nat, oem : Nat, kovio : Nat]

----------------------------------------------------------------------------
(* Reference definition: r is the rounding of n / Scale half up iff n lies *)
(* in the half-open interval of width one cent centred on r.               *)
IsHalfUp(r, n) ==
    /\ 2 * n - Scale < 2 * Scale * r
    /\ 2 * Scale * r <= 2 * n + Scale
=============================================================================
