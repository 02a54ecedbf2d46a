-------------------------- MODULE MCSpendProcessor --------------------------
(***************************************************************************)
(* Small instances of SpendProcessor for TLC.  Events e1 and e2 play the   *)
(* paid campaign, so that a pass reuses its campaign row; e3 plays the     *)
(* promo of the same advertiser; e4 and e5 are the plays that are dropped, *)
(* and e6 is a paid play that holds a malformed count.                     *)
(* Rates are in 1/10000 cent: 20000 is 2 cents, 15000 rounds up to 2.      *)
(***************************************************************************)
EXTENDS SpendProcessor

CONSTANTS e1, e2, e3, e4, e5, e6, paid, promo, brand, maker, fleet

PaidTwice    == {e1, e2}
PaidAndPromo == {e1, e2, e3}
AllKinds     == {e1, e4, e5, e6}

Plays == [e \in Events |->
    IF e \in {e1, e2, e6} THEN paid ELSE IF e = e3 THEN promo
    ELSE IF e = e4 THEN NoReference ELSE Unknown]
Reporter == [e \in Events |-> fleet]
InOrder  == [e \in Events |->
    IF e = e1 THEN 1 ELSE IF e = e2 THEN 2 ELSE IF e # e6 THEN 3 ELSE 4]

Owner   == [c \in Campaigns |-> brand]
Free    == [c \in Campaigns |-> c = promo]
Budget  == [c \in Campaigns |-> IF c = paid THEN 4 ELSE 2]
PerPlay == [c \in Campaigns |-> IF c = paid THEN 15000 ELSE 20000]
PerFace == [c \in Campaigns |-> 10000]
Builder == [f \in Fleets |-> maker]
Percent == [f \in Fleets |-> 6000]
Funds   == [a \in Advertisers |-> 3]
=============================================================================
