------------------------ MODULE MCAdvertiserAccount ------------------------
(***************************************************************************)
(* Small instances of AdvertiserAccount: up to two checkouts (s2 pays by a *)
(* delayed method), deposits and three campaigns of one advertiser, two of *)
(* them with the same campaign_id.                                         *)
(***************************************************************************)
EXTENDS AdvertiserAccount

CONSTANTS s1, s2, k1, k2, k3, brand

Begins == [o \in Orgs |-> 1]
Payer  == [s \in Checkouts |-> brand]
Paid   == [s \in Checkouts |-> IF s = s1 THEN 2 ELSE 1]
Depositor == [t \in Topups |-> brand]
Deposited == [t \in Topups |-> 2]
Author == [k \in Creations |-> brand]
Codes  == [k \in Creations |-> IF k = k3 THEN k2 ELSE k]
Costs  == [k \in Creations |-> IF k = k1 THEN 2 ELSE 3]
=============================================================================
