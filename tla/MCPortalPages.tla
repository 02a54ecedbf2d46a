--------------------------- MODULE MCPortalPages ---------------------------
(***************************************************************************)
(* Small instance of PortalPages: of the plays of one campaign, e1 is an   *)
(* hour old, e2 was shown in the first hours of the month, on a date       *)
(* before its 30 dates, and e6 holds a malformed count.                    *)
(***************************************************************************)
EXTENDS PortalPages, TLC

CONSTANTS e1, e2, e6, paid, brand, maker, fleet

Noon == 40 * Day + 12
Times == e1 :> Noon - 1 @@ e2 :> Noon - Month + 1 @@ e6 :> Noon - 2

Plays    == [e \in Events |-> paid]
Reporter == [e \in Events |-> fleet]
Arrival  == [e \in Events |-> 1]
Owner    == [c \in Campaigns |-> brand]
Free     == [c \in Campaigns |-> FALSE]
Budget   == [c \in Campaigns |-> 4]
PerPlay  == [c \in Campaigns |-> 15000]
PerFace  == [c \in Campaigns |-> 10000]
Builder  == [f \in Fleets |-> maker]
Percent  == [f \in Fleets |-> 6000]
Funds    == [a \in Advertisers |-> 4]
=============================================================================
