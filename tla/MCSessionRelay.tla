-------------------------- MODULE MCSessionRelay --------------------------
(***************************************************************************)
(* Small instance of SessionRelay: two moments of one person, two requests *)
(* at a time with any of two keys.                                         *)
(***************************************************************************)
EXTENDS SessionRelay, TLC

CONSTANTS m1, m2

Measured == (m1 :> [track |-> 1, kind |-> "passerby", tier |-> "none"])
            @@ (m2 :> [track |-> 1, kind |-> "dwell", tier |-> "deep"])

Symmetric == Permutations(Requests) \cup Permutations(Keys)
=============================================================================
