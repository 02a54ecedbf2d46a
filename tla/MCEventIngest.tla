--------------------------- MODULE MCEventIngest ---------------------------
(***************************************************************************)
(* Small instances of EventIngest: a robot sends its plays e1 and e2 with  *)
(* a play e4 of no valid time, and again around a play e3 that cannot be   *)
(* stored; its heartbeats come in with two keys of its fleet.              *)
(***************************************************************************)
EXTENDS EventIngest

CONSTANTS e1, e2, e3, e4, b1, b2, h1, h2, keyA, keyB, robot

Lists == [b \in Batches |-> IF b = b1 THEN <<e1, e4, e2>> ELSE <<e2, e3, e1>>]
Sender == [j \in Jobs |-> robot]
UsedKey == [j \in Jobs |-> IF j = h2 THEN keyB ELSE keyA]
=============================================================================
