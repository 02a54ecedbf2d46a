--------------------------- MODULE MCRobotWindows ---------------------------
(***************************************************************************)
(* Small instance of RobotWindows: two assigns of both robots, an unassign *)
(* and a deletion in the portal; two starts and a stop of robot b1 with    *)
(* one key, and a stop of it with another.  Any MaxRequests of them, in    *)
(* any order and overlap.                                                  *)
(***************************************************************************)
EXTENDS RobotWindows, TLC

CONSTANTS b1, b2, dA, dB, keyA, keyB,
          assignA, assignB, unassignB, deleteA, startA, startB, stopA, stopB

Kinds == (assignA :> "assign") @@ (assignB :> "assign") @@ (unassignB :> "unassign")
         @@ (deleteA :> "delete") @@ (startA :> "start") @@ (startB :> "start")
         @@ (stopA :> "stop") @@ (stopB :> "stop")
Target == [j \in Jobs |-> IF Kind[j] \in Sdk THEN {b1} ELSE {b1, b2}]
Display == [j \in Jobs |-> CASE j \in {assignA, deleteA, startA} -> dA
                             [] j \in {stopA, stopB} -> None
                             [] OTHER -> dB]
UsedKey == [j \in Jobs |-> CASE j \in {startA, startB, stopA} -> keyA
                             [] j = stopB -> keyB
                             [] OTHER -> None]
=============================================================================
