----------------------------- MODULE WindowLog -----------------------------
(***************************************************************************)
(* What the history of display assignments promises its readers            *)
(* (models.py 591-640, display_insights.py): a robot has at most one open  *)
(* window, a closed window is never changed again, and windows leave the   *)
(* history only together with the display they belong to.                  *)
(***************************************************************************)
EXTENDS Naturals

CONSTANT Open              \* the end of a window that has none yet

VARIABLE log               \* windows: robot, disp, from, to

OneOpen == \A w, x \in log : w.robot = x.robot /\ w.to = Open /\ x.to = Open => w = x

\* One request closes windows and opens others.
Turn ==
    /\ \A w \in log :
          \E x \in log' : \/ x = w
                          \/ w.to = Open /\ x.to > w.from /\ x = [w EXCEPT !.to = x.to]
    /\ OneOpen'

\* A display is deleted, and its windows with it.
Purge == \E w \in log : log' = {x \in log : x.disp # w.disp}

Init == log = {}

Spec == Init /\ [][Turn \/ Purge]_log
=============================================================================
