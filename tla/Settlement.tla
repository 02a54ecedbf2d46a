----------------------------- MODULE Settlement -----------------------------
(***************************************************************************)
(* What the spend processor promises of an ad play, whatever the number of *)
(* passes and of crashes: the event is settled at most once, and the       *)
(* impression and its two ledger rows appear together, with amounts that   *)
(* agree.  (The docstrings of spend_processor.py and of its per-event      *)
(* transaction.)  SpendProcessor is shown to implement it.                 *)
(***************************************************************************)
EXTENDS Integers

CONSTANTS Events, Advertisers, Oems,
          Payer,        \* the advertiser an event would charge, or Nobody
          Payee,        \* the organization of the reporting fleet
          Opening, Quotes, Nobody

VARIABLES outcome, impression, charged, accrued

svars == <<outcome, impression, charged, accrued>>

Start ==
    /\ outcome = [e \in Events |-> "absent"]
    /\ impression = [e \in Events |-> Nobody]
    /\ charged = [a \in Advertisers |-> 0]
    /\ accrued = [o \in Oems |-> 0]

Arrive(e) ==
    /\ outcome[e] = "absent"
    /\ outcome' = [outcome EXCEPT ![e] = "pending"]
    /\ UNCHANGED <<impression, charged, accrued>>

\* Costed: one impression, one charge, one accrual, and the platform keeps
\* the rest of the charge.  The quote is the one the new impression holds.
Cost(e) ==
    LET q == impression'[e]
    IN  /\ outcome[e] = "pending"
        /\ Payer[e] # Nobody
        /\ outcome' = [outcome EXCEPT ![e] = "costed"]
        /\ impression' = [impression EXCEPT ![e] = q]
        /\ q \in Quotes
        /\ q.charge = q.oem + q.kovio
        /\ charged' = [charged EXCEPT ![Payer[e]] = @ + q.charge]
        /\ accrued' = [accrued EXCEPT ![Payee[e]] = @ + q.oem]

\* Processed without being costed.
Refuse(e, how) ==
    /\ outcome[e] = "pending"
    /\ how = "declined" => Payer[e] # Nobody
    /\ outcome' = [outcome EXCEPT ![e] = how]
    /\ UNCHANGED <<impression, charged, accrued>>

Move ==
    \E e \in Events :
        \/ Arrive(e)
        \/ Cost(e)
        \/ \E how \in {"declined", "dropped"} : Refuse(e, how)

Promise == Start /\ [][Move]_svars
=============================================================================
