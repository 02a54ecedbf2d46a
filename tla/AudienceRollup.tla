--------------------------- MODULE AudienceRollup ---------------------------
(***************************************************************************)
(* The counts of the live panel (routes/sessions.py, GET /metrics) and of  *)
(* the audience reports (routes/audience.py, _rollup) over rows of         *)
(* audience_samples: records with a moment, its session, track, kind and   *)
(* tier.  Track ids are given by the robot anew in each session.           *)
(***************************************************************************)
EXTENDS Naturals, FiniteSets, Functions

OfKind(rows, kind) == {x \in rows : x.kind = kind}

\* Distinct people: a track is one person in one session.
People(rows) == Cardinality({<<x.session, x.track>> : x \in rows})

\* Rows of one session; a dwell counts for every tier up to the one it reached.
SessionTiles(rows, s) ==
    LET own == {x \in rows : x.session = s}
        dwell == OfKind(own, "dwell")
    IN [reach   |-> People(OfKind(own, "passerby")),
        gross   |-> Cardinality(OfKind(own, "passerby")),
        paused  |-> People(dwell),
        engaged |-> People({x \in dwell : x.tier \in {"engaged", "deep"}}),
        deep    |-> People({x \in dwell : x.tier = "deep"}),
        close   |-> Cardinality(OfKind(own, "close_approach"))]

Counts == {"reach", "gross", "paused", "engaged", "deep", "close"}

\* A report adds up the sessions of its campaign or display.
Rollup(rows, sessions) ==
    [c \in Counts |-> SumFunctionOnSet([s \in sessions |-> SessionTiles(rows, s)[c]], sessions)]
=============================================================================
