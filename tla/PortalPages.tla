---------------------------- MODULE PortalPages ----------------------------
(***************************************************************************)
(* The pages of the two portals that add up impressions while the spend    *)
(* processor and the portal calls go on: the dashboards of an advertiser   *)
(* and of an OEM, the page of a campaign and that of a fleet.  A page runs *)
(* one statement after another in a READ COMMITTED transaction, so each    *)
(* sees what has been committed by then; organizations and campaigns are   *)
(* read first and not again.                                               *)
(*                                                                         *)
(* Here passes and calls do not overlap each other (SpendProcessor's       *)
(* Serial), so that a page can only disagree by what it does itself.  Time *)
(* is in hours; an impression carries the time its play was shown.         *)
(***************************************************************************)
EXTENDS SpendProcessor, Sequences

CONSTANTS
    ShownAt,       \* events_raw.timestamp, given by the robot
    Now,           \* when a page is opened
    MaxPages       \* bound on the pages of a behaviour

Day == 24
Month == 30 * Day

ASSUME PagesAssumption ==
    /\ ShownAt \in [Events -> Nat]
    /\ Now \in Nat /\ Now >= Month /\ MaxPages \in Nat
    /\ IsFiniteSet(Events) /\ IsFiniteSet(Campaigns) /\ IsFiniteSet(Fleets)

\* A primary key is a UUID: no two rows of any tables share one.
ASSUME KeysAssumption ==
    /\ Campaigns \cap (Advertisers \cup Oems \cup Fleets) = {}
    /\ Fleets \cap (Advertisers \cup Oems) = {}
    /\ {None, NoReference, Unknown} \cap (Advertisers \cup Oems \cup Fleets) = {}
    /\ None \notin Campaigns

VARIABLES
    page,          \* the page in work, or None
    opened         \* pages so far

pageVars == <<page, opened>>

----------------------------------------------------------------------------
(* What a page shows, in the order in which it is read.                    *)

\* Mutant of CampaignDetail: the campaign is read after its impressions.
CampaignReadLast == <<"plays", "money", "days", "samples30", "used">>

CampaignDetail == <<"used", "plays", "money", "days", "samples30">>

AdvertiserDashboard == <<"campaigns", "active", "paused", "plays24", "plays30",
                         "money24", "money30", "samples24", "samples30">>

OemDashboard == <<"plays24", "plays30", "money24", "money30", "days", "fleets",
                  "samples24", "samples30">>

FleetDetail == <<"days", "plays24", "plays30", "money24", "money30", "samples30">>

Pages == {[on |-> c, shows |-> CampaignDetail] : c \in Campaigns}
         \cup {[on |-> a, shows |-> AdvertiserDashboard] : a \in Advertisers}
         \cup {[on |-> o, shows |-> OemDashboard] : o \in Oems}
         \cup {[on |-> f, shows |-> FleetDetail] : f \in Fleets}

Figures == {"used", "plays", "money", "days", "samples24", "samples30", "campaigns", "active",
            "paused", "plays24", "plays30", "money24", "money30", "fleets"}

\* The impressions a page is about.
Scope(on) == {e \in Events : impression[e] # None
                             /\ on \in {CampaignOf[e], Payer[e], Payee[e], FleetOf[e]}}

Since(on, hours) == {e \in Scope(on) : ShownAt[e] >= Now - hours}

\* An advertiser sees what it was charged, an OEM its share.
Share(on, e) == IF on \in Oems \cup Fleets THEN impression[e].oem ELSE impression[e].charge

Money(on, S) == SumFunctionOnSet([e \in S |-> Share(on, e)], S)

\* Mutant of InSeries: the series ends yesterday.
InSeriesToYesterday(e) == Now \div Day - ShownAt[e] \div Day \in 1..30

\* The series by day of the OEM pages has a place for today and the 29 dates before.
InSeries(e) == Now \div Day - ShownAt[e] \div Day \in 0..29

\* A campaign's series has a place for every date it finds.
Series(on) == {e \in Since(on, Month) : on \in Campaigns \/ InSeries(e)}

\* The rows by fleet of an OEM.
FleetsOf(on) == {f \in Fleets : OemOf[f] = on}

OwnCampaigns(on) == {c \in Campaigns : AdvertiserOf[c] = on}

Figure(on, name) ==
    CASE name = "used"      -> spent[on]
      [] name = "campaigns" -> Cardinality(OwnCampaigns(on))
      [] name \in {"active", "paused"} -> Cardinality({c \in OwnCampaigns(on) : status[c] = name})
      [] name = "plays"     -> Cardinality(Scope(on))
      [] name = "money"     -> Money(on, Scope(on))
      [] name \in {"plays24", "samples24"} -> Cardinality(Since(on, Day))
      [] name \in {"plays30", "samples30"} -> Cardinality(Since(on, Month))
      [] name = "money24"   -> Money(on, Since(on, Day))
      [] name = "money30"   -> Money(on, Since(on, Month))
      [] name = "days"      -> Money(on, Series(on))
      [] name = "fleets"    -> SumFunctionOnSet([f \in FleetsOf(on) |-> Money(f, Since(f, Month))],
                                              FleetsOf(on))

----------------------------------------------------------------------------

\* at: how many of its figures are read; alone: history, no impression or campaign
\* has changed since the page was opened.
OpenPage ==
    /\ page = None /\ opened < MaxPages
    /\ \E p \in Pages :
          page' = [on |-> p.on, shows |-> p.shows, at |-> 0,
                   figures |-> [name \in Figures |-> 0], alone |-> TRUE]
    /\ opened' = opened + 1
    /\ UNCHANGED vars

\* One statement of the page.
ReadFigure ==
    /\ page # None /\ page.at < Len(page.shows)
    /\ LET name == page.shows[page.at + 1]
       IN page' = [page EXCEPT !.at = page.at + 1,
                               !.figures[name] = Figure(page.on, name)]
    /\ UNCHANGED <<vars, opened>>

\* The answer is sent.
ShowPage ==
    /\ page # None /\ page.at = Len(page.shows)
    /\ page' = None
    /\ UNCHANGED <<vars, opened>>

Processing ==
    /\ SerialNext
    /\ page' = IF page = None THEN page
               ELSE [page EXCEPT !.alone = page.alone /\ UNCHANGED <<impression, status>>]
    /\ UNCHANGED opened

PagesInit == Init /\ page = None /\ opened = 0

PagesNext == OpenPage \/ ReadFigure \/ ShowPage \/ Processing

PagesSpec == PagesInit /\ [][PagesNext]_<<vars, pageVars>>

----------------------------------------------------------------------------
(* Properties.                                                             *)

Shown == IF page = None THEN {} ELSE {page.shows[i] : i \in 1..page.at}
Fig(name) == page.figures[name]

\* Whatever is settled while a page is read, no figure is ahead of one that covers
\* it: the last day of the month, the month of its fleets, the budget a campaign has
\* used of what its impressions cost.
NoFigureAhead ==
    \A p \in {<<"plays24", "plays30">>, <<"plays30", "samples30">>, <<"money24", "money30">>,
              <<"money30", "fleets">>, <<"used", "money">>} :
        /\ p[1] \in Shown /\ p[2] \in Shown
        /\ p[1] = "used" => ~IsPromo[page.on]
        => Fig(p[1]) <= Fig(p[2])

\* The plays of the month whose date is not among the 30 dates of the series: too
\* old, or stamped after today by the clock of a robot.
OnEdge == {e \in Since(page.on, Month) :
             \/ ShownAt[e] < (Now \div Day - 29) * Day
             \/ ShownAt[e] >= (Now \div Day + 1) * Day}

\* A page that nothing came between adds up: its campaigns are active or paused, its
\* fleets and its days make up the month, except for the money of the hours before
\* midnight of the first day and of dates to come, which the series has no place for.
PageAddsUp ==
    page # None /\ page.alone =>
        /\ "paused" \in Shown => Fig("active") + Fig("paused") = Fig("campaigns")
        /\ "fleets" \in Shown => Fig("fleets") = Fig("money30")
        /\ {"days", "money30"} \subseteq Shown =>
              Fig("days") = Fig("money30") - Money(page.on, OnEdge)
=============================================================================
