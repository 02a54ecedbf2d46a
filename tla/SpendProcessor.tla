--------------------------- MODULE SpendProcessor ---------------------------
(***************************************************************************)
(* The spend processor (spend_processor.py) at the granularity of its SQL  *)
(* statements, with the portal handlers that write the same rows.          *)
(*                                                                         *)
(* Several passes run at once: the background loop of each machine, the    *)
(* admin endpoint and the CLI.  A pass is one SQLAlchemy session; each of  *)
(* its events is one READ COMMITTED transaction.  Three facts of that      *)
(* session shape the model:                                                *)
(*   - only the event row is locked (FOR UPDATE SKIP LOCKED); the campaign *)
(*     and the two organizations are read without a lock;                  *)
(*   - sessions are made with expire_on_commit=False, so a row object that *)
(*     is still referenced is reused, not refreshed: the last campaign,    *)
(*     advertiser and OEM of a pass are a one-place cache per worker;      *)
(*   - `row.column += n` is flushed as SET column = <the Python value>,    *)
(*     for the columns whose value changed only.                           *)
(***************************************************************************)
EXTENDS Pricing, FiniteSets, FiniteSetsExt

CONSTANTS
    Events,        \* ad_played events
    Campaigns, Advertisers, Oems, Fleets,
    Workers,       \* concurrent passes of process_pending_events
    Requests,      \* portal calls (deposit, webhook credit, pause, resume)
    CampaignOf,    \* the campaign an event's payload names
    FleetOf,       \* the fleet that reported an event
    ReceivedAt,    \* events_raw.received_at
    Malformed,     \* events whose audience counts make int() raise
    AdvertiserOf, IsPromo, BudgetTotal, PerImpression, PerAttended,
    OemOf, SharePct,
    Attended,      \* audience sizes the correlated scene may hold
    Opening,       \* balance deposited before the behaviour starts
    TopUps,        \* amounts credited by a deposit
    BatchLimit,    \* LIMIT of the candidate query
    MaxCrashes,    \* bound on process deaths
    NoReference,   \* payload without a campaign_id
    Unknown,       \* payload naming no existing campaign
    None           \* no row, no event, no lock holder

ASSUME KindsAssumption ==
    /\ Advertisers \cap Oems = {}
    /\ None \notin Events \cup Workers \cup Advertisers
    /\ NoReference \notin Campaigns
    /\ Unknown \notin Campaigns

ASSUME WiringAssumption ==
    /\ CampaignOf \in [Events -> Campaigns \cup {NoReference, Unknown}]
    /\ FleetOf \in [Events -> Fleets]
    /\ ReceivedAt \in [Events -> Nat]
    /\ Malformed \subseteq Events
    /\ AdvertiserOf \in [Campaigns -> Advertisers]
    /\ OemOf \in [Fleets -> Oems]

ASSUME PricesAssumption ==
    /\ IsPromo \in [Campaigns -> BOOLEAN]
    /\ BudgetTotal \in [Campaigns -> Nat]
    /\ PerImpression \in [Campaigns -> Nat]
    /\ PerAttended \in [Campaigns -> Nat]
    /\ SharePct \in [Fleets -> 0..Scale]
    /\ Attended \subseteq Nat
    /\ Opening \in [Advertisers -> Nat]
    /\ TopUps \subseteq Nat

ASSUME BoundsAssumption == BatchLimit \in Nat \ {0} /\ MaxCrashes \in Nat

VARIABLES
    \* the database
    outcome,       \* what became of each event; "absent": not received yet
    impression,    \* the impression row of an event
    lock,          \* holder of an event's row lock
    enabled, status, spent,            \* campaigns
    balance, pending,                  \* organizations
    deposited, charged, accrued,       \* ledger totals per organization and kind
    grossed,       \* history: gross price of a campaign's impressions
    \* the workers
    pc, todo, event,
    campaignRow, advertiserRow, oemRow,   \* the session's row objects
    sawEnabled,    \* history: campaigns seen enabled since the pass began
    crashes,
    \* the portal requests
    stage, task

events    == <<outcome, impression, lock>>
campaigns == <<enabled, status, spent>>
money     == <<balance, pending, deposited, charged, accrued, grossed>>
rows      == <<campaignRow, advertiserRow, oemRow>>
portal    == <<stage, task>>
vars == <<events, campaigns, money, pc, todo, event, rows, sawEnabled, crashes, portal>>

Final == {"costed", "declined", "dropped"}

CampaignRows   == [id : Campaigns, enabled : BOOLEAN, status : {"active", "paused"}, spent : Nat]
AdvertiserRows == [id : Advertisers, balance : Int]
OemRows        == [id : Oems, pending : Nat]
Deposits == [op : {"deposit"}, org : Advertisers, seen : Int, amount : Nat]
Toggles  == [op : {"pause", "resume"}, row : CampaignRows]

ASSUME NoneAssumption ==
    /\ None \notin CampaignRows /\ None \notin AdvertiserRows /\ None \notin OemRows
    /\ None \notin Quotes /\ None \notin Deposits /\ None \notin Toggles

\* The value of every variable has the shape its column or local has.
TypeOK ==
    /\ outcome \in [Events -> {"absent", "pending"} \cup Final]
    /\ impression \in [Events -> Quotes \cup {None}]
    /\ lock \in [Events -> Workers \cup {None}]
    /\ enabled \in [Campaigns -> BOOLEAN]
    /\ status \in [Campaigns -> {"active", "paused"}]
    /\ spent \in [Campaigns -> Nat]
    /\ balance \in [Advertisers -> Int]
    /\ pending \in [Oems -> Nat]
    /\ deposited \in [Advertisers -> Nat]
    /\ charged \in [Advertisers -> Nat]
    /\ accrued \in [Oems -> Nat]
    /\ grossed \in [Campaigns -> Nat]
    /\ pc \in [Workers -> {"idle", "scan", "claimed", "campaign", "advertiser", "oem"}]
    /\ todo \in [Workers -> SUBSET Events]
    /\ event \in [Workers -> Events \cup {None}]
    /\ campaignRow \in [Workers -> CampaignRows \cup {None}]
    /\ advertiserRow \in [Workers -> AdvertiserRows \cup {None}]
    /\ oemRow \in [Workers -> OemRows \cup {None}]
    /\ sawEnabled \in [Workers -> SUBSET Campaigns]
    /\ crashes \in 0..MaxCrashes
    /\ stage \in [Requests -> {"new", "open", "closed"}]
    /\ task \in [Requests -> Deposits \cup Toggles \cup {None}]

Init ==
    /\ outcome = [e \in Events |-> "absent"]
    /\ impression = [e \in Events |-> None]
    /\ lock = [e \in Events |-> None]
    /\ enabled = [c \in Campaigns |-> TRUE]
    /\ status = [c \in Campaigns |-> "active"]
    /\ spent = [c \in Campaigns |-> 0]
    /\ balance = Opening
    /\ deposited = Opening
    /\ charged = [a \in Advertisers |-> 0]
    /\ pending = [o \in Oems |-> 0]
    /\ accrued = [o \in Oems |-> 0]
    /\ grossed = [c \in Campaigns |-> 0]
    /\ pc = [w \in Workers |-> "idle"]
    /\ todo = [w \in Workers |-> {}]
    /\ event = [w \in Workers |-> None]
    /\ campaignRow = [w \in Workers |-> None]
    /\ advertiserRow = [w \in Workers |-> None]
    /\ oemRow = [w \in Workers |-> None]
    /\ sawEnabled = [w \in Workers |-> {}]
    /\ crashes = 0
    /\ stage = [r \in Requests |-> "new"]
    /\ task = [r \in Requests |-> None]

----------------------------------------------------------------------------
(* Arrival: the batch endpoint commits an ad_played row (EventIngest).     *)

Receive(e) ==
    /\ outcome[e] = "absent"
    /\ outcome' = [outcome EXCEPT ![e] = "pending"]
    /\ UNCHANGED <<impression, lock, campaigns, money, pc, todo, event, rows,
                   sawEnabled, crashes, portal>>

----------------------------------------------------------------------------
(* One pass: the candidate snapshot, then one transaction per event.       *)

Candidates == {e \in Events : outcome[e] = "pending"}

\* The first BatchLimit candidates by received_at, ties in any order.
IsBatch(S) ==
    /\ S \subseteq Candidates
    /\ Cardinality(S) <= BatchLimit
    /\ S = Candidates \/ Cardinality(S) = BatchLimit
    /\ \A e \in S, f \in Candidates \ S : ReceivedAt[e] <= ReceivedAt[f]

Earliest(w, e) == e \in todo[w] /\ \A f \in todo[w] : ReceivedAt[e] <= ReceivedAt[f]

\* Mutant of StartPass: one session for the life of the loop, so the row
\* objects of the previous pass are reused.
StartPassKeepingSession(w) ==
    /\ pc[w] = "idle"
    /\ Candidates # {}
    /\ \E S \in SUBSET Candidates : IsBatch(S) /\ todo' = [todo EXCEPT ![w] = S]
    /\ pc' = [pc EXCEPT ![w] = "scan"]
    /\ sawEnabled' = [sawEnabled EXCEPT ![w] = {c \in Campaigns : enabled[c]}]
    /\ UNCHANGED <<events, campaigns, money, event, rows, crashes, portal>>

\* run_once: a fresh session and the snapshot of candidate ids.
StartPass(w) ==
    /\ pc[w] = "idle"
    /\ Candidates # {}
    /\ \E S \in SUBSET Candidates : IsBatch(S) /\ todo' = [todo EXCEPT ![w] = S]
    /\ pc' = [pc EXCEPT ![w] = "scan"]
    /\ campaignRow' = [campaignRow EXCEPT ![w] = None]
    /\ advertiserRow' = [advertiserRow EXCEPT ![w] = None]
    /\ oemRow' = [oemRow EXCEPT ![w] = None]
    /\ sawEnabled' = [sawEnabled EXCEPT ![w] = {c \in Campaigns : enabled[c]}]
    /\ UNCHANGED <<events, campaigns, money, event, crashes, portal>>

\* Mutant of Claimable: the id of the snapshot is trusted, without the
\* re-select that locks the row and looks at processed_at again.
ClaimableAlways(e) == TRUE

Claimable(e) == lock[e] = None /\ outcome[e] = "pending"

\* The locking re-select finds the row.
Claim(w) ==
    /\ pc[w] = "scan"
    /\ \E e \in todo[w] :
          /\ Earliest(w, e)
          /\ Claimable(e)
          /\ lock' = [lock EXCEPT ![e] = w]
          /\ event' = [event EXCEPT ![w] = e]
          /\ todo' = [todo EXCEPT ![w] = @ \ {e}]
    /\ pc' = [pc EXCEPT ![w] = "claimed"]
    /\ UNCHANGED <<outcome, impression, campaigns, money, rows, sawEnabled, crashes, portal>>

\* The re-select finds nothing: locked by another pass, or settled since.
SkipTaken(w) ==
    /\ pc[w] = "scan"
    /\ \E e \in todo[w] :
          /\ Earliest(w, e)
          /\ ~Claimable(e)
          /\ todo' = [todo EXCEPT ![w] = @ \ {e}]
    /\ UNCHANGED <<events, campaigns, money, pc, event, rows, sawEnabled, crashes, portal>>

EndPass(w) ==
    /\ pc[w] = "scan"
    /\ todo[w] = {}
    /\ pc' = [pc EXCEPT ![w] = "idle"]
    /\ UNCHANGED <<events, campaigns, money, todo, event, rows, sawEnabled, crashes, portal>>

\* COMMIT of one event's transaction: processed_at is set, the lock released.
Finish(w, how) ==
    /\ outcome' = [outcome EXCEPT ![event[w]] = how]
    /\ lock' = [lock EXCEPT ![event[w]] = None]
    /\ event' = [event EXCEPT ![w] = None]
    /\ pc' = [pc EXCEPT ![w] = "scan"]

(* No campaign_id in the payload: processed, not costed.                   *)
DropUnreferenced(w) ==
    /\ pc[w] = "claimed"
    /\ CampaignOf[event[w]] = NoReference
    /\ Finish(w, "dropped")
    /\ UNCHANGED <<impression, campaigns, money, todo, rows, sawEnabled, crashes, portal>>

\* A query whose row has the primary key of the object still referenced
\* returns that object as it is; any other row is read from the database.
Load(cached, id, fresh) == IF cached # None /\ cached.id = id THEN cached ELSE fresh

LoadCampaign(w) ==
    LET c == CampaignOf[event[w]]
    IN  /\ pc[w] = "claimed"
        /\ c # NoReference
        /\ campaignRow' = [campaignRow EXCEPT ![w] =
               IF c = Unknown THEN None
               ELSE Load(@, c, [id |-> c, enabled |-> enabled[c],
                                status |-> status[c], spent |-> spent[c]])]
        /\ pc' = [pc EXCEPT ![w] = "campaign"]
        /\ UNCHANGED <<events, campaigns, money, todo, event, advertiserRow, oemRow,
                       sawEnabled, crashes, portal>>

Costable(row) == row # None /\ row.enabled

\* Unknown or disabled campaign: processed, not costed.
DropDisabled(w) ==
    /\ pc[w] = "campaign"
    /\ ~Costable(campaignRow[w])
    /\ Finish(w, "dropped")
    /\ UNCHANGED <<impression, campaigns, money, todo, rows, sawEnabled, crashes, portal>>

LoadAdvertiser(w) ==
    /\ pc[w] = "campaign"
    /\ Costable(campaignRow[w])
    /\ LET a == AdvertiserOf[campaignRow[w].id]
       IN  advertiserRow' = [advertiserRow EXCEPT ![w] =
               Load(@, a, [id |-> a, balance |-> balance[a]])]
    /\ pc' = [pc EXCEPT ![w] = "advertiser"]
    /\ UNCHANGED <<events, campaigns, money, todo, event, campaignRow, oemRow,
                   sawEnabled, crashes, portal>>

LoadOem(w) ==
    /\ pc[w] = "advertiser"
    /\ LET o == OemOf[FleetOf[event[w]]]
       IN  oemRow' = [oemRow EXCEPT ![w] = Load(@, o, [id |-> o, pending |-> pending[o]])]
    /\ pc' = [pc EXCEPT ![w] = "oem"]
    /\ UNCHANGED <<events, campaigns, money, todo, event, campaignRow, advertiserRow,
                   sawEnabled, crashes, portal>>

\* What the look-up of the scene correlated with a play may yield: 0 when the
\* event has no robot or no scene is stored yet, and an exception, no value at
\* all, when a count is not a number.
Audiences(e) == IF e \in Malformed THEN {} ELSE Attended

PriceOf(w, attended) ==
    LET c == campaignRow[w].id
    IN  Quote(PerImpression[c], PerAttended[c], attended, IsPromo[c], SharePct[FleetOf[event[w]]])

\* Mutant of Insufficient: declines only once the balance is gone.
InsufficientWhenEmpty(charge, row) == charge > 0 /\ row.balance <= 0

Insufficient(charge, row) == charge > 0 /\ row.balance - charge < 0

\* The advertiser cannot pay: no impression, and the campaign is paused.
Decline(w) ==
    LET row == campaignRow[w]
    IN  /\ pc[w] = "oem"
        /\ \E n \in Audiences(event[w]) : Insufficient(PriceOf(w, n).charge, advertiserRow[w])
        /\ campaignRow' = [campaignRow EXCEPT ![w].status = "paused"]
        /\ status' = IF row.status = "paused" THEN status
                     ELSE [status EXCEPT ![row.id] = "paused"]
        /\ Finish(w, "declined")
        /\ UNCHANGED <<impression, enabled, spent, money, todo, advertiserRow, oemRow,
                       sawEnabled, crashes, portal>>

\* What an ORM flush does to one column: an UPDATE to the Python value if
\* that value differs from the one loaded, nothing otherwise.
Flush(column, key, loaded, value) ==
    IF value = loaded THEN column ELSE [column EXCEPT ![key] = value]

Exhausted(c, total) == BudgetTotal[c] > 0 /\ total >= BudgetTotal[c]

\* Mutant of WriteStatus: the whole row is written, as a merge would.
WriteWholeStatus(row, new) ==
    /\ status' = [status EXCEPT ![row.id] = new]
    /\ enabled' = [enabled EXCEPT ![row.id] = row.enabled]

WriteStatus(row, new) ==
    /\ status' = Flush(status, row.id, row.status, new)
    /\ UNCHANGED enabled

\* Mutant of PayoutDue: the whole charge is accrued to the OEM.
PayoutDueWhole(q) == q.charge

PayoutDue(q) == q.oem

\* Mutant of BudgetUse: the charge is used up twice, once per ledger row.
BudgetUseTwice(q) == q.gross + q.charge

BudgetUse(q) == q.gross

\* The impression, its ledger rows and the money, in one transaction.
Bill(w, q) ==
    LET row == campaignRow[w]
        a   == advertiserRow[w]
        o   == oemRow[w]
        total == row.spent + BudgetUse(q)
        after == IF Exhausted(row.id, total) THEN "paused" ELSE row.status
    IN  /\ pc[w] = "oem"
        /\ ~Insufficient(q.charge, a)
        /\ impression' = [impression EXCEPT ![event[w]] = q]
        /\ charged' = [charged EXCEPT ![a.id] = @ + q.charge]
        /\ accrued' = [accrued EXCEPT ![o.id] = @ + q.oem]
        /\ grossed' = [grossed EXCEPT ![row.id] = @ + q.gross]
        /\ spent' = Flush(spent, row.id, row.spent, total)
        /\ balance' = Flush(balance, a.id, a.balance, a.balance - q.charge)
        /\ pending' = Flush(pending, o.id, o.pending, o.pending + PayoutDue(q))
        /\ WriteStatus(row, after)
        /\ campaignRow' = [campaignRow EXCEPT ![w] = [row EXCEPT !.spent = total, !.status = after]]
        /\ advertiserRow' = [advertiserRow EXCEPT ![w].balance = @ - q.charge]
        /\ oemRow' = [oemRow EXCEPT ![w].pending = @ + PayoutDue(q)]
        /\ Finish(w, "costed")
        /\ UNCHANGED <<deposited, todo, sawEnabled, crashes, portal>>

Charge(w) == \E n \in Audiences(event[w]) : Bill(w, PriceOf(w, n))

\* Mutant of Released: the claim outlives the connection, as a claim column
\* without an expiry would.
ReleasedNever(w) == lock

\* Row locks end with their transaction.
Released(w) == [e \in Events |-> IF lock[e] = w THEN None ELSE lock[e]]

\* The session is closed and the open transaction rolled back.
Leave(w) ==
    /\ pc' = [pc EXCEPT ![w] = "idle"]
    /\ todo' = [todo EXCEPT ![w] = {}]
    /\ event' = [event EXCEPT ![w] = None]
    /\ lock' = Released(w)
    /\ campaignRow' = [campaignRow EXCEPT ![w] = None]
    /\ advertiserRow' = [advertiserRow EXCEPT ![w] = None]
    /\ oemRow' = [oemRow EXCEPT ![w] = None]
    /\ UNCHANGED <<outcome, impression, campaigns, money, sawEnabled, portal>>

\* int() raises on a malformed count: the exception leaves the whole pass,
\* and the loop goes back to sleep.
Abort(w) ==
    /\ pc[w] = "oem"
    /\ event[w] \in Malformed
    /\ Leave(w)
    /\ UNCHANGED crashes

\* The process dies, or loses its database connection.
Crash(w) ==
    /\ pc[w] # "idle"
    /\ crashes < MaxCrashes
    /\ crashes' = crashes + 1
    /\ Leave(w)

----------------------------------------------------------------------------
(* The portal: a request reads its row, then commits.                      *)

worker == <<pc, todo, event, rows, crashes>>

\* POST /deposit, and the webhook once it has decided to credit.
OpenDeposit(r) ==
    /\ stage[r] = "new"
    /\ \E a \in Advertisers, n \in TopUps :
          task' = [task EXCEPT ![r] = [op |-> "deposit", org |-> a, seen |-> balance[a], amount |-> n]]
    /\ stage' = [stage EXCEPT ![r] = "open"]
    /\ UNCHANGED <<events, campaigns, money, worker, sawEnabled>>

IsOpen(r, op) == stage[r] = "open" /\ task[r].op = op

Close(r) ==
    /\ stage' = [stage EXCEPT ![r] = "closed"]
    /\ task' = [task EXCEPT ![r] = None]

\* Mutant of LedgerDeposit: the deposit's transaction row is left out.
NoLedgerDeposit(t) == UNCHANGED deposited

LedgerDeposit(t) == deposited' = [deposited EXCEPT ![t.org] = @ + t.amount]

CommitDeposit(r) ==
    LET t == task[r]
    IN  /\ IsOpen(r, "deposit")
        /\ balance' = Flush(balance, t.org, t.seen, t.seen + t.amount)
        /\ LedgerDeposit(t)
        /\ Close(r)
        /\ UNCHANGED <<events, campaigns, pending, charged, accrued, grossed, worker, sawEnabled>>

\* Mutant of ResumeAllowed: the budget is not looked at.
ResumeAlways(c) == TRUE

ResumeAllowed(c) == spent[c] < BudgetTotal[c]

\* pause and resume load the campaign; resume of an exhausted one answers 400.
OpenToggle(r, op) ==
    /\ stage[r] = "new"
    /\ \E c \in Campaigns :
          /\ op = "resume" => ResumeAllowed(c)
          /\ task' = [task EXCEPT ![r] =
                 [op |-> op, row |-> [id |-> c, enabled |-> enabled[c],
                                      status |-> status[c], spent |-> spent[c]]]]
    /\ stage' = [stage EXCEPT ![r] = "open"]
    /\ UNCHANGED <<events, campaigns, money, worker, sawEnabled>>

CommitPause(r) ==
    LET row == task[r].row
    IN  /\ IsOpen(r, "pause")
        /\ status' = Flush(status, row.id, row.status, "paused")
        /\ enabled' = Flush(enabled, row.id, row.enabled, FALSE)
        /\ Close(r)
        /\ UNCHANGED <<events, spent, money, worker, sawEnabled>>

CommitResume(r) ==
    LET row == task[r].row
    IN  /\ IsOpen(r, "resume")
        /\ status' = Flush(status, row.id, row.status, "active")
        /\ enabled' = Flush(enabled, row.id, row.enabled, TRUE)
        /\ sawEnabled' = [w \in Workers |-> sawEnabled[w] \cup {c \in Campaigns : enabled'[c]}]
        /\ Close(r)
        /\ UNCHANGED <<events, spent, money, worker>>

----------------------------------------------------------------------------

Settle(w) == Decline(w) \/ Charge(w) \/ Abort(w)

Continue(w) ==
    \/ Claim(w) \/ SkipTaken(w) \/ EndPass(w)
    \/ DropUnreferenced(w) \/ LoadCampaign(w) \/ DropDisabled(w)
    \/ LoadAdvertiser(w) \/ LoadOem(w) \/ Settle(w)

Step(w) == StartPass(w) \/ Continue(w)

Open(r) == OpenDeposit(r) \/ OpenToggle(r, "pause") \/ OpenToggle(r, "resume")
Commit(r) == CommitDeposit(r) \/ CommitPause(r) \/ CommitResume(r)

Request(r) == Open(r) \/ Commit(r)

Next ==
    \/ \E e \in Events : Receive(e)
    \/ \E w \in Workers : Step(w) \/ Crash(w)
    \/ \E r \in Requests : Request(r)

Spec == Init /\ [][Next]_vars

\* The loop runs a pass every spend_processor_interval_seconds and nothing
\* in a pass waits for another actor, so each worker keeps taking steps.
FairSpec == Spec /\ \A w \in Workers : WF_vars(Step(w))

(* Safety, for any number of passes, portal calls and crashes.             *)

Payer == [e \in Events |-> IF CampaignOf[e] \in Campaigns THEN AdvertiserOf[CampaignOf[e]] ELSE None]
Payee == [e \in Events |-> OemOf[FleetOf[e]]]

\* The insufficient-balance check (spend_processor.py:234) reads a balance that
\* may be stale, and still no balance column ever goes below zero.
NoOverdraft == \A a \in Advertisers : balance[a] >= 0

\* Concurrent writers may lose each other's update, but never in a way that
\* leaves an organization with more than was ever deposited for it.
BalanceBacked == \A a \in Advertisers : balance[a] <= deposited[a]

\* A campaign is never shown to have used more of its budget than the gross
\* price of the impressions it got.
SpentNeverOvercounts == \A c \in Campaigns : spent[c] <= grossed[c]

\* An OEM is never shown a payout larger than its oem_accrual rows.
PayoutNeverOvercounts == \A o \in Oems : pending[o] <= accrued[o]

\* A pass may go on charging a campaign that its owner has paused meanwhile, but
\* only if the campaign was enabled at some moment of that same pass.
PauseTakesEffectNextPass ==
    \A w \in Workers : pc[w] \in {"advertiser", "oem"} =>
        campaignRow[w].id \in sawEnabled[w]

ReactivatedByOwner ==
    \A c \in Campaigns :
        (~enabled[c] /\ enabled'[c]) \/ (status[c] = "paused" /\ status'[c] = "active")
        => \E r \in Requests : IsOpen(r, "resume") /\ task[r].row.id = c /\ stage'[r] = "closed"

\* Only the owner's resume makes a campaign servable again: a pass that writes
\* to a stale campaign row does not bring back its status or enabled flag.
OnlyResumeReactivates == [][ReactivatedByOwner]_vars

\* Each event is settled at most once, with matching rows, in one step.
Promised == INSTANCE Settlement WITH Nobody <- None
SettlesAsPromised == Promised!Promise

----------------------------------------------------------------------------
(* The inductive invariant behind the bounds above (SpendProcessorProofs). *)

InTransaction(w) == pc[w] \in {"claimed", "campaign", "advertiser", "oem"}

\* A worker in a transaction holds the lock of its event, which is unsettled, and
\* a lock is held by a worker in a transaction on that event.
LocksInv ==
    /\ \A w \in Workers :
          IF InTransaction(w)
          THEN /\ event[w] \in Events
               /\ lock[event[w]] = w
               /\ outcome[event[w]] = "pending"
          ELSE event[w] = None
    /\ \A e \in Events : lock[e] # None => event[lock[e]] = e
    /\ \A e \in Events : impression[e] # None <=> outcome[e] = "costed"

\* The rows a worker has loaded are those its event refers to.
RowsInv ==
    \A w \in Workers :
        /\ pc[w] = "campaign" /\ Costable(campaignRow[w]) => campaignRow[w].id = CampaignOf[event[w]]
        /\ pc[w] \in {"advertiser", "oem"} =>
              /\ Costable(campaignRow[w])
              /\ campaignRow[w].id = CampaignOf[event[w]]
              /\ advertiserRow[w] # None
              /\ advertiserRow[w].id = AdvertiserOf[campaignRow[w].id]
        /\ pc[w] = "oem" =>
              /\ oemRow[w] # None
              /\ oemRow[w].id = OemOf[FleetOf[event[w]]]

\* However stale a copy is, it stays within the totals, which only grow: that is
\* why writing it back, less a charge or plus a share, stays within them too.
CopiesInv ==
    /\ \A w \in Workers :
          /\ campaignRow[w] # None => campaignRow[w].spent <= grossed[campaignRow[w].id]
          /\ advertiserRow[w] # None =>
                /\ 0 <= advertiserRow[w].balance
                /\ advertiserRow[w].balance <= deposited[advertiserRow[w].id]
          /\ oemRow[w] # None => oemRow[w].pending <= accrued[oemRow[w].id]
    /\ \A r \in Requests : stage[r] = "open" =>
          /\ task[r] # None
          /\ task[r].op = "deposit" =>
                /\ 0 <= task[r].seen
                /\ task[r].seen <= deposited[task[r].org]

Bounds == NoOverdraft /\ BalanceBacked /\ SpentNeverOvercounts /\ PayoutNeverOvercounts

IInv == TypeOK /\ LocksInv /\ RowsInv /\ CopiesInv /\ Bounds

----------------------------------------------------------------------------
(* When nothing overlaps: at most one pass or portal call at a time.       *)

Quiet == (\A w \in Workers : pc[w] = "idle") /\ (\A r \in Requests : stage[r] # "open")

SerialNext ==
    \/ \E e \in Events : Receive(e)
    \/ \E w \in Workers : Continue(w) \/ Crash(w) \/ (Quiet /\ StartPass(w))
    \/ \E r \in Requests : Commit(r) \/ (Quiet /\ Open(r))

Serial == Init /\ [][SerialNext]_vars

\* The balance columns agree with the ledger: an advertiser's balance is its
\* deposits less its charges, an OEM's payout its accruals, a campaign's spend
\* the gross price of its impressions.
ColumnsMatchLedger ==
    /\ \A a \in Advertisers : balance[a] = deposited[a] - charged[a]
    /\ \A o \in Oems : pending[o] = accrued[o]
    /\ \A c \in Campaigns : spent[c] = grossed[c]

\* A campaign that has used its budget stays paused: the step that exhausts it
\* pauses it and resume refuses it.
ExhaustedStaysPaused ==
    \A c \in Campaigns :
        BudgetTotal[c] > 0 /\ spent[c] >= BudgetTotal[c] => status[c] = "paused"

\* Every advertiser balance is what its deposits and its ledger rows say, when
\* passes and portal calls overlap (models.py:412, spend_processor.py:1-9).
BalanceIsLedgerSum == \A a \in Advertisers : balance[a] = deposited[a] - charged[a]

----------------------------------------------------------------------------
(* Liveness.                                                               *)

\* Every received play that can be priced is settled: no skip, crash or overlap
\* of passes leaves it unprocessed for ever.
PlaysSettled ==
    \A e \in Events \ Malformed : outcome[e] = "pending" ~> outcome[e] \in Final
=============================================================================
