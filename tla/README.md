# TLA+ models of kovio-cloud

kovio-cloud is the control plane of an advertising platform for robots with
screens: a FastAPI service over PostgreSQL, with a background *spend processor*
that turns the plays robots report into priced impressions and moves money. The
modules here model the parts that move money, let plays in, or keep the histories
that reports are read from; TLC checks them on small instances, and TLAPS proves
the safety results for every instance.

Paths below are relative to `src/kovio_cloud/` of the repository.

## 1. Inventory

| component | state | operations | hard behaviour | what makes it correct |
|---|---|---|---|---|
| spend processor (`spend_processor.py`, started in `main.py`, also `admin.py` and `cli.py`) | `events_raw.processed_at`, `impressions`, `transactions`, campaign spend and status, balances and payouts | `process_pending_events`, `run_once`, loop | several passes at once, unlocked reads and absolute writes, reuse of row objects, cancellation mid-event, exceptions | a play is settled at most once, money and ledger move together, every play is settled in the end |
| advertiser portal (`routes/advertiser.py`) | organizations, campaigns, users, deposits | onboarding, campaign creation, pause, resume, deposit, checkout, Stripe webhook | overlapping webhook deliveries, check-then-insert, stale balance gate | one credit per checkout, one free campaign, each paid budget covered |
| SDK ingest (`routes/sdk.py`) | `events_raw`, `robots` | `events/batch`, `heartbeat`, `campaigns` | retries, one failing statement in a batch, races of first heartbeats | idempotent append-only log; what is acknowledged is stored |
| authentication (`auth.py`, keys in `routes/oem.py`, `routes/admin.py`) | `api_keys` | resolve, mint, revoke | the row lock of `last_used_at` | a key works until it is revoked |
| database sessions (`db.py`) | one session per request or pass | commit, roll back | commit before or after the answer, objects not expired | - |
| portal pages (`routes/advertiser.py`, `routes/oem.py`, `audience.py`) | none (read-only) | two dashboards, campaign page, fleet page | one statement after another while plays are settled; days against hours | figures of one page agree |
| recording sessions (`routes/sessions.py`) | `sessions`, `audience_samples`, RAM: latest frames, sensor reports, pending speech | start, stop, current, speak, frame, moments | races of two starts, state read before an await, process restarts, more than one process | one open session per robot, no frame of a closed session |
| displays and assignments (`routes/oem.py`, `display_insights.py`) | `custom_displays`, `display_assignments` | create, update, delete, assign, unassign, live metrics | time stamps taken before waiting, batch over robots, cascades | disjoint intervals, each event attributed once |
| playlists (`routes/audience.py`, `routes/oem.py`) | `custom_display_items.position` | add, patch, delete, reorder, load preset, replace | concurrent re-packing | positions dense and distinct |
| rollups (`routes/audience.py`, live panel of `routes/sessions.py`) | none (read-only) | aggregation | the same track in several samples, late and repeated uploads | counts of distinct tracks, never taken back |
| OEM fleets, admin CRUD, CLI bootstrap, Supabase JWT, config, schemas, migrations | rows written once per request | - | little | - |

Interactions: robots post events and heartbeats (ingest); the processor picks up
committed `ad_played` rows, reads campaign, fleet and organization rows that the
portals also write, and pauses campaigns; robots list the campaigns that are
left. Stripe calls the webhook, whose credit the processor draws down. A session
start assigns a display and counts the items of its playlist; moments are stamped
with the session that is open and, through it, with a campaign. The portal pages
read what the processor has settled. Everything meets in the database: there is no
other shared state except the RAM dictionaries of the recording sessions.

The hazards found in this code are listed line by line in `PROJECT.json`; a
hazard without a property has a note.

## 2. Modules

| module | models |
|---|---|
| `Pricing` | the Decimal arithmetic of an impression on integers: rounding, gross price, split |
| `Settlement` | abstract specification: what the processor promises of one play |
| `SpendProcessor` | the processor statement by statement, with the portal calls that write the same rows |
| `PortalPages` | `SpendProcessor` composed with the pages that read its results |
| `AdvertiserAccount` | the Stripe webhook, deposits and campaign creation, in the portal and by operators |
| `EventIngest` | `events/batch` and `heartbeat`, with the API key's row lock |
| `WindowLog` | abstract specification: what the assignment history promises its readers |
| `RobotWindows` | assignment and session windows: assign, unassign, deletion, start, stop, with row locks |
| `AudienceRollup` | the counts of the live panel and of the audience reports, as operators |
| `SessionRelay` | the live view of a robot: sessions, samples and what the process keeps in memory |
| `Playlist` | the items of a display and the requests that edit them |
| `SpendProcessorProofs`, `PortalPagesProofs`, `AdvertiserAccountProofs`, `EventIngestProofs`, `RobotWindowsProofs`, `SessionRelayProofs`, `PlaylistProofs` | theorems and proofs, one module per component (the arithmetic of `Pricing` is in the first) |
| `SumTheorems` | lemmas on sums over finite sets that three of them use |
| `MC...` | small instances for TLC |

How they compose: `SpendProcessor` uses `Pricing` and refines `Settlement`;
`PortalPages` extends `SpendProcessor`; `RobotWindows` refines `WindowLog`;
`SessionRelay` applies `AudienceRollup` to the samples it stores. `RobotWindows` and
`SessionRelay` are two views of a session, split where they do not interact: the
first has every statement and lock of `start` and `stop` and no memory, the second
the memory and the other requests, with a writer simply waiting for the one before.

### SpendProcessor

A worker is one running pass; its `pc` says which statement of the loop body is
next, `todo` is what is left of the candidate snapshot, `event` the play whose row
it has locked. `campaignRow`, `advertiserRow` and `oemRow` are the Python objects
of the session. `db.py` makes sessions with `expire_on_commit=False`, so an object
that is still referenced by a local variable is returned by the next query as it
is: `Load` takes the cached row when the id matches. A flush writes only columns
whose Python value changed, and writes that value: `Flush`.

| action | code |
|---|---|
| `Receive` | the ingest commits an `ad_played` row |
| `StartPass` | `run_once` and the snapshot query |
| `Claim`, `SkipTaken` | `FOR UPDATE SKIP LOCKED` re-select finds the row, or does not |
| `DropUnreferenced`, `LoadCampaign`, `DropDisabled` | campaign reference and row |
| `LoadAdvertiser`, `LoadOem` | fleet and organizations |
| `Decline` | insufficient balance: processed, campaign paused |
| `Charge` | impression, two ledger rows, money columns, pause on exhaustion, commit |
| `Abort` | `int()` of a malformed count raises out of the pass |
| `Crash` | the process dies or the task is cancelled; the transaction rolls back |
| `OpenDeposit` ... `CommitResume` | deposit, webhook credit, pause and resume: read, then commit |

`charged`, `accrued` and `deposited` are the totals of the `impression_charge`,
`oem_accrual` and `advertiser_deposit` rows per organization. The scene correlated
with a play is not modelled as data: any audience of the constant `Attended` may be
found, 0 standing for no robot or no scene yet (`Audiences`). `grossed` and
`sawEnabled` are history variables for the properties.

### AdvertiserAccount

A delivery is one webhook request: look for an earlier credit, read the
organization, commit balance and row, answer. Two deliveries of one checkout may
overlap: Stripe gives up on a slow answer and sends again. A topup is one
`POST /deposit`, which credits money that nobody paid, with a Stripe key or without:
read the organization, commit balance and `mock_deposit` row. A creation is one
`POST /campaigns`: load the organization, count its campaigns, pass the balance
gate, insert. The creations in `ByAdmin` are an operator's (`routes/admin.py`), which
count nothing, pass no gate and are never free (`AdminCreate`); an operator may also
create an organization with a balance (`Opening`). Stripe is external.

Two history variables keep apart what may overlap: `contended` holds checkouts of which
two deliveries overlapped, and organizations of which two requests that write its
balance did (deliveries, deposits); `met` holds, for each portal creation, the others of
its organization that were open when it began. The charges of the spend processor, which
write the same balance, are in `SpendProcessor`.

### EventIngest

Authentication updates `api_keys.last_used_at` in the request's own transaction, so
requests with one key are serialised until they end: `keyLock`. `Insert` is
`INSERT ... ON CONFLICT DO NOTHING`, which waits for an uncommitted row of the same
id. `Abort` is an insert the database refuses: the handler counts it as rejected
and goes on, but PostgreSQL ignores the rest of the transaction and turns its COMMIT
into a rollback. `told` and `spoiled` record what robots were told is stored, by
batches that were not and that were aborted. The robot SDK is external: it repeats
a job until it sees an answer.

`commitFirst`, in both modules, is the order of the commit in `get_session` and the
sending of the answer. FastAPI has changed that order between releases and
`pyproject.toml` only asks for 0.115 or later, so every run covers both builds.
Properties that need the commit first say so in their statement.

### PortalPages

A page is a list of figures, read one statement at a time in one READ COMMITTED
transaction (`OpenPage`, `ReadFigure`, `ShowPage`), while `Processing` takes steps of
`SpendProcessor`'s `Serial`: passes and portal calls that do not overlap each other, so
that a page can only disagree through its own reads. `vars` of the processor are
unchanged by a page, so the composition also checks the serial properties of the
processor. An impression carries the time its play was shown, in hours. `Day` and `Month`
are the windows of the code (24 h and 30 x 24 h), `InSeries` its 30 places by date. The
queries have no upper end, so that a play which a robot stamped ahead of the server's clock
is in every window; one dated after today has no place in the series, just as one of the
first hours of the month has none (`OnEdge`). Of the audience summary only its number of samples is kept. Lists that a page shows beside
its figures (fleets by name, recent impressions) are left out.

### RobotWindows

A job is a request that is made at most once; its `stage` says which statement is next.
`look` reads a session or a display, `stmt` takes the snapshot of an UPDATE or DELETE,
`apply` writes the matching rows one by one, `open` inserts. PostgreSQL's part is
external: a writer waits for the transaction that has written its row (`Holders`) and
then looks at the row again (`StillMatches`); an INSERT waits for whoever may leave or
take the open window (`Blockers`), then meets the partial unique index, the CHECK and the
foreign key (`Conflict`, `BadInterval`, `Refused`); requests that wait for one another are
found and one is aborted (`Victim`). Time stamps are distinct and taken when the code
takes them: before the statements for an assign, an unassign and a start, after the read
for a stop (`LookStop`). Robots of an assign, and rows of a statement, are taken in any
order: the code iterates a set, and a cascade has no order.

| action | code |
|---|---|
| `Begin` | authentication, look-ups, `now = datetime.now(...)` |
| `LookStart`, `LookStop` | display check of a start; session read of a stop |
| `Snapshot`, `Apply` | close the open windows, delete with cascades |
| `OpenWindow` | INSERT of the window, then the next robot or the session of a start |
| `Fail`, `Victim`, `Die` | constraint, deadlock, lost connection: rolled back |
| `Commit` | COMMIT |

### SessionRelay

One robot and some displays: `loops` holds those with more than one item, `shown` is the
display of the robot's open assignment. A start may name a display (`SessionStartIn` has it
optional). Only then it counts that display's items, is blended if there are several, and
refuses a campaign for it (`IsBlended`, `MayBind`); it also assigns the robot to it, unless
it is (`Assigns`). A start that names none takes a campaign whatever the robot shows.
A request finds what it needs (`ReadStart`, `ReadStop`, `ReadOpen`), acts on
what it found (`Start`, `Stop`, `Speak`, `PostFrame`, `Current`, `PostMoments`) and commits
or fails; between these steps others run, because the code awaits there. `ram` says under
which session each entry in memory was posted. Memory is written before the commit and is
not rolled back: `Drop` leaves it as it is. `Restart` empties it. `Age` makes the utterance
older than its time to live, after which a poll drops it. `EditPlaylist` changes whether
a display loops, and `Assign` what the robot shows, without the session learning of it.
Samples are inserted ON CONFLICT DO NOTHING: `Unknown`. Authentication and look-up are one step, and so are the INSERTs of one
upload: no other request can see a difference, since the key is locked first and nothing
is committed in between. `stop` may name any session that was started, open or not, and
empties the memory either way, that of another session included.

### Playlist

`rows` maps items to positions. An edit reads the items, works out positions, writes rows
by primary key one after another in the order of the unit of work, waiting for rows that
others have written. `Pack` is the read that a delete makes after deleting; rows whose
position does not change are not written (`Changed`). A row that has gone makes the flush
fail if it was the only one; of several the driver may not report it, so both outcomes are
allowed (`Update`). Ties in position are read in any order (`Orders`). A reorder asks for
one of two orders of the items it reads (`Lists`).

### AudienceRollup

`SessionTiles` are the distinct-person and gross counts of one session, `Rollup` their sum
over the sessions of a report. A track is one person in one session.

## 3. Runs

| run | question | bounds |
|---|---|---|
| `spend_concurrent` | safety under overlap, and refinement of `Settlement` | 2 workers, 3 plays (two of one campaign, so that rows are reused; one promo), 1 portal call, 1 crash: 1.0 M states |
| `spend_serial` | do columns and ledger agree exactly when nothing overlaps, and what do pages show meanwhile? | 1 worker, 3 plays (one malformed, one on the edge of the month), 2 portal calls, 1 crash, 1 page: 2.1 M states |
| `spend_liveness` | is every play settled? | 2 workers, a paid play, two that are dropped and a malformed one behind them, snapshot of 2, 1 crash: 45 thousand states |
| `spend_overlap` | violation: two passes lose a debit | 2 workers, 2 plays |
| `spend_malformed` | violation: a malformed count blocks the queue | 1 worker, 2 plays |
| `account_funding` | credits, free tier, balance gate | 1 checkout, 2 deliveries at a time, 1 deposit, 2 portal creations and one by an operator (two with one id), an opening balance of 1 cent, 1 loss, 1 duplicate: 590 thousand states |
| `account_double` | violation: double credit | 2 checkouts (one delayed payment), 2 deliveries, no loss |
| `ingest_retries` | idempotence, acknowledgement, liveness | 2 requests at a time, 2 overlapping batches (one event of no valid time, one that cannot be stored), 2 heartbeats with 2 keys, 1 loss |
| `ingest_accepted` | violation: accepted and not stored | the same without loss |
| `robot_windows` | windows, constraints, deadlocks, refinement of `WindowLog` | any 3 of 8 requests (two assigns of both robots, an unassign, a deletion, two starts, two stops), 2 keys: 95 thousand states |
| `session_relay` | memory against sessions, attribution and counts of samples | 2 requests at a time, 4 in all, 2 sessions, 2 keys, 2 moments, 1 display, 1 edit or reassignment: 509 thousand states |
| `playlist_edits` | order of the items under overlapping edits | any 4 of 7 edits of 3 items, 2 keys and the portal: 88 thousand states |

Bounds: a lost update needs two writers, a double credit two deliveries, a stale
row two plays of one campaign in a pass with a portal call between them, so two of
each actor already show the hazards. Two assigns that share two robots can deadlock, and
a third request meets what they leave. Four edits are two that overlap, one that spoils
further and one that repairs. One display is enough in `session_relay`: what is shown is the
one a start named, or none, or one that a start did not name, and at the start it may loop
or not, and be shown or not. Budget (4 cents), funds (3 or 4 cents) and prices
(1.5 cents rounded up to 2, 1 cent per person) are chosen so that a campaign can be
exhausted, a balance run dry, a top-up matter and both roundings bite. `MaxCrashes`,
`MaxLosses`, `MaxDuplicates`, `BatchLimit`, `MaxPages`, `MaxRequests`, `MaxSends`,
`MaxEdits` and `MaxSessions` are the only bounds. `session_relay` uses symmetry of requests and keys; it
checks no liveness. `CHECK_DEADLOCK FALSE` is given wherever the system may stop because
its finitely many plays and requests are handled.

What the passing runs show, beyond types:

- `SettlesAsPromised`: each play is settled at most once, impression and ledger pair in
  one step, across passes and crashes;
- `NoOverdraft`, `BalanceBacked`, `SpentNeverOvercounts`, `PayoutNeverOvercounts`: lost
  updates happen, but stay within bounds. However stale the balance that is written
  back, there is never an overdraft, nor more money than was deposited; spends and
  payouts that are shown never exceed what the rows say. What can go wrong is that a
  charge is not deducted, a payout not shown, or a deposit overwritten;
- `PauseTakesEffectNextPass`, `OnlyResumeReactivates`: a stale campaign row is charged
  for the rest of the pass at most, and never undoes a pause;
- `ColumnsMatchLedger`, `ExhaustedStaysPaused`: without overlap there is no error;
- `PlaysSettled`: every play that is not behind a malformed one is settled in the end;
- `NoFigureAhead`, `PageAddsUp`: the statements of a page are in an order in which no
  figure runs ahead of one that covers it, and an undisturbed page adds up, except that
  the money of the first hours of the month, and of dates to come, is in no bar of the
  series by day (the query covers 30 x 24 hours and so touches 31 dates, and has no upper
  end; the series has 30 dates). The run has a play of the first kind, the theorem both;
- `DoubleCreditNeedsOverlap`: a checkout is credited twice only if two of its own
  deliveries overlapped; `BalanceIsRowsWithoutOverlap`: the balance is the opening balance
  and the credit rows unless deliveries or deposits of the organization overlapped;
  `AcknowledgedIsCredited` and `PaymentsCredited` hold where the commit precedes the answer;
- `OneFreeCampaign`: an organization with campaigns had a free one, or one by an operator
  (whose campaigns use up the free tier and are not free), and two are free only if the
  requests that created these two were open at the same time;
- `PaidIsFunded`: with a Stripe key, the budget of each paid campaign from the portal was
  covered by completed checkouts, each counted once, by deposits and by the opening balance.
  So no lost update lets a campaign through the gate; a checkout that is credited twice
  would, and such organizations are excepted. It is not a claim that Stripe took the money
  in, since `POST /deposit` asks for none, nor that the money is still there: the gate sets
  nothing aside, so the same money may stand behind several campaigns. What charges do to
  the balance is `SpendProcessor`'s (`BalanceBacked`): they only lower it;
- `AppendOnly`, `ToldIsStored`, `EventsArrive`, `UnlinkedOnlyIfUnknown`,
  `ConflictNeedsTwoKeys`: retries are harmless, and why;
- `AssignmentsAreALog`, `SessionShowsItsDisplay`, `RequestsEnd`: the history is only
  appended to but for deletions, a start that nothing came between shows its display,
  and deadlocks do not last; `RefusedOnlyIfOverlapped`: no request is refused by what it
  does alone;
- `AttributedOnce`, `SessionsDisjoint`: windows of a robot overlap only where a later
  stamp was committed first, sessions only where two fleet keys were used;
- `RamFollowsSession`: with one key nothing of a stopped session stays in memory;
- `BlendedOnlyIfUncounted`: the dwell of a looping display reaches a campaign only where the
  start did not name the display that is shown, or it began to loop after its items were
  counted; `CountsNeverShrink`: a repeated or late upload takes nothing back from a report;
- `DenseUnlessOverlapped`, `RepackRepairs`: the loop order is dense unless edits overlap,
  which takes two keys or the portal, and any edit that writes the whole order repairs it.

The four violations are disagreements between the code and what the repository says of
it; `PROJECT.json` quotes both sides. Further statements of the repository hold only
under a condition, and the properties state that condition:

- `display_insights.py` 11-13 calls the intervals of a robot disjoint. Two assigns that
  commit in the opposite order of their stamps leave overlapping ones (`AttributedOnce`
  excludes exactly those, `late`).
- `routes/sessions.py` 11-12 says a frame is dropped on stop. A frame whose upload outlasts
  a stop made with another key is kept (`RamFollowsSession` asks for one key). A stop that
  names an older session also drops the memory of the one that is open.
- `routes/audience.py` 12-14 and 181-184 and `routes/sessions.py` 186-187 say that blended
  dwell can never reach a campaign. It can by three routes: a start with a campaign and no
  display on a robot that is showing a looping one, since only a named display is counted
  (`sessions.py` 188-198); an assignment to a looping display during the session; an item
  added to the playlist after the start has counted it. In each the session keeps its
  campaign. `BlendedOnlyIfUncounted` states exactly these.
- `routes/sdk.py` 46 says the listing mirrors what the processor would not pause; a budget
  of 0 is no limit to the processor and exhausted to the listing (not modelled, see
  hazards).

Every property of a passing run has a mutant, defined beside the operator it
alters, that TLC catches.

### Fairness

Workers: `WF(Step(w))`. The loop wakes up every interval and survives exceptions,
and no statement of a pass waits for another actor (`SKIP LOCKED`), so a pass that can
step does. Nothing is assumed of crashes or portal calls. Webhook handlers:
`WF(Handle(d))`; Stripe repeats an unanswered event (`SF(Retry(s))`, strong because all
delivery slots may be busy for a while). Ingest: `WF(Handle(r))`, `SF(Authenticate(r))`
because row-lock queues starve nobody, and `SF` of a robot's sending. Robot windows: weak
fairness of the union of all requests' statements: some request that can go on does. That
is enough for `RequestsEnd` because each request has finitely many statements and the
database resolves every deadlock; nothing is assumed of who wins a row. `SessionRelay`,
`Playlist` and `PortalPages` claim no liveness: a request there may always fail.

## 4. Proofs

Every safety invariant, action property and refinement that a passing run checks is
also a theorem, for any numbers of requests, plays, passes, crashes, robots, keys and
pages. Each proof has the same shape: an inductive invariant, one lemma per action that
it is kept, and the property from it. TLC checked the strengthened invariants on the
small instances before they were proved.

### Spend processor

`SpendProcessorProofs` begins with the arithmetic for all amounts: `Cents` meets the
half-up reference and is the only function that does, rounding and gross price are
monotone, the OEM part lies between 0 and the charge for shares of 0 to 100 percent,
and so a quote splits into non-negative parts (`QuoteSplits`).

For the processor it proves `TypeCorrect`, `NeverOverdrawn`, `NoMoneyFromNowhere`,
`NeverOvercounted`, `NeverOverpaid`, `PausedNextPass`, `NeverReactivated` and `Implements`
(refinement of `Settlement`). The bounds are not inductive: a charge is computed from a
private copy that may be old. `IInv` adds

- `LocksInv`: a worker inside a transaction holds its play's lock and the play is
  pending, which is what makes double settlement impossible;
- `RowsInv`: the rows it has loaded are those the play refers to;
- `CopiesInv`: every copy, in a worker or an open deposit, is itself within the
  bounds. Deposits, accruals and gross totals only grow, so a copy that was within
  them stays within them, and `copy - charge` (not negative, by the check before the
  charge) or `copy + share` (the ledger gets the same share) is too.

`PausedNextPass` needs one fact more (`PauseInv`): a row a pass keeps is one it loaded in
this pass, when the campaign was enabled. `SerialAgrees` and `SerialExhausted` prove
`ColumnsMatchLedger` and `ExhaustedStaysPaused` for `Serial`. Two conjuncts make them
inductive: whoever is at work is alone (`Alone`), hence its copies equal the rows
(`Fresh`), and an absolute write of `copy - charge` is then a decrement.

### Portal pages

`PortalPagesProofs` rests on three facts. The ledger is the impressions:
`LedgerIsImpressions` says, for passes that overlap in any way, that the totals of a
campaign, an advertiser and an OEM are the sums over the impression rows they stand for.
An impression never changes once it is there (`ImpressionsStay`), so every figure that
adds up impressions can only grow. And of each pair the smaller figure is read first
(`ReadInOrder`). `PageInv` says of each figure read so far that it is at most what it
would be now, that the budget used is at most what the impressions cost now, and that the
figures of an undisturbed page are what they would be now. `PagesNeverAhead` is then a
matter of the order of reads, and `UndisturbedAddsUp` of splitting one sum by fleet
(`FleetsMakeMonth`) or by date (`DatesMakeMonth`).

### Advertiser account

`AccountTypes`, `DoubleNeedsOverlap`, `AcknowledgedCredited`, `FreeTierOnce`,
`BalanceIsRows` and `PaidFunded`. For a checkout whose deliveries never overlapped,
`CreditInv` says that at most one of them is between its look-up and its commit, and that
what it did not find still is not there. `ExactInv` says the same of the balance that a
delivery or a deposit has read, where those of the organization never overlapped.
`FreeInv` is about creations: any two of an organization that are open, or free, or one
free and the other about to be, are in `met`, because a creation that began after the
other was inserted would have counted it; and an organization that has a campaign has a
free one or an operator's. `PaidFunded` has two halves: no balance, and no copy of one in
a delivery, a deposit or a creation, exceeds the rows of its organization (`BackedInv`),
so whoever passed the gate had rows to show; and the rows of an organization without a
contended checkout are one per completed checkout (`PaidInv`, `CreditInv`,
`RowsArePaidIn`), so they are what was paid in.

### Ingest

`IngestTypes`, `LogAppendOnly`, `ToldStored`, `ConflictsNeedKeys` and `UnlinkedUnknown`.
`NewInv`: what a request has inserted is neither stored nor inserted by another, so a
commit replaces nothing. `KeptInv`: what is counted as stored is, or is about to be by this
commit. `LockInv` and `AuthInv`: the request at work holds its key's row and has looked up
the robot after getting it.

### Robot windows

`WindowsInv` describes the requests in flight. Each holds a version of every row it has
written, made from the row as it still is (`VersionInv`), no two have written one row,
opened one window or fight over a display (`LockInv`), and no window begins or ends after
the latest stamp committed on its robot (`RowsInv`). `LocalStep` carries it past every step
that commits nothing, `CommitRows` describes once what a commit does to the table. On it
stand

- `WindowTypes`, and `HistoryIsALog`, the refinement of `WindowLog`: a commit removes rows
  only by a deletion, and otherwise closes or adds windows;
- `AttributedToOne` with `LogInv`: a window that is opened with a stamp later than
  everything committed begins after all closed ones have ended, and the open one is closed
  by the same commit;
- `SessionsApart` with `SessionInv`: requests with one key follow one another, so a start
  has closed what was open, with a stamp taken after it;
- `RefusedAlone` with `AloneInv`: for a request that nothing came between, the window its
  INSERT would meet is one it has closed itself;
- `StartShows`: a start that nothing came between leaves the window it opened, or found, for
  its display.

### Live view

`SessionRelayProofs` proves `MemoryFollows` (`RamFollowsSession`): `KeysInv` gives a key to
one request; with one key that leaves one request at a time (`OneKey`), and then the session
it found is still open when it writes to memory (`MemoryInv`). `DataInv` needs no such
condition: sessions are numbered as they start, one at most is open, and the moments that
two requests are about to commit are disjoint and not stored. From it follow `RelayTypes`,
`BlendedUncounted` and `CountsGrow`; the last compares the sums of the rollup before and after a
step, tile by tile.

### Playlists

`IInv` of `PlaylistProofs` says of each edit what it has deleted and written of which
reading of the list (`Shape`), and that this reading is still the list if nothing came
between (`Kept`); that a written row is held by one request (`RowsInv`); and that requests of
one key do not overlap (`KeysInv`). Below it are lemmas about positions: counting the items
before each item numbers them densely, whatever the order of ties (`CountsAreDense`,
`OrdersDense`), and so does appending behind the last (`AppendDense`).
`PlaylistTypes`, `OrderIsDense` and `RepackingRepairs` (an edit that writes the whole order
repairs it, whatever went wrong before) follow.

### Sums

`SumTheorems` proves of the community modules' `SumFunctionOnSet` what the others need: that
its recursion over the subsets of a finite set has a solution, that any element may be taken
first, how a sum changes with one summand, is monotone, and splits over disjoint sets or by
the values of a function (`SumByParts`). The library's induction theorems take an operator
as a parameter, which the provers cannot instantiate; here induction is over a *set* of
cases, from the well-foundedness of the strict subset order.

### Assumptions

The named ASSUMEs of the modules, and nothing else: ids of different kinds are distinct
(primary keys are UUIDs), and so is `None` from them; rates and budgets are naturals, shares
are 0 to 100 percent (the admin API does not validate rates and shares); opening balances
are naturals (the admin API does not validate them either); a campaign has one
advertiser and a fleet one OEM; an assign names at least one robot and a deletion concerns
them all; what a request brings to a playlist is new. Where sums are taken the sets under
them are finite: `Checkouts`, `Topups`, `Moments`, the items of a list, and `Events`, `Campaigns` and
`Fleets` of the pages.

Work on the proofs corrected the model where an argument did not go through. `PageAddsUp`
did not allow for plays stamped after today; cases of a `CASE` in `WindowLog` and
`RobotWindows` overlapped, which leaves the choice open; and it was nowhere said that `None`
is no id or kind, that the robots of an assign are not an empty set, or which robots a
deletion concerns.

### Model-checked only

Liveness, which is out of the prover's reach: `PlaysSettled`, `PaymentsCredited`,
`EventsArrive` and `RequestsEnd`. The four violations are counterexamples and need no proof.
What a recursive definition computes on every input is not proved, except for the sums.

## 5. What could follow

1. Serving: `GET /campaigns` and the 300 s copy in the robot, composed with ingest and
   processor as the whole loop of money. The robot that obeys the listing is not in this
   repository, so its half would be external.
2. Several processes with a memory each behind `SessionRelay`, as two machines would have.
3. Mint and revoke of API keys: `auth.py` reads the key before it takes the row lock, so a
   request may go on with a key that is revoked meanwhile.

## 6. Not modelled

- Statistics and insight columns (interactions, dwell averages, distances, audience
  distributions), the summary of a session, the figures of the live metrics: reads of what
  the modules store, with nothing that depends on them. Request validation, formatting,
  logging.
- The listing `GET /campaigns`: one read with filters.
- Minting, revoking and scoping keys, fleet and display CRUD, onboarding, admin inserts other than campaigns,
  checkout creation (whose only local effect is a customer id): one row in one transaction.
- The foreign-key share locks that an assign or a start takes on the row of its display are
  modelled only as far as a deletion waits for them; cascades of a deletion to playlist
  items are not.
- Several processes with separate memories; more than one robot in `SessionRelay`.
- Supabase JWT verification, CLI bootstrap and demo data, schema creation and migrations:
  no state that changes while the system runs, beyond a key cache. The columns, defaults
  and constraints of `models.py` appear where a module relies on them.
- Overflow: columns are unbounded integers here. BIGINT cents are not exhausted by any
  realistic budget.
