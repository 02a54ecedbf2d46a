\* One pass or portal call at a time, one page read meanwhile.
SPECIFICATION PagesSpec
CONSTANTS
    e1 = e1  e2 = e2  e6 = e6
    paid = paid  brand = brand  maker = maker  fleet = fleet
    Events = {e1, e2, e6}
    Campaigns = {paid}
    Advertisers = {brand}
    Oems = {maker}
    Fleets = {fleet}
    Workers = {w1}
    Requests = {r1, r2}
    CampaignOf <- Plays
    FleetOf <- Reporter
    ReceivedAt <- Arrival
    Malformed = {e6}
    AdvertiserOf <- Owner
    IsPromo <- Free
    BudgetTotal <- Budget
    PerImpression <- PerPlay
    PerAttended <- PerFace
    OemOf <- Builder
    SharePct <- Percent
    Attended = {0, 2}
    Opening <- Funds
    TopUps = {2}
    BatchLimit = 2
    MaxCrashes = 1
    NoReference = NoReference
    Unknown = Unknown
    None = None
    ShownAt <- Times
    Now <- Noon
    MaxPages = 1
INVARIANTS
    ColumnsMatchLedger
    ExhaustedStaysPaused
    NoFigureAhead
    PageAddsUp
\* Every play may be settled and every portal call and page answered.
CHECK_DEADLOCK FALSE
