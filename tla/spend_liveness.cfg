\* Two fair passes, one of which may die: a paid play, the two kinds that are
\* dropped, and a malformed play behind them.
SPECIFICATION FairSpec
CONSTANTS
    e1 = e1  e2 = e2  e3 = e3  e4 = e4  e5 = e5 e6 = e6
    paid = paid  promo = promo  brand = brand  maker = maker  fleet = fleet
    Events <- AllKinds
    Campaigns = {paid, promo}
    Advertisers = {brand}
    Oems = {maker}
    Fleets = {fleet}
    Workers = {w1, w2}
    Requests = {}
    CampaignOf <- Plays
    FleetOf <- Reporter
    ReceivedAt <- InOrder
    Malformed = {e6}
    AdvertiserOf <- Owner
    IsPromo <- Free
    BudgetTotal <- Budget
    PerImpression <- PerPlay
    PerAttended <- PerFace
    OemOf <- Builder
    SharePct <- Percent
    Attended = {0, 2}
    Opening <- Funds
    TopUps = {2}
    BatchLimit = 2
    MaxCrashes = 1
    NoReference = NoReference
    Unknown = Unknown
    None = None
PROPERTIES
    PlaysSettled
\* Every play may be settled and every portal call answered.
CHECK_DEADLOCK FALSE
