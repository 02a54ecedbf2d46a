\* Two deliveries at a time, one checkout, one deposit, two creations of the
\* advertiser and one of an operator, losses and a duplicate.
SPECIFICATION FairSpec
CONSTANTS
    s1 = s1  s2 = s2  k1 = k1  k2 = k2  k3 = k3  brand = brand
    Orgs = {brand}
    Opening <- Begins
    Checkouts = {s1}
    OrgOf <- Payer
    Amount <- Paid
    Delayed = {}
    Deliveries = {d1, d2}
    Topups = {t1}
    TopupOf <- Depositor
    TopupAmount <- Deposited
    ByAdmin = {k3}
    Creations = {k1, k2, k3}
    CreatorOf <- Author
    CodeOf <- Codes
    Budget <- Costs
    StripeKey = TRUE
    MaxDuplicates = 1
    MaxLosses = 1
    None = None
INVARIANTS
    TypeOK
    DoubleCreditNeedsOverlap
    BalanceIsRowsWithoutOverlap
    AcknowledgedIsCredited
    OneFreeCampaign
    PaidIsFunded
PROPERTIES
    PaymentsCredited
\* Every checkout may be answered and every campaign created.
CHECK_DEADLOCK FALSE
