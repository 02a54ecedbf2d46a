\* Two overlapping deliveries of one checkout are credited twice.
SPECIFICATION Spec
CONSTANTS
    s1 = s1  s2 = s2  k1 = k1  k2 = k2  k3 = k3  brand = brand
    Orgs = {brand}
    Opening <- Begins
    Checkouts = {s1, s2}
    OrgOf <- Payer
    Amount <- Paid
    Delayed = {s2}
    Deliveries = {d1, d2}
    Topups = {}
    TopupOf <- Depositor
    TopupAmount <- Deposited
    ByAdmin = {}
    Creations = {k1, k2, k3}
    CreatorOf <- Author
    CodeOf <- Codes
    Budget <- Costs
    StripeKey = TRUE
    MaxDuplicates = 1
    MaxLosses = 0
    None = None
INVARIANTS
    OneCreditPerCheckout
CHECK_DEADLOCK FALSE
