SPECIFICATION FairSpec
CONSTANTS
    None = None
    Orphan = Orphan
    s1 = s1
    s2 = s2
    h1 = h1
    h2 = h2
    buyer = buyer
    seller = seller
    Sessions = {s1, s2}
    Users = {buyer, seller}
    BuyerOf <- BuyerOfAll
    SellerOf <- SellerOfAll
    Price = 3
    Cent = 2
    FeePct = 20
    MinBalance = 2
    InitBalance <- Balances
    Reports = {h1, h2}
    Serves <- ServesEach
    MaxUsage = 2
    FaultKinds = {"loss"}
    MaxFaults = 1
INVARIANTS
    BilledExactly
PROPERTIES
    BankruptIsCutOff
CHECK_DEADLOCK FALSE
