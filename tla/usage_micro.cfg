SPECIFICATION Spec
CONSTANTS
    None = None
    Orphan = Orphan
    s1 = s1
    s2 = s2
    h1 = h1
    h2 = h2
    buyer = buyer
    seller = seller
    Sessions = {s1}
    Users = {buyer, seller}
    BuyerOf <- BuyerOfAll
    SellerOf <- SellerOfAll
    Price = 2
    Cent = 3
    FeePct = 20
    MinBalance = 2
    InitBalance <- Balances
    Reports = {h1}
    Serves <- ServesOne
    MaxUsage = 3
    FaultKinds = {}
    MaxFaults = 0
INVARIANTS
    NeverOverbilled
CHECK_DEADLOCK FALSE
