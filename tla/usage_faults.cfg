SPECIFICATION Spec
CONSTANTS
    None = None
    Orphan = Orphan
    s1 = s1
    s2 = s2
    h1 = h1
    h2 = h2
    buyer = buyer
    seller = seller
    Sessions = {s1}
    Users = {buyer, seller}
    BuyerOf <- BuyerOfAll
    SellerOf <- SellerOfAll
    Price = 3
    Cent = 2
    FeePct = 50
    MinBalance = 2
    InitBalance <- Balances
    Reports = {h1, h2}
    Serves <- ServesOne
    MaxUsage = 3
    FaultKinds = {"crash", "db", "redis", "loss"}
    MaxFaults = 3
SYMMETRY ReportSymmetry
INVARIANTS
    TypeOK
    BooksBalance
    RowCostIsBacked
CHECK_DEADLOCK FALSE
