SPECIFICATION FairClientsSpec
CONSTANTS
    None = None
    Users = {u1, u2}
    Admins = {}
    MaxFaults = 2
    Shops = {v1}
    Beats = {h1, h2, h3}
    Pages = {p1, p2}
    Passes = {t1, t2}
    Fetches = {f1}
    Deposits = {d1, d2}
INVARIANTS
    ClientsTypeOK
    
    ListingsExpire
PROPERTIES
    SilentSellerLeaves
    DeadSignInEnds
    SettledIsTold
CHECK_DEADLOCK FALSE
