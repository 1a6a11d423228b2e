SPECIFICATION ServerSpec
CONSTANTS
    None = None
    u1 = u1
    u2 = u2
    Users = {u1, u2}
    Admins = {u2}
    MaxFaults = 1
    Tokens = {t1, t2, t3}
    SignIns = {x1, x2}
    TokenCalls = {c1, c2}
    Links = {l1}
    Vendors = {v1}
    LinkCalls = {c1, c2}
    MaxCount = 1
    Asks = {x1, x2}
    AskCalls = {c1, c2}
    Presses = {p1}
    Meterings = {m1}
    Amounts = {4, 15}
    Opening <- OpeningWallets
    DeductCalls = {c1, c2}
    TopUp = 10
    Emails = {e1, e2}
    Idents = {i1}
    Accounts = {x1, x2}
    EnrolCalls = {c1, c2}
    Hosts = {x1, x2}
    Reads = {c1, c2}
    Ttl = 2
    MaxNow = 3
    MaxVersion = 1
    Groups = {g1}
    MaxLog = 3
    Rides = {x1, x2}
    Taps = {c1, c2}
    Letters = {c1, c2}
    MaxTraffic = 2
SYMMETRY ServerSymmetry
INVARIANTS
    ServerTypeOK
    OneLinePerSignIn
    LogoutIsFinal
    SignedInStays
    RecordIsKept
    CompletedDeletionErased
    ErasedHadAsked
    WalletAccounts
    DeductionsAreReal
    EveryAccountHasProfile
    OneAccountPerIdentity
    OpenedStays
    StaleForAMinute
    OwnWriteSeen
    TakesEffectOnce
    CountedIsUsed
    OpenRideIsCarried
PROPERTIES
    TerminalIsFinal
CHECK_DEADLOCK FALSE
