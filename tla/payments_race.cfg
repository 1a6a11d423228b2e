SPECIFICATION Spec
CONSTANTS
    None = None
    b1 = b1
    b2 = b2
    k1 = k1
    Requests = {r1, r2}
    Users = {b1}
    Accepted = {b1}
    Keys = {k1}
    Inputs <- OneKeyInputs
    Hooks = {h1, h2}
    ShowsAmount = {TRUE}
    Calls = {c1}
    MaxCrashes = 1
SYMMETRY RaceSymmetry
INVARIANTS
    TypeOK
    CreditedExactlyOnce
    CreditsArePaidFor
    MpesaCreditsReconciled
    OneRowPerKey
    AnnouncedAtMostOnce
PROPERTIES
    WalletMovesWithCompletion
CHECK_DEADLOCK FALSE
