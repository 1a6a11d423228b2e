SPECIFICATION FairSpec
CONSTANTS
    None = None
    b1 = b1
    b2 = b2
    k1 = k1
    Requests = {r1, r2}
    Users = {b1, b2}
    Accepted = {b1, b2}
    Keys = {k1}
    Inputs <- BothUsersInputs
    Hooks = {h1}
    ShowsAmount = {FALSE}
    Calls = {c1}
    MaxCrashes = 1
PROPERTIES
    ImplementsSettlement
    PaidIsSettled
CHECK_DEADLOCK FALSE
