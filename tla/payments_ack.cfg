SPECIFICATION Spec
CONSTANTS
    None = None
    b1 = b1
    b2 = b2
    k1 = k1
    Requests = {r1}
    Users = {b1}
    Accepted = {b1}
    Keys = {k1}
    Inputs <- KeylessInputs
    Hooks = {h1}
    ShowsAmount = {TRUE}
    Calls = {c1}
    MaxCrashes = 0
INVARIANTS
    AcknowledgedIsHandled
CHECK_DEADLOCK FALSE
