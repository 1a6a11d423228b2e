SPECIFICATION Spec
CONSTANTS
    None = None
    b1 = b1
    b2 = b2
    k1 = k1
    Requests = {r1}
    Users = {b1}
    Accepted = {b1}
    Keys = {k1}
    Inputs <- KeylessInputs
    Hooks = {h1}
    ShowsAmount = {TRUE, FALSE}
    Calls = {c1, c2, c3}
    MaxCrashes = 1
SYMMETRY OperatorSymmetry
INVARIANTS
    EventsTracePath
PROPERTIES
    SettledIsFinal
CHECK_DEADLOCK FALSE
