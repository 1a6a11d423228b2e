SPECIFICATION RideSpec
CONSTANTS
    None = None
    Users = {u1}
    Admins = {}
    MaxFaults = 0
    Rides = {s1}
    Taps = {h1}
    Letters = {h1}
    MaxTraffic = 2
INVARIANTS
    UsageIsReconciled
CHECK_DEADLOCK FALSE
