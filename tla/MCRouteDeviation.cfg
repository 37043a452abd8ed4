\* Two requests, two checks, at most two of them under way, a failing call, a restart.
SPECIFICATION BoundedSpec
CONSTANTS
    p1 = p1
    p2 = p2
    d1 = d1
    r1 = r1
    r2 = r2
    c1 = c1
    c2 = c2
    MaxInFlight = 2
    Plans <- TwoPlans
    Devices <- OneDevice
    DeviceOf <- BothOfOne
    Requests <- TwoRequests
    MaxRequests = 5
    MaxRestarts = 1
    Checks <- TwoChecks
    CooldownTTL = 1
    MaxFaults = 1
SYMMETRY Symmetry
INVARIANTS
    DeviationAccount
    ActivePlusClaims
PROPERTY
    ActiveRouteIsWatched
CHECK_DEADLOCK FALSE
