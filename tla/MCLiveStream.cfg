SPECIFICATION Spec
CONSTANTS
    Handlers = {h1, h2}
    MaxStarts = 2
    MaxReports = 2
    MaxFaults = 1
    MaxCrashes = 1
SYMMETRY Symmetry
INVARIANTS
    ReadyHasAPath
    StatusIsOfThisRequest
    CommandIsOfTheSession
CHECK_DEADLOCK FALSE
