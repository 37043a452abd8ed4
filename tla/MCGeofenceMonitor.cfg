SPECIFICATION Spec
CONSTANTS
    home = home
    quarry = quarry
    c1 = c1
    c2 = c2
    Geofences <- BothZones
    Zone <- ZoneOf
    Checks <- TwoChecks
    CooldownTTL = 1
    MaxPoints = 3
    MaxEdits = 1
    MaxFaults = 1
    MaxRestarts = 1
SYMMETRY CheckSymmetry
INVARIANTS
    FalseAlertsNeedARestart
    ViolationIsAnswered
CONSTRAINT ThreeEvents
CHECK_DEADLOCK FALSE
