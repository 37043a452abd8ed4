SPECIFICATION SpeedFairSpec
CONSTANTS
    d1 = d1
    c1 = c1
    c2 = c2
    Trackers <- OneDevice
    Checks <- TwoChecks
    Speeds <- SpeedValues
    Limits <- LimitValues
    CooldownTTL = 2
    CacheTTL = 3
    MaxUpdates = 2
    MaxFaults = 2
INVARIANT
    CycleAccount
PROPERTY
    LimitTakesEffect
