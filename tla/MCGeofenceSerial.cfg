SPECIFICATION Spec
CONSTANTS
    home = home
    quarry = quarry
    c1 = c1
    c2 = c2
    Geofences <- BothZones
    Zone <- ZoneOf
    Checks <- OneCheck
    CooldownTTL = 2
    MaxPoints = 3
    MaxEdits = 2
    MaxFaults = 0
    MaxRestarts = 0
INVARIANT
    OneAlertPerStay
PROPERTY
    ImplementsEdge
CHECK_DEADLOCK FALSE
