SPECIFICATION Spec
CONSTANTS
    Devices = {1, 2}
    Existing = {1}
    Groups = {g1, g2}
    NoGroup = NoGroup
    ZoneIds = {z1}
    Requests = {q1, q2}
    Limit = 1
    MaxCalls = 4
    MaxFaults = 1
SYMMETRY Symmetry
INVARIANTS
    HandedPasswordWorks
    GroupIsAsAsked
    ListingMissesOnlyTheShifted
    AssignmentIsAsAsked
CHECK_DEADLOCK FALSE
