SPECIFICATION MediaSpec
CONSTANTS
    Keys = {1}
    PageSize = 2
    MaxRows = 2
    MaxJobs = 1
    MaxPuts = 2
    MaxMediaFaults = 1
    MaxMediaCrashes = 1
INVARIANTS
    RowHasObject
    PendingHasAJob
PROPERTY
    OrphanIsSwept
CHECK_DEADLOCK FALSE
