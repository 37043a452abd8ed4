SPECIFICATION FairSpec
CONSTANTS
    d1 = d1
    d2 = d2
    Devices <- Dev
    Partitions <- OnePart
    PartitionOf <- OnOnePart
    MaxMessages = 3
    MaxBatch = 2
    MaxCrashes = 1
    MaxRebalances = 1
    MaxOutages = 1
    MaxRemovals = 1
INVARIANTS
    CommittedIsAccounted
    DuplicatesComeFromRedelivery
    LossHasACause
PROPERTIES
    EveryMessageIsReached
CHECK_DEADLOCK FALSE
