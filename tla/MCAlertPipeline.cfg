SPECIFICATION Spec
CONSTANTS
    Inputs <- MCInputs
    MaxLog <- MCMaxLog
    MaxConfirms = 1
    MaxFaults = 1
    MaxCrashes = 1
INVARIANTS
    UnlinkedHasACause
    MessageAccount
    OwnerIsTold
PROPERTY
    EveryMessageIsSettled
CHECK_DEADLOCK FALSE
