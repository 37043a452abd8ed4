SPECIFICATION Spec
CONSTANTS
    Requests = {q1, q2}
    MaxAttempts = 2
    MaxPerWindow = 3
    Throttled = {"register"}
    MaxPerRoute = 1
    MaxCalls = 4
    MaxSignUps = 1
    MaxFaults = 1
    MaxCrashes = 1
SYMMETRY Symmetry
CONSTRAINT OneFailure
INVARIANTS
    MailedCodeWorks
    GuessesAreBounded
    WindowCloses
    UnverifiedHasACause
PROPERTY
    VerifiedAccountIsKept
CHECK_DEADLOCK FALSE
