\* Two devices: heartbeats among default rows, sweeps and a failed save.
SPECIFICATION StatusFairSpec
CONSTANTS
    d1 = d1
    d2 = d2
    Trackers <- TwoTrackers
    Levels <- OneLevel
    Timeout = 1
    MaxTime = 3
    MaxReports = 2
    MaxSaveFaults = 1
INVARIANTS
    ReportSurvives
    ClientsSeeTheRow
PROPERTY
    ExpiredIsSwept
\* The clock and the heartbeats are bounded, so the system does come to a stop.
CHECK_DEADLOCK FALSE
