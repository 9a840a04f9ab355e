\* Five latencies of different sizes, two windows.
SPECIFICATION FairSpec
CONSTANTS
    Sample = {1, 2, 3, 4, 5}
    MaxWindow = 6
    MaxReports = 2
INVARIANTS
    TypeOK
    CleanReportIsExact
    ReportSizeIsExact
    NoPhantom
    DamageIsBounded
PROPERTIES
    JobEnds
CHECK_DEADLOCK FALSE
