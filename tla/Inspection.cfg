SPECIFICATION Spec
CONSTANTS
    Uris <- MCUris
    Forests <- MCForests
    Dumps <- MCDumps
    DiffDumps <- MCDiffDumps
    Addresses = {"10.0.0.1", "10.0.0.2", "10.0.0.3", "m1", "m2"}
    Bare = {"c"}
    L3Eps <- MCL3Eps
    L2Eps <- MCL2Eps
    LastTime <- MCLastTime
    Logs <- MCLogs
    Windows <- MCWindows
    August = {4}
INVARIANTS
    TypeOK
    FlattenedOnce
    EverythingPrinted
    PrintedPerReference
    QuietDiffSamePolicy
    SummaryCountsShown
    CountsOfOneInterval
PROPERTIES
    CommandsEnd
