SPECIFICATION Spec
CONSTANTS
    Addrs = {"clock"}
    Names = {"none", "XGGF-1V48", "other"}
    NoName = "none"
    Prefixed = {"XGGF-1V48"}
    All = TRUE
    Targets <- TargetsByName
    MaxScans = 2
    ResultsCap = 1
    MaxPending = 2
INVARIANTS
    TypeOK
    QuietBetweenScans
    MatchIsKept
PROPERTIES
    ErrorEndsScanner
    ScanReturns
    RefinesSearch
CHECK_DEADLOCK FALSE
