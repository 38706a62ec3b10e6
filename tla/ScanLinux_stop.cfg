SPECIFICATION Spec
CONSTANTS
    Addrs = {"clock"}
    Names = {"none", "XGGF-1V48"}
    NoName = "none"
    Prefixed = {"XGGF-1V48"}
    All = TRUE
    Targets <- TargetsByName
    MaxScans = 1
    ResultsCap = 1
    MaxPending = 1
INVARIANTS
    StopScanAnswers
CHECK_DEADLOCK FALSE
