SPECIFICATION Spec
CONSTANTS
    Procs = {p1}
    Devices = {"clock", "lamp"}
    Clocks = {"clock"}
    Names = {"", "XGGF-1V48", "XGGF-8W30-PRO"}
    NoName = ""
    TrueName <- MCTrueName
    NameLen <- MCNameLen
    Wants = {"XGGF-1V48", "XGGF-", "XGGF-8W30-PRO"}
    DefaultName = "XGGF-1V48"
    LampName = "XGGF-"
    Covers <- MCCovers
    Commands <- AllCommands
    MaxFaults = 0
INVARIANTS
    BareReachesClock
