SPECIFICATION Spec
CONSTANTS
    Procs = {p1, p2}
    Devices = {"clock", "lamp"}
    Clocks = {"clock"}
    Names = {"", "XGGF-1V48", "XGGF-8W30-PRO"}
    NoName = ""
    TrueName <- MCTrueName
    NameLen <- MCNameLen
    Wants = {"XGGF-1V48", "XGGF-", "XGGF-8W30-PRO"}
    DefaultName = "XGGF-1V48"
    LampName = "XGGF-"
    Covers <- MCCovers
    Commands <- SomeCommands
    MaxFaults = 2
INVARIANTS
    TypeOK
    MemoryIsHonest
    TornOnlyWhileSaving
PROPERTIES
    TornIsReplaced
