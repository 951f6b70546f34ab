\* One slot, one caller, one token; the default disk size may change.
SPECIFICATION SpecAdmission
CONSTANTS
    Slot <- OneSlot
    Account <- OneAccount
    Token <- OneToken
    Vmid <- TwoVmids
    Reserved <- SetAside
    Caller <- OneCaller
    Outside <- Empty
    Memory <- Sizes
    Preset = 1
    Disk <- DefaultDisk
    HostMemory = 6
    Declared <- SiteLimits
    Overrides <- SetOrNot
    MaxCalls = 2
INVARIANT
    RepeatReturnsOriginal
CHECK_DEADLOCK FALSE
