\* A VM that somebody outside the API powers off.
SPECIFICATION SpecPass
CONSTANTS
    i1 = i1
    Instance <- Instances1
    Vmid <- Vmids1
    MaxAttempts = 1
    UserActions <- NoPowerActions
    Outside <- PowerOnly
    CacheLag = FALSE
    Nobody = Nobody
    Pooled = Pooled
    Hidden = Hidden
    NoInstance = NoInstance
    NoVmid = NoVmid
PROPERTIES
    OutsideStopKeepsOnboot
CHECK_DEADLOCK FALSE
