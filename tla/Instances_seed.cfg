\* One launch and terminate, with crashes and failed calls but nobody else about.
SPECIFICATION Spec
CONSTANTS
    i1 = i1
    i2 = i2
    Instance <- Instances1
    Vmid <- Vmids2
    MaxAttempts = 2
    UserActions <- NoPowerActions
    Outside <- Untouched
    CacheLag = FALSE
    Nobody = Nobody
    Pooled = Pooled
    Hidden = Hidden
    NoInstance = NoInstance
    NoVmid = NoVmid
INVARIANTS
    SeedReleased
CHECK_DEADLOCK FALSE
