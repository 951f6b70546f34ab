\* One instance, every user action, meddling outsiders and a lagging listing.
SPECIFICATION FairSpec
CONSTANTS
    i1 = i1
    i2 = i2
    Instance <- Instances1
    Vmid <- Vmids2
    MaxAttempts = 2
    UserActions <- AllPowerActions
    Outside <- Meddling
    CacheLag = TRUE
    Nobody = Nobody
    Pooled = Pooled
    Hidden = Hidden
    NoInstance = NoInstance
    NoVmid = NoVmid
INVARIANTS
    Consistent
PROPERTIES
    ImplementsLifecycle
    TerminateCompletes
    ActionSettles
CHECK_DEADLOCK FALSE
