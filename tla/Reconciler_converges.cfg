\* Stops, starts and outsiders' power changes against a lagging list.
SPECIFICATION FairSpecPass
CONSTANTS
    i1 = i1
    Instance <- Instances1
    Vmid <- Vmids1
    MaxAttempts = 2
    UserActions <- PowerActions
    Outside <- PowerOnly
    CacheLag = TRUE
    Nobody = Nobody
    Pooled = Pooled
    Hidden = Hidden
    NoInstance = NoInstance
    NoVmid = NoVmid
INVARIANTS
    TypeOKPass
PROPERTIES
    StateConverges
    ImplementsObserved
CHECK_DEADLOCK FALSE
