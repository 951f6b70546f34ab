\* Two launches and terminates racing for three VMIDs that outsiders also take.
SPECIFICATION Spec
CONSTANTS
    i1 = i1
    i2 = i2
    Instance <- Instances2
    Vmid <- Vmids3
    MaxAttempts = 1
    UserActions <- NoPowerActions
    Outside <- Occupied
    CacheLag = FALSE
    Nobody = Nobody
    Pooled = Pooled
    Hidden = Hidden
    NoInstance = NoInstance
    NoVmid = NoVmid
SYMMETRY Interchangeable
INVARIANTS
    TypeOK
    VMIsTracked
    AddressIsTracked
    VmidHeldOnce
    QuarantineKept
    LaunchedIsWhole
    WorksUnderLease
PROPERTIES
    ForeignUntouched
CHECK_DEADLOCK FALSE
