\* Start and stop against a listing that trails the VM's own status; no outsiders.
SPECIFICATION Spec
CONSTANTS
    i1 = i1
    i2 = i2
    Instance <- Instances1
    Vmid <- Vmids2
    MaxAttempts = 2
    UserActions <- AllPowerActions
    Outside <- Untouched
    CacheLag = TRUE
    Nobody = Nobody
    Pooled = Pooled
    Hidden = Hidden
    NoInstance = NoInstance
    NoVmid = NoVmid
PROPERTIES
    PowerIsCarriedOut
CHECK_DEADLOCK FALSE
