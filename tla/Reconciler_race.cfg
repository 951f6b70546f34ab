\* The worker and a pass setting one VM's onboot flag at the same time; nobody
\* outside the API.
SPECIFICATION FairSpecPass
CONSTANTS
    i1 = i1
    Instance <- Instances1
    Vmid <- Vmids1
    MaxAttempts = 1
    UserActions <- PowerActions
    Outside <- Untouched
    CacheLag = FALSE
    Nobody = Nobody
    Pooled = Pooled
    Hidden = Hidden
    NoInstance = NoInstance
    NoVmid = NoVmid
PROPERTIES
    OnbootFollows
CHECK_DEADLOCK FALSE
