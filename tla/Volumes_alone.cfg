\* One volume between two instances, every name Proxmox may give, and progress.
SPECIFICATION FairSpec
CONSTANTS
    i1 = i1
    i2 = i2
    v1 = v1
    v2 = v2
    Instance <- Instances2
    Volume <- Volumes1
    Slot <- Slots2
    CreatedSizes <- Sizes2
    MaxSize = 2
    MaxAttempts = 2
    ReusesNames = TRUE
    Holder = Holder
    NoVm = NoVm
    NoVolume = NoVolume
    NoSlot = NoSlot
INVARIANTS
    LedgerCoversDisk
PROPERTIES
    ActionSettles
    TerminateCompletes
    ImplementsVolumeLife
CHECK_DEADLOCK FALSE
