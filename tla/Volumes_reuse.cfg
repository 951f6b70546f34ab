\* Two volumes; Proxmox gives a disk the lowest free number, as it does.
SPECIFICATION Spec
CONSTANTS
    i1 = i1
    i2 = i2
    v1 = v1
    v2 = v2
    Instance <- Instances1
    Volume <- Volumes2
    Slot <- Slots3
    CreatedSizes <- Sizes1
    MaxSize = 1
    MaxAttempts = 1
    ReusesNames = TRUE
    Holder = Holder
    NoVm = NoVm
    NoVolume = NoVolume
    NoSlot = NoSlot
SYMMETRY Interchangeable
INVARIANTS
    NoDiskLost
CHECK_DEADLOCK FALSE
