\* Two volumes attached to and detached from one instance that is terminated at any
\* moment; a moved disk never gets a name that is on record, and none is resized.
SPECIFICATION Spec
CONSTANTS
    i1 = i1
    i2 = i2
    v1 = v1
    v2 = v2
    Instance <- Instances1
    Volume <- Volumes2
    Slot <- Slots3
    CreatedSizes <- Sizes1
    MaxSize = 1
    MaxAttempts = 1
    ReusesNames = FALSE
    Holder = Holder
    NoVm = NoVm
    NoVolume = NoVolume
    NoSlot = NoSlot
SYMMETRY Interchangeable
INVARIANTS
    TypeOK
    NoDiskLost
    LocationIsTrue
    NoDiskStray
    Consistent
CHECK_DEADLOCK FALSE
