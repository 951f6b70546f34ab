\* One machine and two groups; two slots; two media; three families of things; one
\* mirrored VM and an entry that is not ours; two keys.  Two requests at a time;
\* resources have three, of which one may make what another deleted by name.
SPECIFICATION FairSpecApi
CONSTANTS
    m1 = m1
    NoMachine = NoMachine
    Machine <- Machines1
    Group <- Two
    Traffic <- Traffic2
    Handler <- Two
    Kinds <- AllKinds
    MaxRequests = 2
    MaxRules = 2
    MaxGeneration = 2
    MaxListed = 1
    Slot <- Two
    Account <- OneAccount
    Token <- OneToken
    Vmid <- Three
    Reserved <- SetAside
    Caller <- Two
    Outside <- Foreigners
    Memory <- Sizes
    Preset = 1
    Disk <- DefaultDisk
    HostMemory = 6
    Declared <- SiteLimits
    Overrides <- SetOrNot
    MaxCalls = 2
    Medium <- Media2
    Iso <- Isos
    SharedMedium <- Empty
    Guest <- Guests2
    KeyText <- Texts1
    Client <- Two
    Room = 2
    MaxJobs = 4
    Tenant <- Tenants
    Family <- Families
    Serial <- Serials
    Requester <- Two
    MaxDemands = 3
    Mirrored <- Vms
    Foreign <- Others
    Title <- Titles
    MaxEvents = 5
    MaxFaults = 1
    Key <- TwoKeys
    MaxActive = 1
    Person <- Ann
    Attempt <- OneTry
    Url <- OneUrl
    Ticket <- Tickets
    Visitor <- Two
    MaxVisits = 5
INVARIANTS
    TypeOKApi
    FirewallIsTrue
    NoIndexMet
    TakenOnce
PROPERTIES
    NeverShutNorOpen
    AdmittedWithinLimits
    MediaKeptForTheirUsers
    OnlyDeadEntriesRemoved
    KeysKept
    ResourcesAccounted
    FirewallCatchesUp
    LedgerConverges
CHECK_DEADLOCK FALSE
