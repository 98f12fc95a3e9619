SPECIFICATION FairBootSpec
CONSTANTS
    kpgd = kpgd
    NoAddr = NoAddr
    Identity = Identity
    None = None
    PgDiv = 1
    PgdCnt = 8
    PgtbCnt = 4
    KernPgds = {kpgd}
    UserPgds = {}
    Unaligned = {}
    Frames <- MCFrames
    PgTabs <- MCPgTabs
    BootPgd = kpgd
    BootWord <- BootWords
    OneToOne = {kpgd}
    MapRequests = {}
    DirRequests = {}
    NewRequests = {}
    InvalPages = {}
    Regions = {}
    BufWords = 2
    BufDepth = 1
    TlbSize = 1
    kp_start = 0
    k_pgd = 0
    PgdPages = 1
    lmi_start = 1
    k_stack = 3
    hmi_start = 3
    k_start = 4
    k_end = 7
    TabsPerPage = 2
    BitOr <- MCBitOr
    JunkPgd <- MCJunkPgd
    JunkPgtb <- MCJunkPgtb
INVARIANTS
    KernelReachable
    RegionsMapped
    SectionsCoverKernel
    OnlyTheWindow
    HandoverInvariant
PROPERTIES
    BootCompletes
