SPECIFICATION Spec
CONSTANTS
    kpgd = kpgd
    npgd = npgd
    odd = odd
    ram = ram
    img = img
    f1 = f1
    f2 = f2
    NoAddr = NoAddr
    Identity = Identity
    None = None
    BitOr <- MCBitOr
    PgDiv = 1
    PgdCnt = 4
    PgtbCnt = 2
    KernPgds = {kpgd, npgd}
    UserPgds = {}
    Unaligned = {odd}
    Frames <- MCFrames
    PgTabs <- MCPgTabs
    BootPgd = kpgd
    BootWord <- MCBootWord
    OneToOne = {kpgd}
    MapRequests <- MCMapRequests
    DirRequests <- MCDirRequests
    NewRequests <- MCNewRequests
    InvalPages <- MCInvalPages
    Regions <- MCRegions
    BufWords = 1
    BufDepth = 1
    TlbSize = 0
PROPERTIES
    RegionIsBounded
CHECK_DEADLOCK FALSE
