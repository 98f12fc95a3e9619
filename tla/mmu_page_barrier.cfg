SPECIFICATION Spec
CONSTANTS
    kpgd = kpgd
    npgd = npgd
    odd = odd
    ram = ram
    img = img
    f1 = f1
    f2 = f2
    NoAddr = NoAddr
    Identity = Identity
    None = None
    BitOr <- MCBitOr
    PgDiv = 1
    PgdCnt = 2
    PgtbCnt = 2
    KernPgds = {kpgd}
    UserPgds = {npgd}
    Unaligned = {}
    Frames <- MCFrames
    PgTabs <- MCPgTabs
    BootPgd = kpgd
    BootWord <- MCBootWord
    OneToOne = {kpgd, npgd}
    MapRequests <- MCMapRequests
    DirRequests = {}
    NewRequests <- MCUserNewRequests
    InvalPages <- MCInvalPages
    Regions <- MCUserRegions
    BufWords = 2
    BufDepth = 1
    TlbSize = 1
PROPERTIES
    InvalidatedPageIsGone
