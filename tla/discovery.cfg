SPECIFICATION FairSpec
CONSTANTS
    NULL = NULL
    Bytes <- MCBytes
    ByteValues = 2
    Provided <- MCProvided
    kv_start = 8
    kp_start = 6
    KernelBytes = 2
    JunkReg <- MCJunkReg
    itox <- MCitox
    JunkTabs = {0, 2}
    UnitMarks = {"@0x"}
INVARIANTS
    DiscoveryInvariant
    WalksStayOnTags
    MemoryFound
    AtagMemoryFound
    TabsAreNesting
    InitrdIsReported
PROPERTIES
    DiscoveryEnds
