SPECIFICATION FairStoreSpec
CONSTANTS
    PAGE_SIZE = 40
    Hdr = 4
    MIN_ALLOC = 4
    Width = 6
    NULL = NULL
    Junk = Junk
    Requests <- MCRequests
INVARIANTS
    HeapInvariant
    Tiled
    Coalesced
    NothingLeaks
    SplitSucceeds
    DumpIsSafe
    StoresAgree
PROPERTIES
    BestFit
    ImplementsAllocator
    KmallocReturns
