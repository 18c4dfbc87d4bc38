\* Arenas too small for the three blocks at once, in every mode; failing compiles; stores by inline code and between blocks.
CONSTANTS
    ArenaCap = 48
    EvictModes = {"bump", "lru", "fifo"}
    BlockId = {b1, b2, b3}
    NULL = NULL
    OddPc = OddPc
    Word <- MCWord
    Val = {0}
    PageWords = 2
    Pc <- MCPc
    BlockEnd <- MCBlockEnd
    Reserve <- MCReserve
    Actual <- MCActualTight
    Succ <- MCSucc
    Sig <- MCSig
    SrLoaded <- MCSrLoaded
    PrefetchDepth = 2
    Options <- MCOptsBench
    MaxDirty = 1
    Until = 4
    StoresBy = {"inline", "event"}
SPECIFICATION FairSpec
INVARIANTS
    PointersLive
    OneBlockPerPc
PROPERTIES
    ImplementsCodeCache
    GetBlockReturns
