\* Bump arena; stores by helpers inside blocks; host and ESP32 builds.
CONSTANTS
    ArenaCap = 48
    EvictModes = {"bump"}
    BlockId = {b1, b2}
    NULL = NULL
    OddPc = OddPc
    Word <- MCWord
    Val = {0, 1}
    PageWords = 2
    Pc <- MCPc2
    BlockEnd <- MCBlockEnd
    Reserve <- MCReserve
    Actual <- MCActual
    Succ <- MCSucc2
    Sig <- MCSig
    SrLoaded <- MCSrLoaded
    PrefetchDepth = 2
    Options <- MCOptsBuilds
    MaxDirty = 1
    Until = 4
    StoresBy = {"helper"}
SPECIFICATION Spec
SYMMETRY Symmetry
INVARIANTS
    StaleIsQueued
    EntersCurrentCode
    ChainStopsForEvents
    RunningBlockLive
