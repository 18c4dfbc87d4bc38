\* The three policies in an arena of six granules and a remainder.
CONSTANTS
    ArenaCap = 50
    EvictModes = {"bump", "lru", "fifo"}
    Reserves = {16, 20, 32, 56}
    Actuals = {8, 12, 16, 28}
SPECIFICATION FairHistorySpec
INVARIANTS
    HeapSound
    NoOtherLeak
PROPERTIES
    OnlyLostBytesFail
    ImplementsArena
    AllocReturns
