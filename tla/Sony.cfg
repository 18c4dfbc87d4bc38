\* Sectors of two units; positions and lengths from 0 past the end of either disk.
CONSTANTS
    Size <- MCSize
    SectorUnits = 2
    MaxStart = 4
    MaxCount = 4
SPECIFICATION SonyFairSpec
INVARIANTS
    MountsSound
PROPERTIES
    TransfersExact
    DisksComeOnLine
