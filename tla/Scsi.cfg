\* Blocks of two bytes; length 0 names both blocks of the disk; the second disk is protected.
CONSTANTS
    Blocks <- MCBlocks
    Protected = {3}
    BlockBytes = 2
    ReplyBytes = 2
    ZeroLen = 2
    MaxLba = 2
    MaxLen = 1
SPECIFICATION FairSpec
INVARIANTS
    TransferSound
PROPERTIES
    DiskExact
    ImplementsScsiBus
    CommandsEnd
