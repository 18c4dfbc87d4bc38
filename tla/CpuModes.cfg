\* Room for two mount calls, or for one and the interrupt that ends a STOP; one call deep in user mode.
CONSTANTS
    UserTop = 1
    SuperTop = 7
    Masks = {0, 7}
    MaxPc = 1
    MaxPush = 1
    Drives = 2
    Spare = 3
SPECIFICATION FairSpec
INVARIANTS
    FramesSound
PROPERTIES
    ImplementsTwoStacks
    StopEnds
