\* Six machines; bytes of three bits for the clock chip.
CONSTANTS
    Machines <- MCMachines
    DeviceMachine <- MCMac
    CodePcs = {1, 14, 129}
    BlockBytes = 2
    PageBytes = 2
    StoreAddrs = {0, 1, 2, 3, 5, 13, 15, 17, 31, 127, 130, 193, 466, 513}
    MouseBytes = {8, 9, 10, 11, 12, 13, 14}
    MaxRx = 3
    Values <- MCValues
    Bits = 3
    CellBits = 1
    ClockBytes <- MCClockBytes
SPECIFICATION Spec
INVARIANTS
    ProbesExact
    WritesSeen
    RxAtMostOnce
    PramKeepsBytes
