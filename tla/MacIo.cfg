\* A timer of 4 values, a ring that is full with two events, delays of one and three keyboard ticks.
CONSTANTS
    TimerMod = 4
    Divider = 2
    VblCycles = 4
    Ring = 3
    KbdDelay = 8
    KbdInquiry = 16
    MaxGap = 3
    KbdStep = 8
    Loads = {0, 3}
    MaxEvents = 3
SPECIFICATION FairSpec
INVARIANTS
    TimersInTime
    RepliesMatch
    KeysInOrder
PROPERTIES
    KeysArrive
