CONSTANTS
    DReg = {d0}
    AReg = {a0, a7}
    A7 = a7
    NoReg = NoReg
    NoArm = NoArm
    Arm <- MCMemoArm
    Target <- MCTarget
    MaxOps = 3
SPECIFICATION HostSpec
INVARIANT MemoFresh
