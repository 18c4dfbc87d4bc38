CONSTANTS
    DReg = {d0}
    AReg = {a0, a7}
    A7 = a7
    NoReg = NoReg
    NoArm = NoArm
    Arm <- MCArm
    Target <- MCTarget
    MaxOps = 2
SPECIFICATION CarefulSpec
INVARIANTS
    LockStep
    HelperSeesGuest
    OperandsCurrent
    RunsGuestOp
