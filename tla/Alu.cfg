\* Three-bit operands, counts past twice the width, decimal digits at the edges of the corrections.
CONSTANTS
    Half = 4
    MaxCount = 9
    Decimals = {0, 1, 4, 5, 8, 9, 10, 11, 15, 19, 40, 45, 50, 55, 59, 79, 80, 81, 85, 89, 90, 91, 95, 98, 99}
SPECIFICATION Spec
INVARIANTS
    FlagsMean
    InlineAgrees
    ChainsCarry
    ShiftsMean
    DecimalAndDivisionMean
