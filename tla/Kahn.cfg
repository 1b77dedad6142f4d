SPECIFICATION KahnSpec
CONSTANTS
    Ids = {i1, i2, i3}
    MaxCopies = 2
INVARIANTS
    DecidesAcyclic
    LayoutLeftToRight
CHECK_DEADLOCK FALSE
