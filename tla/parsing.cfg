SPECIFICATION Spec
CONSTANTS
    Symbols <- MCSymbols
    Bound <- MCBound
    UnitBits = 2
    Mantissa = 6
    WordBits = 16
INVARIANTS
    SizeMeant
    ListMeant
    DomstatsMeant
    
CHECK_DEADLOCK FALSE
