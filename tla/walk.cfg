SPECIFICATION Spec
CONSTANTS
    Radix = 2
    VpnSpace = 32
    RamFirst = 1
    RamEnd = 3
    Ppn = {1, 2, 3}
    Entry <- WalkEntry
INVARIANTS
    TypeOK
    WalkIsSv39
