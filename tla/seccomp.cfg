SPECIFICATION Spec
CONSTANTS
    Half = 3
    Addr = {0, 1, 2, 3, 4, 5, 6, 7, 8}
INVARIANTS
    TypeOK
    FilterExact
