SPECIFICATION Spec
CONSTANTS
    WordSize = 256
    Root = {0, 1}
    PageSize = 32
    UserTop = 4
    StubFirst = 2
    StubEnd = 3
    RamFirst = 0
    RamEnd = 1
    UrvbPage = 5
    URVIRT_BLOCK_SIZE = 32
    KernelStart = 0
    VPage = {0}
    Data = {d0}
    CodeAddr = {0}
    DataAddr = {}
    DataInsn = {}
    CsrValue <- TrapCsr
    Deadline = {"past", "now", "future"}
    PteChoice <- TrapPte
    StoreData = {}
    DiskBlock = {}
INVARIANTS
    TypeOK
    InterruptTaken
    TrapReturns
PROPERTIES
    UserTrapPrecise
    EmulatedOnce
