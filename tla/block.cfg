SPECIFICATION Spec
CONSTANTS
    WordSize = 256
    Root = {0, 1}
    PageSize = 32
    UserTop = 5
    StubFirst = 2
    StubEnd = 3
    RamFirst = 0
    RamEnd = 2
    UrvbPage = 5
    URVIRT_BLOCK_SIZE = 32
    KernelStart = 0
    VPage = {0, 3, 4}
    Data = {d0, d1}
    CodeAddr = {0}
    DataAddr = {96, 128, 136, 144}
    DataInsn <- BlockInsn
    CsrValue <- BlockCsr
    Deadline = {}
    PteChoice <- BlockPte
    StoreData = {1, 2, 98, 100}
    DiskBlock = {0}
PROPERTIES
    DmaThroughTables
    FaultAnswered
CONSTRAINT BlockGuest
SYMMETRY DataSymmetry
