SPECIFICATION Spec
CONSTANTS
    WordSize = 256
    Root = {0, 1}
    PageSize = 32
    UserTop = 4
    StubFirst = 2
    StubEnd = 3
    RamFirst = 0
    RamEnd = 2
    UrvbPage = 5
    URVIRT_BLOCK_SIZE = 32
    KernelStart = 4
    VPage = {0, 3}
    Data = {d0}
    CodeAddr = {4}
    DataAddr = {104}
    DataInsn <- SdZeroInsn
    CsrValue <- BlockCsr
    Deadline = {}
    PteChoice <- BlockPte
    StoreData = {1}
    DiskBlock = {}
PROPERTIES
    MmioEmulated
