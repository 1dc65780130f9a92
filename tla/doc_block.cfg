SPECIFICATION Spec
CONSTANTS
    WordSize = 256
    Root = {0, 1}
    PageSize = 32
    UserTop = 4
    StubFirst = 2
    StubEnd = 3
    RamFirst = 0
    RamEnd = 2
    UrvbPage = 5
    URVIRT_BLOCK_SIZE = 32
    KernelStart = 0
    VPage = {0, 1, 3}
    Data = {d0, d1}
    CodeAddr = {0}
    DataAddr = {96, 112}
    DataInsn <- CsdInsn
    CsrValue <- BlockCsr
    Deadline = {}
    PteChoice <- BufferPte
    StoreData = {1, 40}
    DiskBlock = {0}
PROPERTIES
    BlockReadDone
