SPECIFICATION TestKernelSpec
CONSTANTS
    WordSize = 256
    Root = {0, 1}
    PageSize = 32
    UserTop = 4
    StubFirst = 2
    StubEnd = 3
    RamFirst = 0
    RamEnd = 2
    UrvbPage = 5
    URVIRT_BLOCK_SIZE = 32
    KernelStart = 0
    VPage = {0}
    Data = {d0}
    CodeAddr = {0, 4, 8, 12, 16, 20, 32, 36, 40, 44, 48, 52}
    DataAddr = {}
    DataInsn = {}
    CsrValue <- NoCsr
    Deadline = {}
    PteChoice = {}
    StoreData = {}
    DiskBlock = {}
    umode = 16
    stvec = 32
INVARIANTS
    KeepsPrinting
