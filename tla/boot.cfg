SPECIFICATION BootSpec
CONSTANTS
    WordSize = 256
    Root = {0, 1}
    PageSize = 16
    UserTop = 10
    StubFirst = 6
    StubEnd = 8
    RamFirst = 1
    RamEnd = 3
    UrvbPage = 5
    URVIRT_BLOCK_SIZE = 32
    KernelStart = 32
    VPage = {}
    Data = {"zero", "k0", "k1"}
    CodeAddr = {32}
    DataAddr = {}
    DataInsn = {}
    CsrValue <- NoCsr
    Deadline = {}
    PteChoice = {}
    StoreData = {}
    DiskBlock = {}
    CONFIG_FD = 2
    RAM_FD = 3
    KERNEL_FD = 4
    BLOCK_FD = 5
    FdLimit = 9
    MmapArea = {4, 5, 6, 7, 8, 9}
    LoaderArea = {1, 5, 7, 9}
    Image <- KernelFile
    ZeroData = "zero"
INVARIANTS
    BootTypeOK
    OwnPagesMapped
    RightFiles
PROPERTIES
    KernelLoaded
    HandsOver
    Starts
