SPECIFICATION Spec
CONSTANTS
    WordSize = 256
    Root = {0, 1, 2}
    PageSize = 32
    UserTop = 3
    StubFirst = 2
    StubEnd = 3
    RamFirst = 0
    RamEnd = 2
    UrvbPage = 5
    URVIRT_BLOCK_SIZE = 32
    KernelStart = 0
    VPage = {0}
    Data = {d0}
    CodeAddr = {0}
    DataAddr = {}
    DataInsn = {}
    CsrValue <- SpaceCsr
    Deadline = {}
    PteChoice <- SpacePte
    StoreData = {}
    DiskBlock = {}
PROPERTIES
    TlbImplemented
