SPECIFICATION Spec
CONSTANTS
    WordSize = 256
    Root = {0, 1}
    PageSize = 32
    UserTop = 4
    StubFirst = 2
    StubEnd = 3
    RamFirst = 0
    RamEnd = 2
    UrvbPage = 5
    URVIRT_BLOCK_SIZE = 32
    KernelStart = 0
    VPage = {0, 3}
    Data = {d0}
    CodeAddr = {0, 30}
    DataAddr = {100}
    DataInsn <- PagingInsn
    CsrValue <- PagingCsr
    Deadline = {}
    PteChoice <- PagingPte
    StoreData = {}
    DiskBlock = {}
INVARIANTS
    StubIntact
    NoStaleMapping
    DerailedOnlyUnfenced
PROPERTIES
    FaultAnswered
    AllowedAccess
