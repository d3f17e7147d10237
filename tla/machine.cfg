SPECIFICATION MachineSpec
CONSTANTS
    HEAP_SIZE = 16
    HDR_SIZE = 2
    Requests <- MCRequests
    HEAP_CNT = 3
    HeapStart <- MCHeapStart
    HeapSize <- MCHeapSize
    MEM_TOP = 22
    MEM_HDR = 2
    MemRequests = {1, 2, 4}
    Funcs <- MCFuncs
    KZ_LO = 20
    KZ_HI = 100
    CODE_END = 110
    POOL = 5
    DEPTH = 4
    Nodes = {n1, n2, n3, n4, k1}
    KzNodes = {k1}
    CodeSizes = {1, 2, 4, 5, 6, 8, 11}
    SM_BLK_SIZE = 2
    LG_BLK_SIZE = 3
    SM_WORDS = 2
    LG_WORDS = 2
    WORD = 4
    SMALL = 4
    Scenes = {s1, s2}
    POLY_VTX = 12
    LINE_VTX = 8
    PolyTypes <- MCTypes
    MaxPolys = 7
    SETTINGS_MAX = 2
    WATCH_SLOTS = 1
    WatchLabels <- MCLabels
    Cheats <- MCCheats
    CodeLength = 2
    GameSpeeds <- MCSpeeds
    FlashFound <- MCFlash
    NO_SPEED = 100
    KZ_MEMFILE_MAX = 2
    KZ_POSITION_MAX = 1
    Exits <- MCExits
    SceneOf <- MCSceneOf
    Flags <- MCFlags
    Places = {here}
    CardFiles <- MCCard
    NOTHING = NOTHING
INVARIANTS
    TypeOK
    ListTilesHeap
    FreeBlocksCoalesced
    FirstFreeIsLowest
    MemListsSound
    RecompiledIsFound
    ParentsAgree
    RunsDisjoint
    ListsStandWhileRead
    ListDrawsScene
    FileNamesScene
PROPERTIES
    ImplementsHeapSpec
    MemImplementsHeapSpec
    ProfileRestored
