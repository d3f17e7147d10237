SPECIFICATION StatesSpec
CHECK_DEADLOCK FALSE
CONSTANTS
    STATE_MAX = 3
    Blocks = {b1, b2, b3}
    NULL = NULL
    Moments = {m1, m2}
    Title = Title
    Names = {n1}
    Untitled = Untitled
    n1 = n1
    m2 = m2
    Files <- MCFiles
    Empty = Empty
    Failures <- MCNoFailures
    Games <- MCGames
    Sizes <- MCSizes
    STATE_VERSION = 8
    COMPATIBLE = {7}
    Versions = {6, 7, 9}
    ARENA = 3
    RING = 3
    CLOCK = 1
INVARIANTS
    TypeOK
    SlotsOwnBlocks
    LoadRestoresMoment
    StreamReadToEnd
    FilesResident
    ClocksGoOn
PROPERTY
    ImplementsSlotSpec
