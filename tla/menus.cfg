SPECIFICATION MenusSpec
CONSTANTS
    WATCHES_MAX = 2
    LOWEST = 2
    MEMMAX = 4
    Entries = {3, 5}
    DataSizes <- MCDataSizes
    U8 = "u8"
    Profiles <- MCProfiles
    STALE_MAX = 1
    MAX_STR_LEN = 3
    VAL_LEN = 2
    Letters = {"a"}
    OwnerTexts <- MCOwnerTexts
    BASE = 3
    LENGTH = 2
    WORD = 24
    CELL = 12
    OPTIONS <- MCOptions
    WatchRows = 2
    DialogRows = 4
    CategorySize = 18
    FILE_ROWS = 3
    TopFiles = 4
    SubFiles = 1
    NewFolders = 2
    RAM_START = 64
    MEMORY_MAX = 128
    ROWS = 2
    Addresses <- MCAddresses
    ActorAddress <- MCActor
    ACTOR_TYPES = 2
    ACTOR_MAX = 2
    VIEW_FRAMES = 1
    OBJ_MAX = 1
    FLAG_BYTES = 2
    flag_sizes <- MCSizes
INVARIANTS
    RowsFollowWatches
    RowsKeepHandlers
    TextReachesCursor
    UntouchedEditCommitsHeld
    
    RowsShowEntries
    CellsAligned
PROPERTY
    CursorStaysUsable
