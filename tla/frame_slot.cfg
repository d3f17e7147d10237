SPECIFICATION Spec
CONSTANTS
    INPUT_REPEAT = 2
    CELL_MAX = 2
    Pages = {"item", "mask"}
    Items = {i1}
    NULL = NULL
    Bind <- MCBind
    ToggleBind <- MCToggleBind
PROPERTY
    CommitInCursorSlot
