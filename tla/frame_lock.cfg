SPECIFICATION Spec
CONSTANTS
    INPUT_REPEAT = 2
    CELL_MAX = 1
    Pages = {"item", "mask", "quest"}
    Items = {i1}
    NULL = NULL
    Bind <- MCBind
    ToggleBind <- MCToggleBind
INVARIANT
    LockReleasesButtons
