SPECIFICATION Spec
CHECK_DEADLOCK FALSE
CONSTANTS
    STATE_MAX = 3
    Blocks = {b1, b2, b3}
    NULL = NULL
    Moments = {m1, m2}
    Title = Title
    Names = {n1}
    Untitled = Untitled
    n1 = n1
    m2 = m2
    Files <- MCFiles
    Empty = Empty
    Failures <- MCImportsFail
INVARIANT
    EmptySlotsShowNoState
