SPECIFICATION PageSpec
CONSTANTS
    Commands <- MCCommands
    Overrides <- MCOverrides
    Rows <- MCRows
    Buttons <- MCButtons
    BUTTON_L <- MCL
    DPad <- MCDPad
    INPUT_REPEAT = 2
    BIND_MAX = 2
    DefaultBinds <- MCDefaultBinds
INVARIANTS
    UnboundNeverStarts
