CONSTANTS
    HEAP_SIZE = 16
    HDR_SIZE = 2
    Requests <- MCRequests
SPECIFICATION Spec
INVARIANT
    RefusesOnlyWhenNothingFits
