\* RangeSet with the address space 0..15 (W = 4) and callers that stay
\* below its top, as physical addresses stay below 2^52 in the code.
CONSTANTS
    W = 4
    MAX_MEMORY_RANGES = 3
    MaxInput = 6
    Sizes = {0, 1, 2, 3}
    Aligns = {1, 2, 3, 4}
SPECIFICATION Spec
INVARIANTS
    TypeOK
    Separated
    RangeSetExamples

    
CHECK_DEADLOCK FALSE
