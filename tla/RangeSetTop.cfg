\* RangeSet whose callers reach the last address 2^W - 1 (u64::MAX), where
\* `end + 1` in InclusiveRange::overlaps wraps to 0 in a release build.
CONSTANTS
    W = 3
    MAX_MEMORY_RANGES = 2
    MaxInput = 7
    Sizes = {1}
    Aligns = {1}
SPECIFICATION Spec
INVARIANTS
    RemoveClears
CHECK_DEADLOCK FALSE
