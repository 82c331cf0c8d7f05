\* Every call of the page-table API on the leaves the bootloader builds
\* (writable, executable): map_raw_4k, map_raw_2m and update_perms, on a
\* table with two indexes at levels 0, 2 and 3 and four frames besides the
\* root: enough for two branches at a level, for a 2M page over a 4K table
\* and for PhysMem to run out part-way through a map.
CONSTANTS
    Frames     = {1, 2, 3, 4, 5}
    Root       = 1
    Idx        = {0, 1}
    OneIndex   = {1}
    Leaves     = {10}
    Sizes      = {"4K", "2M"}
    Writable   = {TRUE}
    Executable = {TRUE}
SPECIFICATION Spec
INVARIANTS StrictTree
PROPERTY RefinesVirtualMemory
\* A panic halts the core: no step follows it.
CHECK_DEADLOCK FALSE
