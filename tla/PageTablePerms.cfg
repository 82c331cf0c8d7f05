\* update_perms on a page mapped read-only: spec.md 4.3 says the requested
\* permissions are added.
CONSTANTS
    Frames     = {1, 2, 3, 4}
    Root       = 1
    Idx        = {0}
    OneIndex   = {}
    Leaves     = {10}
    Sizes      = {"4K"}
    Writable   = {FALSE, TRUE}
    Executable = {TRUE}
SPECIFICATION Spec
PROPERTY RefinesVirtualMemory
CHECK_DEADLOCK FALSE
