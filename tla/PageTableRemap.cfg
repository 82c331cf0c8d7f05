\* map_raw_4k and map_raw_2m on addresses that share a 2M page.
CONSTANTS
    Frames     = {1, 2, 3, 4}
    Root       = 1
    Idx        = {0, 1}
    OneIndex   = {0, 1, 2}
    Leaves     = {10}
    Sizes      = {"4K", "2M"}
    Writable   = {TRUE}
    Executable = {TRUE}
SPECIFICATION MapSpec
PROPERTY MapKeepsMappings
CHECK_DEADLOCK FALSE
