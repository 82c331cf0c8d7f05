CONSTANTS
    FwStates <- MCFwStates
    NewBase = 1043712
    ApicIds = {0, 5}
    EntryPoints = {32768, 32769}
    Vectors = {205}
    OtherSources = TRUE
    MaxPending = 2
SPECIFICATION Spec
INVARIANT IpiHelpersAccepted
CHECK_DEADLOCK FALSE
