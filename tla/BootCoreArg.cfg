\* What an AP finds in the CoreArg it is pointed at, for a kernel whose
\* file is laid out as its image, so the AP does reach kernel_main.
CONSTANTS
    W                 = 5
    MAX_MEMORY_RANGES = 3
    NUM_CPUS          = 4
    Present           = {1, 2}
    FirmwareMaps      <- MCFirmwareMaps
    MapCapacity       = 7
    KernelPages       = 2
    ArenaPages        = 4
    CurTableFrames    = {0, 1, 2, 3}
    ImageBaseMapped   = {FALSE, TRUE}
    Kernels           <- MCFlatKernels
    FileLen           <- MCFileLen
    TftpFailures      = {"none", "locate", "null", "configure", "read"}
    MpFailures        = {"none", "locate", "null", "count", "startup"}
SPECIFICATION Spec
INVARIANT NoApPanics
CHECK_DEADLOCK FALSE
