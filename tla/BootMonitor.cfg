\* When the BSP's monitor loop ends, against how far the APs have got.
CONSTANTS
    W                 = 5
    MAX_MEMORY_RANGES = 3
    NUM_CPUS          = 4
    Present           = {1, 2}
    FirmwareMaps      <- MCFirmwareMaps
    MapCapacity       = 7
    KernelPages       = 2
    ArenaPages        = 4
    CurTableFrames    = {0, 1, 2, 3}
    ImageBaseMapped   = {FALSE, TRUE}
    Kernels           <- MCKernels
    FileLen           <- MCFileLen
    TftpFailures      = {"none", "locate", "null", "configure", "read"}
    MpFailures        = {"none", "locate", "null", "count", "startup"}
SPECIFICATION Spec
INVARIANT MonitorOutlivesCores
CHECK_DEADLOCK FALSE
