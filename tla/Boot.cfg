\* The boot sequence on four cores of which AP 3 is missing, with every
\* shape of the firmware's page table (0 to 3 tables to add, image_base
\* already mapped) and the memory maps of MCBoot.
CONSTANTS
    W                 = 5
    MAX_MEMORY_RANGES = 3
    NUM_CPUS          = 4
    Present           = {1, 2}
    FirmwareMaps      <- MCFirmwareMaps
    MapCapacity       = 7
    KernelPages       = 2
    ArenaPages        = 4
    CurTableFrames    = {0, 1, 2, 3}
    ImageBaseMapped   = {FALSE, TRUE}
    Kernels           <- MCKernels
    FileLen           <- MCFileLen
    TftpFailures      = {"none", "locate", "null", "configure", "read"}
    MpFailures        = {"none", "locate", "null", "count", "startup"}
SPECIFICATION FairSpec
INVARIANTS TypeOK ArenasPrivate TablesPrivate AllocatedFromFreeMemory ErrorReportAligned
PROPERTIES BootEnds
\* Every path ends in a halt: a panic, or the BSP's "w00t! Finished!" panic.
CHECK_DEADLOCK FALSE
