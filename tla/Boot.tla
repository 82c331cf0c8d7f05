-------------------------------- MODULE Boot --------------------------------
(***************************************************************************)
(* The boot sequence of src/bootloader/src/main.rs (try_main) on the BSP   *)
(* and kernel_main (src/kernel/src/main.rs) on each AP it starts.          *)
(* Memory is counted in 4 KiB pages: available_memory is a RangeSet of     *)
(* page numbers (RangeAlgebra with W-bit page numbers), the kernel buffer  *)
(* is KernelPages pages, a core's arena ArenaPages pages.                  *)
(*                                                                         *)
(* The BSP runs alone until it starts the first AP: reading the memory    *)
(* map (lines 74 to 80, GetAvailableMemory) and lines 80 to 161 (Prepare)  *)
(* are one step each.  Each iteration of the `for core_id` loop is one     *)
(* step, Launch; the polling loop is Poll.  StartupThisAP does not block:  *)
(* an AP enters kernel_main (ApEnter) at any later point.                  *)
(***************************************************************************)
EXTENDS MemoryMap, Pe, ErrChain
LOCAL INSTANCE FiniteSets
LOCAL INSTANCE Functions
LOCAL INSTANCE TLC

CONSTANTS
    NUM_CPUS,        \* the compile-time core count (36 in the code)
    Present,         \* the APs the machine has
    FirmwareMaps,    \* memory maps the firmware may hand over (see MemoryMap)
    KernelPages,     \* pages of the kernel buffer (2 MiB)
    ArenaPages,      \* pages of a core's arena (1 GiB)
    CurTableFrames,  \* tables _map_raw may add to the firmware's page table
    ImageBaseMapped, \* whether the firmware's table already maps image_base
    Kernels,         \* kernel files the TFTP server may serve (see Pe)
    TftpFailures,    \* which TFTP firmware call may fail ("none" for none)
    MpFailures       \* which MP services call may fail ("none" for none)

Cores == 1 .. NUM_CPUS - 1

\* Tables _map_raw adds below a fresh root for one 4K page (PageTable: a
\* 4K map from an empty root allocates levels 1 to 3)
NewTableFrames == 3

ASSUME /\ NUM_CPUS \in Nat \ {0, 1} /\ Present \subseteq Nat \ {0}
       /\ KernelPages \in Nat \ {0} /\ ArenaPages \in Nat \ {0}
       /\ CurTableFrames \subseteq 0 .. 3 /\ ImageBaseMapped \subseteq BOOLEAN
       /\ TftpFailures \subseteq {"none", "locate", "null", "configure", "read"}
       /\ MpFailures \subseteq {"none", "locate", "null", "count", "startup"}

\* Bytes of a page
PageSize == 4096

\* Every kernel's sections lie in the 2 MiB region of its image_base, so
\* one last-level table serves all of them in either page table
ASSUME \A k \in Kernels : \A i \in DOMAIN k.sections :
          (k.image_base + k.sections[i].virt_addr) \div 2^21 = k.image_base \div 2^21

\* CoreArg fields the AP checks: core (None is 0) and whether alive_address is set
NoCore == 0
NewCoreArg == [core |-> NoCore, alive |-> FALSE]

VARIABLES
    firmware,   \* the firmware's memory map (never changes)
    fwTable,    \* the firmware's page table: tables missing below image_base,
                \* and whether it maps image_base already (never changes)
    kernel,     \* the file the TFTP server serves (never changes)
    kmap,       \* virtual page -> kernel buffer page, mapped in both tables
    error,      \* the ErrorChain try_main returned to efi_main, or NoChain
    bsp,        \* where try_main is: start, prepare, launch, monitor, finished, halted
    next,       \* core_id of the next loop iteration
    avail,      \* available_memory
    kbuf,       \* pages of the kernel buffer
    tables,     \* page-table frames in allocation order
    arenas,     \* pages allocated for each core's arena
    coreArgs,   \* the core_args array the APs are pointed at
    alive,      \* the alive_cores array
    ap          \* each AP: idle, launched (started, not yet running), panicked,
                \* stray (running bytes that are not kernel_main)

vars == <<firmware, fwTable, kernel, kmap, error, bsp, next, avail, kbuf, tables, arenas, coreArgs, alive, ap>>

\* Every page taken from the same, stale RangeSet (mutation of AllocPages)
RECURSIVE AllocPagesStale(_, _)
AllocPagesStale(s, n) ==
    IF n = 0 THEN [ranges |-> s, pages |-> <<>>, err |-> "Ok"]
    ELSE LET a    == AllocateOp(s, 1, 1)
             rest == AllocPagesStale(s, n - 1)
         IN  IF a.err /= "Ok" THEN [ranges |-> a.ranges, pages |-> <<>>, err |-> "Panic"]
             ELSE [rest EXCEPT !.pages = <<a.addr>> \o @]

\* `.expect` on the result a of allocate
Expected(a) == IF a.err = "Ok" THEN a ELSE [a EXCEPT !.err = "Panic"]

\* <RangeSet as PhysMem>::alloc_phys: allocate, whose error `.expect` turns
\* into a panic
AllocPhys(s, size, align) == Expected(AllocateOp(s, size, align))

\* alloc_page -> alloc_page_aligned(0x1000): one page, page aligned
AllocPage(s) == AllocPhys(s, 1, 1)

\* alloc_page_zeroed n times, each from what the previous one left
RECURSIVE AllocPages(_, _), PagesAfter(_, _)
AllocPages(s, n) ==
    IF n = 0 THEN [ranges |-> s, pages |-> <<>>, err |-> "Ok"]
    ELSE PagesAfter(AllocPage(s), n)

\* The remaining n - 1 pages after the first came back as a
PagesAfter(a, n) ==
    IF a.err /= "Ok" THEN [ranges |-> a.ranges, pages |-> <<>>, err |-> a.err]
    ELSE [AllocPages(a.ranges, n - 1) EXCEPT !.pages = <<a.addr>> \o @]

\* No Err has reached efi_main (try_main is running, or it panicked)
NoChain == [chain |-> <<>>, max_padding |-> 0]

Block(a, n) == a .. a + n - 1

Init ==
    /\ firmware \in FirmwareMaps
    /\ fwTable \in [missing : CurTableFrames, mapsImage : ImageBaseMapped]
    /\ kernel \in Kernels
    /\ kmap = <<>>
    /\ error = NoChain
    /\ bsp = "start"
    /\ next = 1
    /\ avail = <<>>
    /\ kbuf = {}
    /\ tables = <<>>
    /\ arenas = [c \in Cores |-> {}]
    /\ coreArgs = [c \in Cores |-> NewCoreArg]
    /\ alive = [c \in Cores |-> FALSE]
    /\ ap = [c \in Cores |-> "idle"]

\* BootServices::locate_protocol, which fails on an error status or a null
\* interface; `failure` names the firmware call that fails, if any
LocateProtocol(failure) ==
    CASE failure = "locate" -> "LocateProtocolFailed"
      [] failure = "null"   -> "LocateProtocolNullAddress"
      [] OTHER              -> "Ok"

\* multiprocessor::mp_services: locate_protocol for the MP services GUID
MpServices(failure) == LocateProtocol(failure)

\* uefi::cpu_count: mp_services()?.get_number_of_processors(), which
\* counts the BSP and every AP or fails with the firmware call
CpuCount(failure) ==
    CASE MpServices(failure) /= "Ok" -> [err |-> MpServices(failure)]
      [] failure = "count"           -> [err |-> "GetNumberOfProcessorsFailed"]
      [] OTHER -> [err |-> "Ok", total |-> 1 + Cardinality(Present),
                   enabled |-> 1 + Cardinality(Present)]

(***************************************************************************)
(* uefi::startup_this_ap in non-blocking mode (a wait event, no timeout):  *)
(* mp_services()? and the firmware's StartupThisAP, which starts an AP it  *)
(* has and answers NOT_FOUND for a processor number it lacks (or another  *)
(* error status for one it cannot start); the wrapper returns any of them *)
(* as StartupThisApFailed.                                                 *)
(***************************************************************************)
StartupThisAp(c, failure) ==
    CASE MpServices(failure) /= "Ok"            -> MpServices(failure)
      [] c \notin Present \/ failure = "startup" -> "StartupThisApFailed"
      [] OTHER                                  -> "Ok"

(***************************************************************************)
(* The ErrorChain each failing call hands back, from the err! or ensure!   *)
(* that raised it through the `?`s between it and try_main (ErrChain).     *)
(* Files are named as rustc is given them when the bootloader crate is     *)
(* built from its own directory, with the shared crates as path            *)
(* dependencies beside it.                                                 *)
(***************************************************************************)
MainRs     == "src/main.rs"
BootRs     == "src/uefi/boot.rs"
ModRs      == "src/uefi/mod.rs"
TftpRs     == "src/uefi/tftp.rs"
MpRs       == "src/uefi/multiprocessor.rs"
RangeSetRs == "../shared/rangeset/src/lib.rs"
PeRs       == "../shared/pe/src/lib.rs"
X86Rs      == "../shared/page_table/src/x86.rs"

\* BootServices::locate_protocol: err! on an error status or a null address
LocateProtocolChain(e) ==
    Raise(Site(BootRs, IF e = "LocateProtocolFailed" THEN 396 ELSE 400), e)

\* BootServices::get_memory_map: err! when the call fails, ensure! on the
\* descriptor size, or an insert ensure! passed on by `insert(entry)?`
GetMemoryMapChain(e) ==
    CASE e = "GetMemoryMapFailed"           -> Raise(Site(BootRs, 334), e)
      [] e = "MemoryDescriptorSizeMismatch" -> Raise(Site(BootRs, 340), e)
      [] OTHER -> Propagate(Raise(Site(RangeSetRs, IF e = "InvalidRange" THEN 235 ELSE 236), e),
                            <<Site(BootRs, 376)>>)

\* uefi::memory_map: `boot_services.get_memory_map()?`
MemoryMapChain(e) == FromError(GetMemoryMapChain(e), Site(ModRs, 437))

\* uefi::cpu_count: the err! of get_number_of_processors (the tail of
\* cpu_count), or locate_protocol through mp_services' and cpu_count's `?`
CpuCountChain(e) ==
    IF e = "GetNumberOfProcessorsFailed" THEN Raise(Site(MpRs, 330), e)
    ELSE Propagate(LocateProtocolChain(e), <<Site(MpRs, 19), Site(MpRs, 28)>>)

(***************************************************************************)
(* RangeSet::allocate(s, size, align): its two ensure!s, the add! of size  *)
(* - 1 (the add! of the padding cannot overflow: ranges start on a page    *)
(* and allocations are page aligned), or remove's Full passed on by the    *)
(* `?` of the early return or of the best fit.                             *)
(***************************************************************************)
AllocateChain(s, size, align, e) ==
    CASE e = "ZeroSizedAllocation" -> Raise(Site(RangeSetRs, 345), e)
      [] e = "UnalignedAllocation" -> Raise(Site(RangeSetRs, 346), e)
      [] e = "AddOverflow"         -> AddOverflowAt(Site(RangeSetRs, 375))
      [] OTHER ->
           FromError(Raise(Site(RangeSetRs, 311), e),
                     Site(RangeSetRs, IF AllocScan(s, size, align, 1, NoAllocation).kind = "early"
                                      THEN 392 ELSE 408))

\* tftp::read_file: get()? (locate_protocol through get's `?`),
\* configure()?, and the err! of TftpServices::read_file as its tail
TftpChain(e) ==
    CASE e \in {"LocateProtocolFailed", "LocateProtocolNullAddress"} ->
             Propagate(LocateProtocolChain(e), <<Site(TftpRs, 20), Site(TftpRs, 31)>>)
      [] e = "TftpConfigureFailed" -> FromError(Raise(Site(TftpRs, 145), e), Site(TftpRs, 34))
      [] OTHER                     -> Raise(Site(TftpRs, 202), e)

\* pe::parse: its three ensure!s
ParseChain(e) ==
    Raise(Site(PeRs, CASE e = "InvalidMZHeader" -> 237
                       [] e = "InvalidPEHEader" -> 246
                       [] OTHER                 -> 252), e)

\* _map_raw: err! on a page that translates (its page-alignment err! cannot
\* fire: EntryBuilder::address has asserted the address aligned already)
MapChain(e) == Raise(Site(X86Rs, 446), e)

\* What efi_main receives when try_main stops with outcome e: a panic never
\* returns, an error comes back through the `?` at try_main's line
Returned(e, chain, line) == IF e = "Panic" THEN NoChain ELSE FromError(chain, Site(MainRs, line))

\* Lines 80 to 84 once memory_map returned m and cpu_count n
MemoryMapRead(m, n) ==
    LET counted == n.err = "Ok" /\ NUM_CPUS >= n.total
    IN  \/ m.err = "Ok" /\ counted /\ bsp' = "prepare" /\ avail' = m.ranges
           /\ UNCHANGED error
        \/ m.err /= "Ok" /\ bsp' = "halted" /\ UNCHANGED avail
           /\ error' = Returned(m.err, MemoryMapChain(m.err), 80)
        \/ m.err = "Ok" /\ ~counted /\ bsp' = "halted" /\ avail' = m.ranges
           /\ error' = IF n.err = "Ok" THEN NoChain
                       ELSE Returned(n.err, CpuCountChain(n.err), 83)

(***************************************************************************)
(* try_main lines 74 to 84: use_system_table, disable_watchdog_timer       *)
(* (whose Result is dropped; it cannot fail once the table is set),        *)
(* `uefi::memory_map(image_handle)?`, and the assert that NUM_CPUS covers  *)
(* every processor, `uefi::cpu_count()?.total`.  A panic or an error      *)
(* halts.                                                                  *)
(***************************************************************************)
GetAvailableMemory ==
    /\ bsp = "start"
    /\ \E failure \in MpFailures : MemoryMapRead(UefiMemoryMap(firmware), CpuCount(failure))
    /\ UNCHANGED <<firmware, fwTable, kernel, kmap, next, kbuf, tables, arenas, coreArgs, alive, ap>>

\* tftp::get: locate_protocol for the TFTP GUID
TftpGet(failure) == LocateProtocol(failure)

\* TftpServices::configure with the fixed addresses
TftpConfigure(failure) == IF failure = "configure" THEN "TftpConfigureFailed" ELSE "Ok"

\* TftpServices::read_file: the firmware fails with BUFFER_TOO_SMALL when
\* the file does not fit; the byte count it reports is dropped, so parse
\* reads the whole buffer
TftpRead(failure, file, len) ==
    IF failure = "read" \/ file.bytes > len THEN "TftpReadFileFailed" ELSE "Ok"

\* tftp::read_file: get()?, configure()?, then the read
TftpReadFile(failure, file, len) ==
    CASE TftpGet(failure) /= "Ok"       -> TftpGet(failure)
      [] TftpConfigure(failure) /= "Ok" -> TftpConfigure(failure)
      [] OTHER                          -> TftpRead(failure, file, len)

\* The state the section loop carries: available_memory, the table frames
\* it allocated, the pages it mapped, the error that ended it and the line
\* of try_main whose `?` passed that error on
LoopState(s, frames, m, e, line) ==
    [ranges |-> s, frames |-> frames, kmap |-> m, err |-> e, line |-> line]

\* The loop state after _map_raw's descent allocated the tables a
TablesAdded(st, a) == [st EXCEPT !.ranges = a.ranges, !.frames = @ \o a.pages, !.err = a.err]

\* map_raw_4k of one page into a table: VirtAddrAlreadyMapped when the page
\* translates, else `missing` tables from alloc_page_zeroed (a panic when
\* memory runs out)
MapPage(st, mapped, missing) ==
    IF mapped THEN [st EXCEPT !.err = "VirtAddrAlreadyMapped"]
    ELSE TablesAdded(st, AllocPages(st.ranges, missing))

(***************************************************************************)
(* The `for section in &parsed.sections` loop from slot i on.  Only a      *)
(* readable, executable, non-writable section is mapped: one 4K leaf at   *)
(* image_base + virt_addr pointing at kernel_buffer_addr + virt_addr, into *)
(* the new table, then into the firmware's.  EntryBuilder::address       *)
(* asserts the address page aligned (a panic); _map_raw refuses a page    *)
(* that already translates.  The                                          *)
(* first mapping adds the three tables below the new root and the         *)
(* firmware table's missing ones; later pages reuse them.                 *)
(***************************************************************************)
RECURSIVE MapSections(_, _, _, _, _), MappedNew(_, _, _, _, _, _, _),
          MappedCur(_, _, _, _, _, _, _)
MapSections(st, parsed, kaddr, fw, i) ==
    IF i > Len(parsed.sections) \/ st.err /= "Ok" THEN st
    ELSE LET sec == parsed.sections[i]
             pg  == [va   |-> (parsed.image_base + sec.virt_addr) \div PageSize,
                     phys |-> kaddr + sec.virt_addr]
         IN  IF ~(sec.perms.readable /\ sec.perms.executable /\ ~sec.perms.writable)
             THEN MapSections(st, parsed, kaddr, fw, i + 1)
             ELSE IF pg.phys % PageSize /= 0
             THEN [st EXCEPT !.err = "Panic", !.line = 138]
             ELSE MappedNew(st, parsed, kaddr, fw, i, pg,
                            MapPage(st, pg.va \in DOMAIN st.kmap,
                                    IF st.kmap = <<>> THEN NewTableFrames ELSE 0))

\* The loop once page pg of section i went into the new table (state new):
\* then into the firmware's table
MappedNew(st, parsed, kaddr, fw, i, pg, new) ==
    IF new.err /= "Ok" THEN [new EXCEPT !.line = 151]
    ELSE MappedCur(st, parsed, kaddr, fw, i, pg,
                   MapPage(new, fw.mapsImage \/ pg.va \in DOMAIN st.kmap,
                           IF st.kmap = <<>> THEN fw.missing ELSE 0))

\* The loop once page pg went into both tables (state cur): on to i + 1
MappedCur(st, parsed, kaddr, fw, i, pg, cur) ==
    IF cur.err /= "Ok" THEN [cur EXCEPT !.line = 155]
    ELSE MapSections([cur EXCEPT !.kmap = st.kmap @@ (pg.va :> pg.phys \div PageSize)],
                     parsed, kaddr, fw, i + 1)

\* The kernel load once the new root came back as `root`
RootAllocated(parsed, kaddr, root) ==
    IF root.err /= "Ok" THEN LoopState(root.ranges, <<>>, <<>>, root.err, 117)
    ELSE MapSections(LoopState(root.ranges, root.pages, <<>>, "Ok", 0), parsed, kaddr, fwTable, 1)

\* The kernel load once the download returned dl and parse `parsed`
Downloaded(original, kaddr, dl, parsed) ==
    CASE dl /= "Ok"         -> LoopState(original, <<>>, <<>>, dl, 110)
      [] parsed.err /= "Ok" -> LoopState(original, <<>>, <<>>, parsed.err, 113)
      [] OTHER              -> RootAllocated(parsed, kaddr, AllocPages(original, 1))

(***************************************************************************)
(* try_main lines 89 to 161 after the kernel buffer is allocated, from the *)
(* snapshot `original` on: the download, parse, the new root (alloc_page_ *)
(* zeroed), and the section loop; its result is what Prepare keeps.       *)
(***************************************************************************)
LoadKernel(original, kaddr, failure) ==
    Downloaded(original, kaddr, TftpReadFile(failure, kernel, KernelPages * PageSize),
               Parse(kernel, KernelPages * PageSize))

\* The chain of the call in LoadKernel that failed: read_file, parse or
\* one of the two map_raw_4k calls
LoadKernelChain(ld) ==
    CASE ld.line = 110 -> TftpChain(ld.err)
      [] ld.line = 113 -> ParseChain(ld.err)
      [] OTHER         -> MapChain(ld.err)

(***************************************************************************)
(* try_main lines 89 to 161 once the kernel buffer allocate returned k and *)
(* the load ld: an error halts with what was allocated up to it; success   *)
(* leaves available_memory `kept`.                                         *)
(***************************************************************************)
KernelLoaded(k, ld, kept) ==
    \/ k.err /= "Ok" /\ bsp' = "halted" /\ avail' = k.ranges
       /\ error' = Returned(k.err, AllocateChain(avail, KernelPages, 1, k.err), 96)
       /\ UNCHANGED <<kbuf, tables, kmap>>
    \/ k.err = "Ok" /\ kbuf' = Block(k.addr, KernelPages)
       /\ tables' = ld.frames /\ kmap' = ld.kmap
       /\ IF ld.err = "Ok" THEN bsp' = "launch" /\ avail' = kept /\ UNCHANGED error
          ELSE /\ bsp' = "halted" /\ avail' = ld.ranges
               /\ error' = Returned(ld.err, LoadKernelChain(ld), ld.line)

\* The snapshot of line 107 taken before the kernel buffer is allocated
\* (mutation of Prepare)
PrepareSnapshotFirst ==
    /\ bsp = "prepare"
    /\ \E failure \in TftpFailures :
         LET k == AllocateOp(avail, KernelPages, 1)
         IN  KernelLoaded(k, LoadKernel(k.ranges, k.addr * PageSize, failure), avail)
    /\ UNCHANGED <<firmware, fwTable, kernel, next, arenas, coreArgs, alive, ap>>

(***************************************************************************)
(* try_main lines 89 to 161: allocate the kernel buffer, snapshot          *)
(* available_memory (line 107), load and map the kernel (LoadKernel), then *)
(* set available_memory back to the snapshot, which holds the buffer's     *)
(* allocation.                                                             *)
(***************************************************************************)
Prepare ==
    /\ bsp = "prepare"
    /\ \E failure \in TftpFailures :
         LET k == AllocateOp(avail, KernelPages, 1)
         IN  KernelLoaded(k, LoadKernel(k.ranges, k.addr * PageSize, failure), k.ranges)
    /\ UNCHANGED <<firmware, fwTable, kernel, next, arenas, coreArgs, alive, ap>>

(***************************************************************************)
(* curr_page_table.translate(parsed.entry_point): the entry point's page   *)
(* translates when the section loop mapped it, or when the firmware's      *)
(* table maps image_base's region itself.  Otherwise translate returns a   *)
(* not-present translation and `.phys_addr().unwrap()` panics.            *)
(***************************************************************************)
EntryTranslates ==
    \/ Parse(kernel, KernelPages * PageSize).entry_point \div PageSize \in DOMAIN kmap
    \/ fwTable.mapsImage

\* ap after startup_this_ap(next, ...), whose result the loop drops
Started(failure) ==
    IF StartupThisAp(next, failure) = "Ok" THEN [ap EXCEPT ![next] = "launched"] ELSE ap

(***************************************************************************)
(* One iteration of the `for core_id` loop once the arena allocate         *)
(* returned a; `last` is the core_id after which the loop ends.            *)
(***************************************************************************)
ArenaAllocated(a, last) ==
    \/ a.err /= "Ok" /\ bsp' = "halted" /\ avail' = a.ranges
       /\ error' = Returned(a.err, AllocateChain(avail, ArenaPages, 1, a.err), 184)
       /\ UNCHANGED <<next, arenas, ap>>
    \/ a.err = "Ok" /\ ~EntryTranslates /\ bsp' = "halted" /\ avail' = a.ranges
       /\ arenas' = [arenas EXCEPT ![next] = Block(a.addr, ArenaPages)]
       /\ UNCHANGED <<next, ap, error>>
    \/ a.err = "Ok" /\ EntryTranslates /\ avail' = a.ranges /\ UNCHANGED error
       /\ arenas' = [arenas EXCEPT ![next] = Block(a.addr, ArenaPages)]
       /\ \E f \in MpFailures : ap' = Started(f)
       /\ next' = next + 1
       /\ bsp' = (IF next = last THEN "monitor" ELSE "launch")

\* The loop run over 0..=NUM_CPUS (mutation of Launch)
LaunchPastEnd ==
    /\ bsp = "launch"
    /\ ArenaAllocated(AllocateOp(avail, ArenaPages, 1), NUM_CPUS)
    /\ UNCHANGED <<firmware, fwTable, kernel, kmap, kbuf, tables, coreArgs, alive>>

(***************************************************************************)
(* One iteration of the `for core_id` loop (core 0 is skipped; the test    *)
(* `core_id >= NUM_CPUS` never holds).  It resets and fills `core_arg`, a  *)
(* copy of core_args[core_id] (CoreArg is Copy), so core_args is left as   *)
(* it was.  The arena allocate may fail (`?`, halt), and so may the        *)
(* translation of the entry point (EntryTranslates); startup_this_ap's     *)
(* result is dropped, so a core the machine lacks is skipped silently.     *)
(***************************************************************************)
Launch ==
    /\ bsp = "launch"
    /\ ArenaAllocated(AllocateOp(avail, ArenaPages, 1), NUM_CPUS - 1)
    /\ UNCHANGED <<firmware, fwTable, kernel, kmap, kbuf, tables, coreArgs, alive>>

(***************************************************************************)
(* What AP c finds at entry_point_phys (main.rs 188 to 200): the section   *)
(* loop maps image_base + virt_addr to kernel_buffer_addr + virt_addr, and *)
(* the buffer holds the file from offset 0, so the AP executes the bytes   *)
(* at file offset entry_point_rva.  kernel_main is there only when the     *)
(* entry page is one the loop mapped and the section holding the entry    *)
(* lies in the file at its virtual offset (raw_data_ptr = virt_addr).     *)
(* Through the firmware's own mapping of image_base, or with .text stored *)
(* elsewhere in the file, the AP runs bytes the loader never placed there. *)
(***************************************************************************)
KernelMainAtEntry ==
    LET p   == Parse(kernel, KernelPages * PageSize)
        rva == kernel.entry_point_rva
    IN  /\ p.entry_point \div PageSize \in DOMAIN kmap
        /\ \E i \in DOMAIN p.sections :
              /\ p.sections[i].virt_addr <= rva
              /\ rva < p.sections[i].virt_addr + p.sections[i].size
              /\ p.sections[i].data = p.sections[i].virt_addr

(***************************************************************************)
(* AP c runs: at kernel_main (lines 15 to 21) it dereferences the pointer  *)
(* to core_args[c] and asserts that core and alive_address are set.  They  *)
(* never are (see Launch), so the AP panics and spins; the rest of         *)
(* kernel_main (lines 25 to 41) is never reached.  Anywhere else it runs   *)
(* whatever the bytes are ("stray"), which the model does not follow.      *)
(***************************************************************************)
ApEnter(c) ==
    /\ ap[c] = "launched"
    /\ \/ KernelMainAtEntry /\ ~(coreArgs[c].core /= NoCore /\ coreArgs[c].alive)
          /\ ap' = [ap EXCEPT ![c] = "panicked"]
       \/ ~KernelMainAtEntry /\ ap' = [ap EXCEPT ![c] = "stray"]
    /\ UNCHANGED <<firmware, fwTable, kernel, kmap, error, bsp, next, avail, kbuf, tables, arenas, coreArgs, alive>>

(***************************************************************************)
(* One pass of the monitor loop: if no alive flag is set it ends, and      *)
(* try_main panics with "w00t! Finished!"; otherwise it sleeps and polls   *)
(* again.                                                                  *)
(***************************************************************************)
\* A monitor loop that never sets all_cores_finished back to true before a
\* pass (mutation of Poll): it starts false, so the loop never ends
PollNoReset ==
    /\ bsp = "monitor"
    /\ bsp' = "monitor"
    /\ UNCHANGED <<firmware, fwTable, kernel, kmap, error, next, avail, kbuf, tables, arenas, coreArgs, alive, ap>>

Poll ==
    /\ bsp = "monitor"
    /\ bsp' = IF \E c \in Cores : alive[c] THEN "monitor" ELSE "finished"
    /\ UNCHANGED <<firmware, fwTable, kernel, kmap, error, next, avail, kbuf, tables, arenas, coreArgs, alive, ap>>

Next ==
    \/ GetAvailableMemory
    \/ Prepare
    \/ Launch
    \/ \E c \in Cores : ApEnter(c)
    \/ Poll

Spec == Init /\ [][Next]_vars

(***************************************************************************)
(* try_main runs on the BSP alone, and UEFI boot services give it the core *)
(* until it returns or panics: once the BSP is in the `for core_id` loop   *)
(* or the monitor loop, an iteration that can be taken is taken.  Nothing  *)
(* is assumed of when an AP runs.                                          *)
(***************************************************************************)
FairSpec == Spec /\ WF_vars(Launch) /\ WF_vars(Poll)


-----------------------------------------------------------------------------
TypeOK ==
    /\ \A i \in DOMAIN firmware.descriptors : firmware.descriptors[i].type \in MemoryTypes
    /\ bsp \in {"start", "prepare", "launch", "monitor", "finished", "halted"}
    /\ next \in 1 .. NUM_CPUS
    /\ kbuf \subseteq Addr /\ \A i \in DOMAIN tables : tables[i] \in Addr
    /\ arenas \in [Cores -> SUBSET Addr]
    /\ ap \in [Cores -> {"idle", "launched", "panicked", "stray"}]
    /\ alive \in [Cores -> BOOLEAN]
    /\ Len(error.chain) \in 0 .. MAX_CHAIN_LEN

(***************************************************************************)
(* What each core is handed is its own: the arenas of two cores never      *)
(* share a page, and no arena covers the kernel buffer the APs execute     *)
(* from.  It rests on the order of try_main: the snapshot of line 107 is   *)
(* taken after the kernel buffer is allocated, and every loop iteration    *)
(* allocates from what the previous one left.                              *)
(***************************************************************************)
ArenasPrivate ==
    \A c \in Cores :
        /\ arenas[c] \cap kbuf = {}
        /\ \A d \in Cores \ {c} : arenas[c] \cap arenas[d] = {}

(***************************************************************************)
(* The pages UEFI 2.7 (7.2, Table 27) leaves to the loader before          *)
(* ExitBootServices: conventional memory, and persistent memory, which     *)
(* operates as conventional memory.                                        *)
(***************************************************************************)
FirmwareFreePages(fw) ==
    UNION {fw.descriptors[i].start .. fw.descriptors[i].start + fw.descriptors[i].pages - 1 :
             i \in {j \in DOMAIN fw.descriptors :
                      fw.descriptors[j].type \in {"ConventionalMemory", "PersistentMemory"}}}

(***************************************************************************)
(* Everything the bootloader hands out comes from memory the firmware      *)
(* reported free: available_memory, the kernel buffer, every page-table    *)
(* frame and every arena lie in the conventional and persistent regions of *)
(* the memory map.  It rests on get_memory_map's end address (start +      *)
(* pages * 4096 - 1, unchecked), its type filter and the merging of        *)
(* touching descriptors, and on every later allocate taking only what      *)
(* available_memory holds.                                                 *)
(***************************************************************************)
AllocatedFromFreeMemory ==
    LET free == FirmwareFreePages(firmware) IN
    /\ Covered(avail) \subseteq free
    /\ kbuf \cup Range(tables) \subseteq free
    /\ \A c \in Cores : arenas[c] \subseteq free

(***************************************************************************)
(* The page-table frames of both tables are distinct pages outside the     *)
(* kernel buffer: _map_raw writes entries into them while the kernel image *)
(* sits in the buffer.                                                     *)
(***************************************************************************)
TablesPrivate ==
    /\ IsInjective(tables)
    /\ Range(tables) \cap kbuf = {}

(***************************************************************************)
(* When try_main returns an Err, efi_main panics with the chain's {:?}:    *)
(* every message starts in one column, whatever the lengths of the files  *)
(* and lines of the links.  It rests on new_with_debug and extend_chain   *)
(* keeping max_padding the widest `file` plus line digits of the chain,   *)
(* and on the dedup of from_error.                                         *)
(***************************************************************************)
ErrorReportAligned ==
    \A i \in 1 .. Len(error.chain) : MessageColumn(error, i) = MessageColumn(error, 1)

(***************************************************************************)
(* spec.md 4.6 gives each AP a 1 GiB arena of its own, and the page tables *)
(* are frames taken from the same RangeSet.  No arena covers a page-table  *)
(* frame.                                                                  *)
(***************************************************************************)
ArenasAvoidTables ==
    \A c \in Cores : arenas[c] \cap Range(tables) = {}

(***************************************************************************)
(* spec.md 4.6 and the assertions at the top of kernel_main: every AP the  *)
(* BSP starts at kernel_main finds its core id and alive-flag pointer set  *)
(* in the CoreArg it is pointed at.                                        *)
(***************************************************************************)
NoApPanics ==
    \A c \in Cores : ap[c] /= "panicked"

(***************************************************************************)
(* spec.md 1 and 4.6: the BSP monitors progress until all cores retire.    *)
(* When the monitor loop ends, every AP that was started has at least      *)
(* begun kernel_main.                                                      *)
(***************************************************************************)
MonitorOutlivesCores ==
    bsp = "finished" => \A c \in Cores : ap[c] /= "launched"

(***************************************************************************)
(* The boot ends once the APs are being launched: try_main either stops   *)
(* with an error (efi_main's panic, or a panic inside it) or leaves the    *)
(* monitor loop and panics with "w00t! Finished!".  It needs the `for      *)
(* core_id` loop to end after NUM_CPUS - 1 iterations and the monitor      *)
(* loop to reset all_cores_finished before each pass over the alive flags, *)
(* whatever the APs do meanwhile.                                          *)
(***************************************************************************)
BootEnds == bsp \in {"launch", "monitor"} ~> bsp \in {"finished", "halted"}

=============================================================================
