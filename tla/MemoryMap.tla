----------------------------- MODULE MemoryMap -----------------------------
(***************************************************************************)
(* uefi::memory_map and BootServices::get_memory_map                       *)
(* (src/bootloader/src/uefi/{mod,boot}.rs): the firmware's memory map      *)
(* turned into the RangeSet of free memory the boot sequence allocates     *)
(* from.  Addresses are counted in 4 KiB pages, as in Boot: a descriptor's *)
(* physical_start is page aligned, so its page range is start .. start +   *)
(* number_of_pages - 1, computed modulo 2^W as the unchecked u64           *)
(* arithmetic of the release build does.                                   *)
(*                                                                         *)
(* What the firmware hands over is a record: the revision of its boot      *)
(* services table, the descriptor_size it reports, and its descriptors in  *)
(* order.  Firmware never reports the Unknown type (the value 15 is        *)
(* reserved in UEFI 2.7), so the map ends where the descriptors end: the   *)
(* rest of output_map holds MemoryDescriptor::default(), whose type is     *)
(* Unknown, and the loop breaks there.                                     *)
(***************************************************************************)
EXTENDS RangeAlgebra

CONSTANT MapCapacity    \* MemoryDescriptors output_map holds (512 in the code)

ASSUME MapCapacity \in Nat \ {0}

\* size_of::<MemoryDescriptor>(): type_ (4 bytes and 4 of padding),
\* physical_start, virtual_start, number_of_pages, attribute, reserved
DescriptorSize == 48

\* The variants of MemoryType before Unknown
MemoryTypes ==
    {"ReservedMemory", "LoaderCode", "LoaderData", "BootServicesCode",
     "BootServicesData", "RuntimeServicesCode", "RuntimeServicesData",
     "ConventionalMemory", "UnusableMemory", "AcpiReclaimMemory", "AcpiMemoryNvs",
     "MemoryMappedIo", "MemoryMappedIoPortSpace", "PalCode", "PersistentMemory"}

\* MemoryType::is_available
IsAvailable(t) == t \in {"ConventionalMemory", "PersistentMemory"}

\* A MemoryDescriptor as read by the loop; virtual_start and attribute are
\* never read
Descriptor(t, s, n) == [type |-> t, start |-> s, pages |-> n]

\* BootServices::revision: (header.revision >> 16) as u8 and as u16
Revision(rev) == <<(rev \div 2^16) % 2^8, rev % 2^16>>

\* The end computed without the - 1 (mutation of DescriptorEnd)
DescriptorEndPastLast(d) == (d.start + d.pages) % (U64Max + 1)

\* physical_start + (number_of_pages * 4096) - 1, unchecked
DescriptorEnd(d) == (d.start + d.pages - 1) % (U64Max + 1)

(***************************************************************************)
(* The `for mem in output_map.iter()` loop from entry i on: an available   *)
(* descriptor becomes an InclusiveRange inserted with `?`, so the first    *)
(* insert error (InvalidRange, Full) is what get_memory_map returns.       *)
(***************************************************************************)
RECURSIVE CollectAvailable(_, _, _), Collected(_, _, _)
CollectAvailable(s, descs, i) ==
    IF i > Len(descs) THEN Outcome(s, "Ok")
    ELSE IF ~IsAvailable(descs[i].type) THEN CollectAvailable(s, descs, i + 1)
    ELSE Collected(InsertOp(s, InclusiveRange(descs[i].start, DescriptorEnd(descs[i]))), descs, i)

\* The loop after the insert of descriptor i returned r
Collected(r, descs, i) ==
    IF r.err /= "Ok" THEN r ELSE CollectAvailable(r.ranges, descs, i + 1)

(***************************************************************************)
(* get_memory_map: the firmware call fails with BUFFER_TOO_SMALL when its  *)
(* map does not fit in the bytes of output_map; the descriptor_size it     *)
(* reports must equal the struct's; then the loop, from an empty RangeSet. *)
(***************************************************************************)
GetMemoryMap(fw) ==
    CASE Len(fw.descriptors) * fw.descriptorSize > MapCapacity * DescriptorSize
             -> Outcome(<<>>, "GetMemoryMapFailed")
      [] fw.descriptorSize /= DescriptorSize
             -> Outcome(<<>>, "MemoryDescriptorSizeMismatch")
      [] OTHER -> CollectAvailable(<<>>, fw.descriptors, 1)

\* uefi::memory_map: it panics unless the boot services are revision 2.70
UefiMemoryMap(fw) ==
    IF Revision(fw.revision) /= <<2, 70>> THEN Outcome(<<>>, "Panic")
    ELSE GetMemoryMap(fw)

=============================================================================
