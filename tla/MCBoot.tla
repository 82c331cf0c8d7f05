------------------------------- MODULE MCBoot -------------------------------
(***************************************************************************)
(* Boot for TLC.  Pages are numbered 0 to 31.  Everything the boot takes   *)
(* needs at most 2 + 1 + 3 + 3 + 3*4 = 21 pages.  The firmware memory maps *)
(* give: one free region large enough for everything; a conventional and a *)
(* persistent region that touch and merge, but run out during the arenas; *)
(* room for the kernel and one arena only, so core 2 finds none;          *)
(* fragmented memory; no room for the kernel buffer; four separate free    *)
(* regions, one more than the three RangeSet slots (Full); eight           *)
(* descriptors, more than output_map holds; a 40-byte descriptor_size;     *)
(* boot services of revision 2.80.  Every free region is followed by one   *)
(* the loader must not use.                                                *)
(***************************************************************************)
EXTENDS Boot

D(t, s, n) == Descriptor(t, s, n)

\* Boot services revision 2.70 and 2.80: (2 << 16) | 70, (2 << 16) | 80
Rev270 == 131142
Rev280 == 131152

Fw(descs) == [revision |-> Rev270, descriptorSize |-> DescriptorSize, descriptors |-> descs]

Roomy ==
    <<D("LoaderCode", 0, 1), D("ConventionalMemory", 1, 22), D("BootServicesData", 23, 4)>>

MCFirmwareMaps ==
    { Fw(Roomy),
      Fw(<<D("ConventionalMemory", 1, 8), D("PersistentMemory", 9, 4),
           D("AcpiReclaimMemory", 13, 2)>>),
      Fw(<<D("ConventionalMemory", 1, 5), D("ReservedMemory", 6, 2),
           D("ConventionalMemory", 8, 7), D("MemoryMappedIo", 15, 2),
           D("ConventionalMemory", 17, 4), D("RuntimeServicesData", 21, 1)>>),
      Fw(<<D("ConventionalMemory", 1, 8), D("ReservedMemory", 9, 2)>>),
      Fw(<<D("ConventionalMemory", 1, 1), D("RuntimeServicesCode", 2, 1),
           D("ConventionalMemory", 3, 1), D("AcpiMemoryNvs", 4, 1)>>),
      Fw(<<D("ConventionalMemory", 1, 2), D("ReservedMemory", 3, 1),
           D("ConventionalMemory", 4, 2), D("ReservedMemory", 6, 1),
           D("ConventionalMemory", 7, 2), D("UnusableMemory", 9, 1),
           D("ConventionalMemory", 10, 2)>>),
      Fw(<<D("ConventionalMemory", 1, 2), D("ReservedMemory", 3, 1),
           D("ConventionalMemory", 4, 2), D("ReservedMemory", 6, 1),
           D("ConventionalMemory", 7, 2), D("UnusableMemory", 9, 1),
           D("ConventionalMemory", 10, 2), D("PalCode", 12, 1)>>),
      [Fw(Roomy) EXCEPT !.descriptorSize = 40],
      [Fw(Roomy) EXCEPT !.revision = Rev280] }

(***************************************************************************)
(* Kernel files, for a 2-page (8 KiB) buffer: the headers in the first KiB *)
(* (e_lfanew 0x80, the PE32+ optional header of 240 bytes), image_base at  *)
(* 2 MiB, sections page aligned from 0x1000.  Ok: .text (read, execute),  *)
(* .rdata, .data.  Ok2: a .text of two pages whose entry point is in the  *)
(* second.  Rwx: .text also writable, so no section is mapped.  Seven:     *)
(* seven section headers.  NotPe: no MZ.  Big: larger than the buffer.    *)
(* Cut: .data's raw bytes run past the buffer.  All of these store .text  *)
(* at file offset 1024 for virtual address 4096, so the page the loader    *)
(* maps for it holds other bytes of the file.  Flat: a file laid out as    *)
(* its image, .text at offset 4096, so kernel_main is where the AP jumps.  *)
(***************************************************************************)
Sec(va, ptr, size, ch) ==
    [virt_addr |-> va, raw_data_ptr |-> ptr, raw_data_size |-> size, characteristics |-> ch]

Text  == Sec(4096, 1024, 2048, {"Code", "MemRead"})
RData == Sec(8192, 3072, 512, {"MemRead"})
Data  == Sec(12288, 3584, 512, {"MemRead", "MemWrite"})

Kernel(bytes, secs, entry) ==
    [bytes |-> bytes, mz |-> TRUE, e_lfanew |-> 128, pe |-> TRUE,
     number_of_sections |-> Len(secs), opt_header_size |-> 240,
     entry_point_rva |-> entry, image_base |-> 2097152, sections |-> secs]

Ok == Kernel(4096, <<Text, RData, Data>>, 4112)

Flat == Kernel(8192, <<Sec(4096, 4096, 2048, {"Code", "MemRead"})>>, 4112)

\* The kernels whose entry page holds kernel_main once mapped
MCFlatKernels == {Flat}

MCKernels ==
    { Ok, Flat,
      Kernel(6144, <<Sec(4096, 1024, 4096, {"Code", "MemRead"}), RData>>, 8208),
      Kernel(4096, <<Sec(4096, 1024, 2048, {"Code", "MemRead", "MemWrite"}), RData>>, 4112),
      Kernel(4096, <<Text, RData, Data, Data, Data, Data, Data>>, 4112),
      [Ok EXCEPT !.mz = FALSE],
      [Ok EXCEPT !.bytes = 12288],
      Kernel(4096, <<Text, RData, Sec(12288, 7680, 1024, {"MemRead", "MemWrite"})>>, 4112) }

\* Lengths of the paths file!() and Location::file() give in the chains
MCFileLen ==
    [f \in {MainRs, BootRs, ModRs, TftpRs, MpRs, RangeSetRs, PeRs, X86Rs} |->
        CASE f = MainRs -> 11 [] f = BootRs -> 16 [] f = ModRs -> 15 [] f = TftpRs -> 16
          [] f = MpRs -> 26 [] f = RangeSetRs -> 29 [] f = PeRs -> 23 [] OTHER -> 31]

=============================================================================
