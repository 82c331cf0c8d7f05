--------------------------------- MODULE Pe ---------------------------------
(***************************************************************************)
(* pe::parse (src/shared/pe/src/lib.rs): the no-copy parser that takes the *)
(* kernel's sections out of the 2 MiB download buffer.                     *)
(*                                                                         *)
(* A file is the record of the fields parse reads, at the offsets a well- *)
(* formed image has them: whether the buffer starts with MZ, e_lfanew (the *)
(* u32 at 0x3c), whether "PE" is at that offset, the PeHeader fields       *)
(* number_of_sections, opt_header_size, entry_point_rva and image_base,    *)
(* and the section headers in order.  A section's characteristics are the  *)
(* set of the three flags parse tests (Code 0x20, MemRead 0x40000000,      *)
(* MemWrite 0x80000000).  Offsets are in bytes, `len` the buffer's length. *)
(* Every slice index outside the buffer is a panic.                        *)
(***************************************************************************)
EXTENDS Integers, Sequences

\* size_of::<PeHeader>() (repr(C): 48 bytes of fields, image_base aligned to 8)
PeHeaderBytes == 56

\* size_of::<Section>()
SectionBytes == 40

NUM_SECTIONS == 6

\* Section::permissions, from is_executable, is_readable, is_writable
Permissions(sec) ==
    [executable |-> "Code" \in sec.characteristics,
     readable   |-> "MemRead" \in sec.characteristics,
     writable   |-> "MemWrite" \in sec.characteristics]

\* (header.opt_header_size + 0x18) as usize: u16 arithmetic, wrapping
SectionStartOffset(f) == (f.opt_header_size + 24) % 2^16

(***************************************************************************)
(* The slices one iteration of the section loop takes: the header          *)
(* pe_header[sso..][start..end] and the data data[ptr..ptr + size].  The   *)
(* u32 sum ptr + size wraps only above 2^32, far past the buffer, and then *)
(* lands below ptr: either way the slice panics exactly when the true sum  *)
(* exceeds len.                                                            *)
(***************************************************************************)
SectionInBounds(f, len, i) ==
    LET sec == f.sections[i] IN
    /\ f.e_lfanew + SectionStartOffset(f) + SectionBytes * i <= len
    /\ sec.raw_data_ptr + sec.raw_data_size <= len

\* The (data, virt_addr, permissions) triple stored for one section; data
\* is the slice data[ptr .. ptr + size]
ParsedSection(sec) ==
    [data |-> sec.raw_data_ptr, size |-> sec.raw_data_size,
     virt_addr |-> sec.virt_addr, perms |-> Permissions(sec)]

\* A parse that returns an error or panics
ParseFailed(e) == [err |-> e]

(***************************************************************************)
(* parse: ensure MZ; slice at e_lfanew (a panic past the buffer); ensure   *)
(* "PE" (only two bytes are compared); cast the PeHeader (a panic when it  *)
(* runs past the buffer); ensure number_of_sections <= 6; then for every   *)
(* section slice its header and its data and record (data, virt_addr,      *)
(* permissions).  entry_point is entry_point_rva + image_base.             *)
(***************************************************************************)
Parse(f, len) ==
    LET n == f.number_of_sections IN
    CASE ~f.mz                                   -> ParseFailed("InvalidMZHeader")
      [] f.e_lfanew + 2 > len                    -> ParseFailed("Panic")
      [] ~f.pe                                   -> ParseFailed("InvalidPEHEader")
      [] f.e_lfanew + PeHeaderBytes > len        -> ParseFailed("Panic")
      [] n > NUM_SECTIONS                        -> ParseFailed("TooManySections")
      [] \E i \in 1 .. n : ~SectionInBounds(f, len, i) -> ParseFailed("Panic")
      [] OTHER ->
           [err         |-> "Ok",
            sections    |-> [i \in 1 .. n |-> ParsedSection(f.sections[i])],
            image_base  |-> f.image_base,
            entry_point |-> f.entry_point_rva + f.image_base]

=============================================================================
