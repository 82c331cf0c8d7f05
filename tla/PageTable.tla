------------------------------ MODULE PageTable ------------------------------
(***************************************************************************)
(* The x86-64 page table of src/shared/page_table/src/x86.rs: _translate,  *)
(* _map_raw and _update_perms over the physical frames that hold tables.   *)
(* `mem[f][i]` is entry i of the table in frame f, with its flags decoded  *)
(* (EntryFlags::from) and its address a frame or a leaf page.  `free` is   *)
(* the PhysMem the mapper allocates tables from; alloc_page_zeroed hands   *)
(* out the lowest free frame (which one does not matter: frames are alike) *)
(* and panics (alloc_phys's expect) when none is left.  Table indexes are  *)
(* drawn from the small set Idx instead of 0..511.                         *)
(***************************************************************************)
EXTENDS Integers, Sequences
LOCAL INSTANCE FiniteSetsExt

CONSTANTS
    Frames,     \* physical frames PhysMem can hand out for tables
    Root,       \* the frame of the top-level table (cr3)
    Idx,        \* table indexes in use
    OneIndex,   \* levels at which every address uses the lowest index
    Leaves,     \* page-aligned physical addresses callers map
    Sizes,      \* page sizes callers map: map_raw_4k, map_raw_2m
    Writable,   \* writable flags of the entries callers build
    Executable  \* executable flags of the entries callers build

ASSUME /\ Frames \subseteq Nat \ {0} /\ Root \in Frames
       /\ Leaves \subseteq Nat \ {0} /\ Leaves \cap Frames = {}
       /\ Sizes \subseteq {"4K", "2M"}

NoAddr == 0
Levels == 0 .. 3
\* A virtual address as VirtAddr::table_indexes gives it: its four 9-bit
\* indexes, level 0 (bits 39-47) first, drawn from Idx
VA     == {v \in [Levels -> Idx] : \A l \in OneIndex : v[l] = Min(Idx)}

(***************************************************************************)
(* An Entry is its u64 as the set of flag bits that are set, with the      *)
(* address bits 12-51 kept as a number (`addr`).                           *)
(***************************************************************************)
\* Entry::new
ZeroEntry == [bits |-> {}, addr |-> NoAddr]

\* EntryFlags::from, the flags _translate reads
Flags(e) == [present |-> 0 \in e.bits, writable |-> 1 \in e.bits,
             page_size |-> 7 \in e.bits, execute_disable |-> 63 \in e.bits]

\* EntryBuilder::default()
DefaultBuilder ==
    [present |-> FALSE, writable |-> FALSE, user_permitted |-> FALSE,
     write_through |-> FALSE, cache_disable |-> FALSE, accessed |-> FALSE,
     dirty |-> FALSE, page_size |-> "none", global |-> FALSE,
     execute_disable |-> FALSE, protection_key |-> 0, address |-> NoAddr]

\* The bit each boolean field of EntryBuilder is shifted to
FlagBit == [present |-> 0, writable |-> 1, user_permitted |-> 2, write_through |-> 3,
            cache_disable |-> 4, accessed |-> 5, dirty |-> 6, global |-> 8,
            execute_disable |-> 63]

(***************************************************************************)
(* EntryBuilder::finish: the boolean fields at their bits, bit 7 unless    *)
(* the page is 4K, and the u8 protection key shifted to bit 59, whose bits *)
(* past 63 fall off the u64.  Every caller sets page_size, so its expect   *)
(* never panics.                                                           *)
(***************************************************************************)
Finish(b) ==
    [addr |-> b.address,
     bits |-> {FlagBit[f] : f \in {g \in DOMAIN FlagBit : b[g]}}
              \cup (IF b.page_size /= "4K" THEN {7} ELSE {})
              \cup {59 + j : j \in {j \in 0 .. 4 : (b.protection_key \div 2^j) % 2 = 1}}]

(***************************************************************************)
(* A chain of EntryBuilder setters on EntryBuilder::default(): each setter *)
(* stores its argument in its field and returns the builder.  `address`    *)
(* asserts the address is page aligned, which every frame and leaf is.     *)
(* `settings` is a record of the fields set.                               *)
(***************************************************************************)
Build(settings) ==
    [f \in DOMAIN DefaultBuilder |->
        IF f \in DOMAIN settings THEN settings[f] ELSE DefaultBuilder[f]]

\* The entry callers build for a page: present, user permitted, the given
\* writable and executable, at the given page size
LeafEntry(addr, size, w, x) ==
    Finish(Build([address |-> addr, page_size |-> size, present |-> TRUE,
                  user_permitted |-> TRUE, writable |-> w, execute_disable |-> ~x]))

\* The entry _map_raw builds for a new intermediate table
TableEntry(f) ==
    Finish(Build([address |-> f, present |-> TRUE, user_permitted |-> TRUE,
                  writable |-> TRUE, execute_disable |-> FALSE, page_size |-> "4K"]))

\* entry_address(index) of the table at frame f; None is an empty entries[] slot
Slot(f, i) == [frame |-> f, idx |-> i]
None       == Slot(NoAddr, 0)

VARIABLES mem, free, call, ret

vars == <<mem, free, call, ret>>

Call(op, v, w, x) == [op |-> op, v |-> v, w |-> w, x |-> x]

(***************************************************************************)
(* Translated: the fields of the result of _translate.  `base` and `sub`  *)
(* stand for phys_addr = entry.address + (virt & mask), `sub` being the    *)
(* levels of the address the mask keeps.                                   *)
(***************************************************************************)
NotPresent(entries) ==
    [mapped |-> FALSE, base |-> NoAddr, sub |-> <<>>, size |-> "none",
     w |-> FALSE, x |-> FALSE, entries |-> entries]

\* A translation that drops the offset into a large page (mutation of Offset)
OffsetDropped(v, size) == <<>>

\* The mask of _translate: 2M keeps level 3, level 1 keeps 512G - 1 (levels 1 to 3)
Offset(v, size) ==
    CASE size = "4K"   -> <<>>
      [] size = "2M"   -> <<v[3]>>
      [] size = "512G" -> <<v[1], v[2], v[3]>>

(***************************************************************************)
(* The loop of _translate from `level` on, `tbl` the table it reads.  The  *)
(* permissions are overwritten at every present level, so the last one     *)
(* wins.  A page-size bit at level 0 or 3 panics in the code; no entry the *)
(* mapper writes has one there, and TLC would stop on the unmatched CASE.  *)
(***************************************************************************)
RECURSIVE Walk(_, _, _, _, _)
Walk(m, v, level, tbl, tr) ==
    IF level = 4
    THEN [tr EXCEPT !.mapped = TRUE, !.base = tbl, !.size = "4K"]
    ELSE LET e  == m[tbl][v[level]]
             fl == Flags(e)
             t  == [tr EXCEPT !.entries[level] = Slot(tbl, v[level]),
                              !.w = fl.writable, !.x = ~fl.execute_disable]
         IN  CASE ~fl.present            -> NotPresent(t.entries)
               [] fl.page_size /\ level = 1 -> [t EXCEPT !.mapped = TRUE, !.base = e.addr,
                                                 !.size = "512G", !.sub = Offset(v, "512G")]
               [] fl.page_size /\ level = 2 -> [t EXCEPT !.mapped = TRUE, !.base = e.addr,
                                                 !.size = "2M", !.sub = Offset(v, "2M")]
               [] ~fl.page_size             -> Walk(m, v, level + 1, e.addr, t)

Translate(m, v) == Walk(m, v, 0, Root, NotPresent([l \in Levels |-> None]))

\* What a translation says about v, without the entries it passed
View(tr) == [mapped |-> tr.mapped, base |-> tr.base, sub |-> tr.sub, size |-> tr.size,
            w |-> tr.w, x |-> tr.x]

(***************************************************************************)
(* The loop `for curr_depth in 1..max_depth` of _map_raw.  A missing level *)
(* gets a zeroed frame (alloc_page_zeroed, whose `?` never sees an error:  *)
(* alloc_phys panics instead) and an entry to it written at the previous   *)
(* level.  A panic keeps the tables already written.                       *)
(***************************************************************************)
\* The loop with an allocator that never marks the frame it hands out as
\* used (mutation of Descend)
RECURSIVE DescendKeepsFree(_, _, _, _)
DescendKeepsFree(st, v, d, maxDepth) ==
    CASE d >= maxDepth           -> st
      [] st.entries[d] /= None   -> DescendKeepsFree(st, v, d + 1, maxDepth)
      [] st.free = {}            -> [st EXCEPT !.panic = TRUE]
      [] OTHER ->
           LET f    == Min(st.free)
               prev == st.entries[d - 1]
           IN  DescendKeepsFree([st EXCEPT
                          !.mem = [@ EXCEPT ![f] = [i \in Idx |-> ZeroEntry],
                                            ![prev.frame][prev.idx] = TableEntry(f)],
                          !.entries[d] = Slot(f, v[d])],
                       v, d + 1, maxDepth)

RECURSIVE Descend(_, _, _, _)
Descend(st, v, d, maxDepth) ==
    CASE d >= maxDepth           -> st
      [] st.entries[d] /= None   -> Descend(st, v, d + 1, maxDepth)
      [] st.free = {}            -> [st EXCEPT !.panic = TRUE]
      [] OTHER ->
           LET f    == Min(st.free)
               prev == st.entries[d - 1]
           IN  Descend([st EXCEPT
                          !.mem = [@ EXCEPT ![f] = [i \in Idx |-> ZeroEntry],
                                            ![prev.frame][prev.idx] = TableEntry(f)],
                          !.free = @ \ {f},
                          !.entries[d] = Slot(f, v[d])],
                       v, d + 1, maxDepth)

MaxDepth(size) == IF size = "2M" THEN 3 ELSE 4

Init ==
    /\ mem = [f \in Frames |-> [i \in Idx |-> ZeroEntry]]
    /\ free = Frames \ {Root}
    /\ call = Call("none", [l \in Levels |-> Min(Idx)], FALSE, FALSE)
    /\ ret = "Ok"

Running == ret /= "Panic"

(***************************************************************************)
(* _map_raw.  Its first check, entry.address().is_page_aligned(), always   *)
(* holds: Entry::address masks the low twelve bits away.  The leaf goes in *)
(* at entries[max_depth - 1], whatever that slot held.                     *)
(***************************************************************************)
Map(v, size, leaf, w, x) ==
    /\ Running
    /\ call' = Call("map", v, w, x)
    /\ LET tr   == Translate(mem, v)
           st   == Descend([mem |-> mem, free |-> free, entries |-> tr.entries,
                            panic |-> FALSE], v, 1, MaxDepth(size))
           last == st.entries[MaxDepth(size) - 1]
       IN  \/ tr.mapped /\ ret' = "VirtAddrAlreadyMapped" /\ UNCHANGED <<mem, free>>
           \/ ~tr.mapped /\ st.panic
              /\ mem' = st.mem /\ free' = st.free /\ ret' = "Panic"
           \/ ~tr.mapped /\ ~st.panic
              /\ mem' = [st.mem EXCEPT ![last.frame][last.idx] = LeafEntry(leaf, size, w, x)]
              /\ free' = st.free /\ ret' = "Ok"

(***************************************************************************)
(* _update_perms: it translates, then for each entries[] slot reads the    *)
(* entry into the local `curr_entry` and sets bits of that copy, which is  *)
(* never written back.  No state changes.                                  *)
(***************************************************************************)
UpdatePerms(v, w, x) ==
    /\ Running
    /\ call' = Call("update_perms", v, w, x)
    /\ ret' = "Ok"
    /\ UNCHANGED <<mem, free>>

\* CanMap::map_raw_4k and map_raw_2m: _map_raw with the page size fixed
MapRaw4k(v, leaf, w, x) == "4K" \in Sizes /\ Map(v, "4K", leaf, w, x)
MapRaw2m(v, leaf, w, x) == "2M" \in Sizes /\ Map(v, "2M", leaf, w, x)

MapNext ==
    \E v \in VA, leaf \in Leaves, w \in Writable, x \in Executable :
        MapRaw4k(v, leaf, w, x) \/ MapRaw2m(v, leaf, w, x)

Next ==
    \/ MapNext
    \/ \E v \in VA, w \in Writable, x \in Executable : UpdatePerms(v, w, x)

Spec    == Init /\ [][Next]_vars
MapSpec == Init /\ [][MapNext]_vars


-----------------------------------------------------------------------------
\* The slots of table f that point to a further table (present, no page
\* size); a leaf page has none
ChildSlots(f) ==
    IF f \in Frames
    THEN {i \in Idx : LET fl == Flags(mem[f][i]) IN fl.present /\ ~fl.page_size}
    ELSE {}

\* The tables reachable from the root at each level
RECURSIVE TablesAt(_)
TablesAt(l) ==
    IF l = 0 THEN {Root}
    ELSE UNION {{mem[f][i].addr : i \in ChildSlots(f)} : f \in TablesAt(l - 1)}

\* The entries of levels 0 to 2 that point to a table
Pointers ==
    UNION {UNION {{<<l, f, i>> : i \in ChildSlots(f)} : f \in TablesAt(l)} : l \in 0 .. 2}

Target(p) == mem[p[2]][p[3]].addr

(***************************************************************************)
(* spec.md 3 and 9: the tables form a strict tree of frames handed out by  *)
(* PhysMem.  Every entry of levels 0 to 2 that points to a table points to *)
(* a frame allocated by _map_raw's loop (not free, not the root), no two   *)
(* such entries point to the same frame, and no frame serves two levels.  *)
(* A frame handed out twice, or an entry written at the wrong level, would *)
(* make two virtual ranges share a table.                                  *)
(***************************************************************************)
StrictTree ==
    LET ptrs   == Pointers
        tables == [l \in Levels |-> TablesAt(l)]
    IN  /\ \A p \in ptrs : Target(p) \in Frames \ (free \cup {Root})
        /\ \A p, q \in ptrs : p /= q => Target(p) /= Target(q)
        /\ \A l, k \in Levels : l /= k => tables[l] \cap tables[k] = {}

(***************************************************************************)
(* The page table implements VirtualMemory: what every virtual address     *)
(* translates to changes as map and update_perms promise (spec.md 4.3).    *)
(* Under MapSpec, the calls the bootloader makes, this covers the re-use   *)
(* of existing levels, the building of missing ones, the offset kept by    *)
(* the mask of each page size and the panic halfway through the loop.     *)
(***************************************************************************)
Abstract == INSTANCE VirtualMemory WITH
    vmap <- [v \in VA |-> View(Translate(mem, v))],
    call <- call,
    result <- ret

RefinesVirtualMemory == Abstract!Spec

(***************************************************************************)
(* spec.md 4.3 refuses to map a virtual address that already translates.   *)
(* A map that succeeds changes the translation of no address that was      *)
(* already mapped.                                                         *)
(***************************************************************************)
MapKeepsMappings ==
    [][ret' = "Ok" =>
         \A v \in VA : LET before == View(Translate(mem, v)) IN
                          before.mapped => View(Translate(mem', v)) = before]_vars

=============================================================================
