---------------------------- MODULE RangeAlgebra ----------------------------
(***************************************************************************)
(* The range algebra of src/shared/rangeset/src/lib.rs as pure operators.  *)
(* A RangeSet value is the live prefix all_ranges[..length] as a sequence  *)
(* of records [start, end]; the slots past `length` are never read by the  *)
(* code and are left out.  Each operator returns the new sequence together *)
(* with what the Rust function returns, so that a module with state (the   *)
(* RangeSet component, the boot sequence) takes one step per call.         *)
(*                                                                         *)
(* Addresses are unsigned W-bit integers standing for u64.  The bootloader *)
(* is built with `cargo build --release`, so a plain `+ 1` wraps modulo    *)
(* 2^W, the add! macro fails with AddOverflow, and saturating_add/sub clamp.*)
(***************************************************************************)
EXTENDS Integers, Sequences
LOCAL INSTANCE SequencesExt
LOCAL INSTANCE FiniteSetsExt

CONSTANTS
    W,                  \* address width in bits (64 in the code)
    MAX_MEMORY_RANGES   \* slots of a RangeSet (130 in the code)

ASSUME W \in Nat \ {0} /\ MAX_MEMORY_RANGES \in Nat \ {0}

U64Max == 2^W - 1
Addr   == 0 .. U64Max

InclusiveRange(s, e) == [start |-> s, end |-> e]

IsValid(r) == r.start <= r.end

WrappingInc(x)   == (x + 1) % (U64Max + 1)
SaturatingInc(x) == IF x = U64Max THEN x ELSE x + 1
SaturatingDec(x) == IF x = 0 THEN 0 ELSE x - 1

\* An overlap test without the + 1 (mutation of Overlaps): touching ranges
\* are not merged
OverlapsStrictly(a, b) == a.start <= b.end /\ b.start <= a.end

\* InclusiveRange::overlaps: also true when the ranges only touch
Overlaps(a, b) ==
    /\ a.start <= WrappingInc(b.end)
    /\ b.start <= WrappingInc(a.end)

\* InclusiveRange::contains: `a` encloses `b`
Encloses(a, b) == a.start <= b.start /\ a.end >= b.end

\* RangeSet::delete: swap slot i with the last live slot, drop the last
DeleteAt(s, i) == [j \in 1 .. Len(s) - 1 |-> IF j = i THEN s[Len(s)] ELSE s[j]]

(***************************************************************************)
(* RangeSet::insert after its two guards: the 'merging loop.  The first    *)
(* live range that overlaps or touches r is swallowed into r and deleted, *)
(* and the scan restarts; when a pass finds none, r goes in the next slot. *)
(***************************************************************************)
RECURSIVE Merge(_, _)
Merge(s, r) ==
    LET i == SelectInSeq(s, LAMBDA c : Overlaps(c, r))
    IN  IF i = 0
        THEN Append(s, r)
        ELSE Merge(DeleteAt(s, i),
                   InclusiveRange(Min({r.start, s[i].start}), Max({r.end, s[i].end})))

(***************************************************************************)
(* RangeSet::remove after its guard: the 'removing loop from slot i on.    *)
(* A deleted or split slot restarts the scan at slot 1; a clipped slot     *)
(* goes on with the next one.  A split with no free slot returns Full with *)
(* whatever the earlier iterations already changed (remove takes &mut self).*)
(***************************************************************************)
\* A split that keeps the upper half in the slot and appends the lower one
\* (mutation of RemoveScan)
RECURSIVE RemoveScanSplitSwapped(_, _, _)
RemoveScanSplitSwapped(s, r, i) ==
    IF i > Len(s) THEN [ranges |-> s, ok |-> TRUE]
    ELSE LET c == s[i] IN
         CASE ~Overlaps(r, c) ->
                  RemoveScanSplitSwapped(s, r, i + 1)
           [] Encloses(r, c) ->
                  RemoveScanSplitSwapped(DeleteAt(s, i), r, 1)
           [] r.start <= c.start ->
                  RemoveScanSplitSwapped([s EXCEPT ![i].start = SaturatingInc(r.end)], r, i + 1)
           [] r.end >= c.end ->
                  RemoveScanSplitSwapped([s EXCEPT ![i].end = SaturatingDec(r.start)], r, i + 1)
           [] Len(s) >= MAX_MEMORY_RANGES ->
                  [ranges |-> s, ok |-> FALSE]
           [] OTHER ->
                  RemoveScanSplitSwapped(Append([s EXCEPT ![i].start = SaturatingInc(r.end)],
                                                InclusiveRange(c.start, SaturatingDec(r.start))), r, 1)

RECURSIVE RemoveScan(_, _, _)
RemoveScan(s, r, i) ==
    IF i > Len(s) THEN [ranges |-> s, ok |-> TRUE]
    ELSE LET c == s[i] IN
         CASE ~Overlaps(r, c) ->
                  RemoveScan(s, r, i + 1)
           [] Encloses(r, c) ->
                  RemoveScan(DeleteAt(s, i), r, 1)
           [] r.start <= c.start ->
                  RemoveScan([s EXCEPT ![i].start = SaturatingInc(r.end)], r, i + 1)
           [] r.end >= c.end ->
                  RemoveScan([s EXCEPT ![i].end = SaturatingDec(r.start)], r, i + 1)
           [] Len(s) >= MAX_MEMORY_RANGES ->
                  [ranges |-> s, ok |-> FALSE]
           [] OTHER ->
                  RemoveScan(Append([s EXCEPT ![i].end = SaturatingDec(r.start)],
                                    InclusiveRange(SaturatingInc(r.end), c.end)), r, 1)

(***************************************************************************)
(* The scan of RangeSet::allocate over the live slots.  `align` is a power *)
(* of two here, so `start & (align - 1)` is `start % align`.  The add! of  *)
(* the padding and of size - 1 returns AddOverflow from allocate at once.  *)
(* A fitting slot with zero padding, found while nothing better is known,  *)
(* ends the scan; otherwise the strictly smallest padding wins, so the     *)
(* earliest of equal paddings is kept.                                     *)
(***************************************************************************)
NoAllocation == [kind |-> "none", pad |-> 0, addr |-> 0, end |-> 0]

RECURSIVE AllocScan(_, _, _, _, _)
AllocScan(s, size, align, i, best) ==
    IF i > Len(s) THEN best
    ELSE LET c       == s[i]
             padding == (align - (c.start % align)) % align
             aligned == c.start + padding
             end     == aligned + (size - 1)
             better  == best.kind = "none" \/ best.pad > padding
         IN  CASE aligned > U64Max \/ end > U64Max ->
                      [NoAllocation EXCEPT !.kind = "overflow"]
               [] end > c.end ->
                      AllocScan(s, size, align, i + 1, best)
               [] better /\ padding = 0 ->
                      [kind |-> "early", pad |-> 0, addr |-> aligned, end |-> end]
               [] better ->
                      AllocScan(s, size, align, i + 1,
                                [kind |-> "best", pad |-> padding, addr |-> aligned, end |-> end])
               [] OTHER ->
                      AllocScan(s, size, align, i + 1, best)

IsPowerOfTwo(n) == \E k \in 0 .. W - 1 : n = 2^k

(***************************************************************************)
(* The three operations as [ranges, err, addr]: err is "Ok" or the error   *)
(* the call returns, "Panic" for a panic that halts the core; addr is the  *)
(* address allocate returns.                                               *)
(***************************************************************************)
Outcome(s, e) == [ranges |-> s, err |-> e, addr |-> 0]

\* insert without its Full guard (mutation of InsertOp)
InsertOpUnguarded(s, r) ==
    IF ~IsValid(r) THEN Outcome(s, "InvalidRange") ELSE Outcome(Merge(s, r), "Ok")

InsertOp(s, r) ==
    CASE ~IsValid(r)                  -> Outcome(s, "InvalidRange")
      [] Len(s) >= MAX_MEMORY_RANGES  -> Outcome(s, "Full")
      [] OTHER                        -> Outcome(Merge(s, r), "Ok")

\* What remove returns after the removing loop
Removed(res) == Outcome(res.ranges, IF res.ok THEN "Ok" ELSE "Full")

RemoveOp(s, r) ==
    IF ~IsValid(r) THEN Outcome(s, "InvalidRange") ELSE Removed(RemoveScan(s, r, 1))

\* After a successful scan allocate calls remove(aligned..end)? and returns
\* the aligned start; with nothing found it reaches unreachable!().
\* allocate once the scan has picked `pick`
Allocated(s, size, align, pick) ==
    CASE size = 0               -> Outcome(s, "ZeroSizedAllocation")
      [] ~IsPowerOfTwo(align)   -> Outcome(s, "UnalignedAllocation")
      [] pick.kind = "overflow" -> Outcome(s, "AddOverflow")
      [] pick.kind = "none"     -> Outcome(s, "Panic")
      [] OTHER ->
           LET rm == RemoveOp(s, InclusiveRange(pick.addr, pick.end))
           IN  IF rm.err /= "Ok" THEN rm ELSE [rm EXCEPT !.addr = pick.addr]

AllocateOp(s, size, align) == Allocated(s, size, align, AllocScan(s, size, align, 1, NoAllocation))

(***************************************************************************)
(* size(): each live range must be valid; its length end - start + 1 is   *)
(* add!-checked, the running total `acc +=` is not, so it wraps modulo    *)
(* 2^W.  The total comes back in addr.                                     *)
(***************************************************************************)
\* The scan without the + 1 of each length (mutation of SizeScan)
RECURSIVE SizeScanNoInc(_, _, _)
SizeScanNoInc(s, i, acc) ==
    IF i > Len(s) THEN [ranges |-> s, err |-> "Ok", addr |-> acc]
    ELSE IF ~IsValid(s[i]) THEN Outcome(s, "InvalidRange")
    ELSE SizeScanNoInc(s, i + 1, (acc + s[i].end - s[i].start) % (U64Max + 1))

RECURSIVE SizeScan(_, _, _)
SizeScan(s, i, acc) ==
    IF i > Len(s) THEN [ranges |-> s, err |-> "Ok", addr |-> acc]
    ELSE IF ~IsValid(s[i]) THEN Outcome(s, "InvalidRange")
    ELSE IF s[i].end - s[i].start = U64Max THEN Outcome(s, "AddOverflow")
    ELSE SizeScan(s, i + 1, (acc + s[i].end - s[i].start + 1) % (U64Max + 1))

SizeOp(s) == SizeScan(s, 1, 0)

\* The addresses a RangeSet value holds
Covered(s) == UNION {s[i].start .. s[i].end : i \in DOMAIN s}

=============================================================================
