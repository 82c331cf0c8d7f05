------------------------------ MODULE RangeSet ------------------------------
(***************************************************************************)
(* One RangeSet (src/shared/rangeset/src/lib.rs) and the calls made on it: *)
(* insert, remove, allocate and clear, each one atomic step because the    *)
(* set is owned by a single core.  `call` records the last call and its    *)
(* arguments, `ret` what it returned.  A panic (allocate's unreachable!()) *)
(* never returns: it sets `halted`, leaves `call` and `ret` at the last    *)
(* call that returned, and no step follows it.                             *)
(***************************************************************************)
EXTENDS RangeAlgebra

CONSTANTS
    MaxInput,   \* largest address a caller passes
    Sizes,      \* sizes passed to allocate
    Aligns      \* alignments passed to allocate

ASSUME MaxInput \in Addr /\ Sizes \subseteq Nat /\ Aligns \subseteq Nat \ {0}

VARIABLES ranges, call, ret, halted

vars == <<ranges, call, ret, halted>>

InputAddr == 0 .. MaxInput

\* RangeSet::new
Init ==
    /\ ranges = <<>>
    /\ call = [op |-> "none", a |-> 0, b |-> 0]
    /\ ret = [err |-> "Ok", addr |-> 0]
    /\ halted = FALSE

Running == ~halted

\* The call c came back with res: it returned, or it panicked
Return(c, res) ==
    \/ res.err = "Panic" /\ halted' = TRUE /\ UNCHANGED <<ranges, call, ret>>
    \/ res.err /= "Panic" /\ UNCHANGED halted
       /\ call' = c /\ ranges' = res.ranges /\ ret' = [err |-> res.err, addr |-> res.addr]

\* RangeSet::insert
Insert(lo, hi) ==
    /\ Running
    /\ Return([op |-> "insert", a |-> lo, b |-> hi],
              InsertOp(ranges, InclusiveRange(lo, hi)))

\* RangeSet::remove
Remove(lo, hi) ==
    /\ Running
    /\ Return([op |-> "remove", a |-> lo, b |-> hi],
              RemoveOp(ranges, InclusiveRange(lo, hi)))

\* RangeSet::allocate
Allocate(size, align) ==
    /\ Running
    /\ Return([op |-> "allocate", a |-> size, b |-> align],
              AllocateOp(ranges, size, align))

\* RangeSet::size, a query: the ranges stay as they are
Size ==
    /\ Running
    /\ Return([op |-> "size", a |-> 0, b |-> 0],
              SizeOp(ranges))

\* RangeSet::clear
Clear ==
    /\ Running
    /\ Return([op |-> "clear", a |-> 0, b |-> 0], Outcome(<<>>, "Ok"))

Next ==
    \/ \E lo, hi \in InputAddr : Insert(lo, hi)
    \/ \E lo, hi \in InputAddr : Remove(lo, hi)
    \/ \E size \in Sizes, align \in Aligns : Allocate(size, align)
    \/ Size
    \/ Clear

Spec == Init /\ [][Next]_vars

-----------------------------------------------------------------------------
Errors == {"InvalidRange", "Full", "ZeroSizedAllocation", "UnalignedAllocation",
           "AddOverflow"}

TypeOK ==
    /\ Len(ranges) <= MAX_MEMORY_RANGES
    /\ \A i \in DOMAIN ranges : ranges[i] \in [start : Addr, end : Addr]
                                /\ IsValid(ranges[i])
    /\ call \in [op : {"none", "insert", "remove", "allocate", "size", "clear"},
                 a : Nat, b : Nat]
    /\ ret \in [err : {"Ok"} \cup Errors, addr : Addr]
    /\ halted \in BOOLEAN

(***************************************************************************)
(* Invariant I2 of spec.md 3 and the law of 8: no two live ranges overlap  *)
(* or touch (x.end + 1 < y.start or y.end + 1 < x.start).  It needs insert *)
(* to merge a neighbour at distance one, and remove and allocate to leave  *)
(* a gap wherever they cut; it is broken only after several calls.         *)
(***************************************************************************)
Separated ==
    \A i, j \in DOMAIN ranges :
        i /= j => ranges[i].end + 1 < ranges[j].start
                  \/ ranges[j].end + 1 < ranges[i].start

(***************************************************************************)
(* The RangeSet implements FreeMemory: every call that returns changes    *)
(* the addresses its slots cover exactly as the contract of insert,        *)
(* remove, allocate, size and clear says, whatever calls came before.  A  *)
(* failing call leaves them as they were (a remove that fails Full half-   *)
(* way would not).  allocate's panic at unreachable!() returns nothing and *)
(* changes no slot: the abstract state stays as it is, which a safety      *)
(* specification allows, so this property is silent on the panic that     *)
(* spec.md 4.1 and test_fail_allocate expect to be an error.               *)
(***************************************************************************)
Abstract == INSTANCE FreeMemory WITH free <- Covered(ranges), result <- ret

RemoveClears ==
    call.op = "remove" /\ ret.err = "Ok" => Covered(ranges) \cap (call.a .. call.b) = {}

-----------------------------------------------------------------------------
(***************************************************************************)
(* The unit tests of lib.rs (mod tests) as call sequences, on the set the  *)
(* code builds: 130 slots, and addresses of 20 bits, enough for every      *)
(* value the tests and spec.md 8 use.  Each test compares ranges(), the    *)
(* live slots in their order, so slot order counts here.                   *)
(***************************************************************************)
Unit == INSTANCE RangeAlgebra WITH W <- 20, MAX_MEMORY_RANGES <- 130

\* What mem.insert(...) and mem.remove(...) leave; the tests drop the Result
Ins(s, lo, hi) == Unit!InsertOp(s, InclusiveRange(lo, hi)).ranges
Rem(s, lo, hi) == Unit!RemoveOp(s, InclusiveRange(lo, hi)).ranges

R(lo, hi) == InclusiveRange(lo, hi)

\* test_insert: a gap filled merges three ranges into one
TestInsert(s0) ==
    LET s1 == Ins(Ins(s0, 0, 1), 4, 5)
        s2 == Ins(s1, 2, 3)
    IN  /\ s1 = <<R(0, 1), R(4, 5)>>
        /\ s2 = <<R(0, 5)>>
        /\ Ins(s2, 4, 10) = <<R(0, 10)>>

\* test_remove: removes that split, reinsertion, a merge and a split again
TestRemove(s0) ==
    LET s1 == Ins(s0, 0, 9)
        s2 == Rem(s1, 2, 6)
        s3 == Ins(s2, 2, 6)
        s4 == Rem(s3, 2, 4)
        s5 == Ins(s4, 3, 6)
    IN  /\ s1 = <<R(0, 9)>>
        /\ s2 = <<R(0, 1), R(7, 9)>>
        /\ s3 = <<R(0, 9)>>
        /\ s4 = <<R(0, 1), R(5, 9)>>
        /\ s5 = <<R(0, 1), R(3, 9)>>
        /\ Rem(s5, 7, 8) = <<R(0, 1), R(3, 6), R(9, 9)>>

\* test_allocate: a zero-padding fit at 0, then a padded fit at 0x10
TestAllocate(s0) ==
    LET a1 == Unit!AllocateOp(Ins(s0, 0, 32), 5, 16)
        a2 == Unit!AllocateOp(a1.ranges, 5, 16)
    IN  /\ a1.err = "Ok" /\ a1.addr = 0 /\ a1.ranges = <<R(5, 32)>>
        /\ a2.err = "Ok" /\ a2.addr = 16 /\ a2.ranges = <<R(5, 15), R(21, 32)>>

\* test_delete: a range that encloses a live one replaces it
TestDelete(s0) == Ins(Ins(s0, 1, 4), 0, 5) = <<R(0, 5)>>

(***************************************************************************)
(* The examples the crate gives of RangeSet, run on the model of the code *)
(* from every empty set the calls reach (new, clear).  Its unit tests,    *)
(* which never run (they do not compile: assert_eq! with one argument,     *)
(* is_none on a Result), compare the slots in order after each merge,     *)
(* split and allocation; spec.md 8 scenarios 1 to 3 give a merge of three  *)
(* ranges, the size after a split, and two allocations.                   *)
(* test_fail_allocate and test_max_sum are left out: allocate panics where *)
(* the first expects a failure, and size() returns AddOverflow where the  *)
(* second expects a panic.                                                 *)
(***************************************************************************)
RangeSetExamples ==
    ranges = <<>> =>
        LET s0 == ranges
            s  == Rem(Ins(s0, 0, 65535), 4096, 8191)
            a1 == Unit!AllocateOp(Ins(s0, 0, 131071), 4096, 4096)
        IN  /\ TestInsert(s0) /\ TestRemove(s0) /\ TestAllocate(s0) /\ TestDelete(s0)
            /\ Ins(Ins(Ins(s0, 0, 10), 12, 20), 11, 11) = <<R(0, 20)>>
            /\ {s[i] : i \in DOMAIN s} = {R(0, 4095), R(8192, 65535)}
            /\ Unit!SizeOp(s).addr = 61440
            /\ a1.addr = 0 /\ Unit!AllocateOp(a1.ranges, 4096, 4096).addr = 4096

=============================================================================
