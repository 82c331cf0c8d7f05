----------------------------- MODULE FreeMemory -----------------------------
(***************************************************************************)
(* What a RangeSet promises its callers (spec.md 4.1, 4.2), with no slots, *)
(* no merging and no order: a set of free addresses, the last call made on *)
(* it and what that call returned.                                         *)
(*   insert(lo..hi)  adds the addresses, or fails Full and changes nothing;*)
(*   remove(lo..hi)  takes them away, or fails Full and changes nothing;   *)
(*   allocate(size, align) hands out an aligned block that was wholly free *)
(*                   and is not free after, and fails only when no such    *)
(*                   block exists;                                         *)
(*   size            returns how many addresses are free, and fails        *)
(*                   AddOverflow only when every address is free (the     *)
(*                   count then needs W + 1 bits);                         *)
(*   clear           empties the set.                                      *)
(* The RangeSet never returns NoFit: where no block fits, its allocate     *)
(* panics, which returns nothing (see RangeSet).                           *)
(***************************************************************************)
EXTENDS Integers, FiniteSets

CONSTANTS Addr, InputAddr, Sizes, Aligns, IsPowerOfTwo(_)

VARIABLES free, call, result

vars == <<free, call, result>>

Block(a, size) == a .. a + size - 1

\* What a call returns when it hands out no address
Returns(e) == [err |-> e, addr |-> 0]

\* The addresses at which an aligned block of `size` lies wholly in `free`
Fits(size, align) ==
    {a \in Addr : a % align = 0 /\ a + size - 1 \in Addr /\ Block(a, size) \subseteq free}

Init ==
    /\ free = {}
    /\ call = [op |-> "none", a |-> 0, b |-> 0]
    /\ result = Returns("Ok")

Insert(lo, hi) ==
    /\ call' = [op |-> "insert", a |-> lo, b |-> hi]
    /\ \/ lo > hi /\ result' = Returns("InvalidRange") /\ UNCHANGED free
       \/ lo <= hi /\ result' = Returns("Ok") /\ free' = free \cup lo .. hi
       \/ lo <= hi /\ result' = Returns("Full") /\ UNCHANGED free

Remove(lo, hi) ==
    /\ call' = [op |-> "remove", a |-> lo, b |-> hi]
    /\ \/ lo > hi /\ result' = Returns("InvalidRange") /\ UNCHANGED free
       \/ lo <= hi /\ result' = Returns("Ok") /\ free' = free \ lo .. hi
       \/ lo <= hi /\ result' = Returns("Full") /\ UNCHANGED free

Allocate(size, align) ==
    /\ call' = [op |-> "allocate", a |-> size, b |-> align]
    /\ \/ size = 0 /\ result' = Returns("ZeroSizedAllocation") /\ UNCHANGED free
       \/ size > 0 /\ ~IsPowerOfTwo(align) /\ result' = Returns("UnalignedAllocation")
                   /\ UNCHANGED free
       \/ size > 0 /\ IsPowerOfTwo(align)
                   /\ \E a \in Fits(size, align) :
                         /\ result' = [err |-> "Ok", addr |-> a]
                         /\ free' = free \ Block(a, size)
       \/ size > 0 /\ IsPowerOfTwo(align) /\ Fits(size, align) = {}
                   /\ result' = Returns("NoFit") /\ UNCHANGED free

Size ==
    /\ call' = [op |-> "size", a |-> 0, b |-> 0]
    /\ UNCHANGED free
    /\ result' = IF free = Addr THEN Returns("AddOverflow")
                 ELSE [err |-> "Ok", addr |-> Cardinality(free)]

Clear ==
    /\ call' = [op |-> "clear", a |-> 0, b |-> 0]
    /\ free' = {}
    /\ result' = Returns("Ok")

Next ==
    \/ \E lo, hi \in InputAddr : Insert(lo, hi) \/ Remove(lo, hi)
    \/ \E size \in Sizes, align \in Aligns : Allocate(size, align)
    \/ Size
    \/ Clear

Spec == Init /\ [][Next]_vars

=============================================================================
