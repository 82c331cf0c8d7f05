---------------------------- MODULE VirtualMemory ----------------------------
(***************************************************************************)
(* What a 4-level page table promises its callers (spec.md 4.3), with no   *)
(* frames and no levels: a function from virtual addresses to what they    *)
(* translate to, the last call and its result.                             *)
(*   map(v, S, leaf)   fails VirtAddrAlreadyMapped if v translates; else   *)
(*                     every address of the S-page holding v translates to *)
(*                     the leaf at its offset, with the leaf's permissions;*)
(*                     running out of frames halts the core;               *)
(*   update_perms(v,p) adds (never removes) the requested permissions of   *)
(*                     the page v translates through.                      *)
(* A virtual address is a function from the four levels to a table index; *)
(* `sub` is the part of it below the page, the offset into the page.       *)
(***************************************************************************)
EXTENDS Integers, Sequences

CONSTANTS VA, Leaves, Sizes, Writable, Executable

VARIABLES vmap, call, result

vars == <<vmap, call, result>>

Unmapped == [mapped |-> FALSE, base |-> 0, sub |-> <<>>, size |-> "none",
             w |-> FALSE, x |-> FALSE]

\* The levels of the address that lie inside a page of the given size
Offset(v, size) ==
    CASE size = "4K"   -> <<>>
      [] size = "2M"   -> <<v[3]>>
      [] size = "512G" -> <<v[1], v[2], v[3]>>

\* v and u lie in the same page of the given size
SamePage(v, u, size) ==
    \A l \in 0 .. 3 - Len(Offset(v, size)) : v[l] = u[l]

Init ==
    /\ vmap = [v \in VA |-> Unmapped]
    /\ call.op = "none"
    /\ result = "Ok"

Running == result /= "Panic"

Map(u, size, leaf, w, x) ==
    /\ Running
    /\ call' = [op |-> "map", v |-> u, w |-> w, x |-> x]
    /\ LET cur == vmap IN
       \/ cur[u].mapped /\ result' = "VirtAddrAlreadyMapped" /\ UNCHANGED vmap
       \/ ~cur[u].mapped /\ result' = "Ok"
          /\ vmap' = [v \in VA |->
                        IF SamePage(v, u, size)
                        THEN [mapped |-> TRUE, base |-> leaf, sub |-> Offset(v, size),
                              size |-> size, w |-> w, x |-> x]
                        ELSE cur[v]]
       \/ ~cur[u].mapped /\ result' = "Panic" /\ UNCHANGED vmap

UpdatePerms(u, w, x) ==
    /\ Running
    /\ call' = [op |-> "update_perms", v |-> u, w |-> w, x |-> x]
    /\ result' = "Ok"
    /\ LET cur == vmap IN
       vmap' = [v \in VA |->
                  IF cur[u].mapped /\ SamePage(v, u, cur[u].size)
                  THEN [cur[v] EXCEPT !.w = @ \/ w, !.x = @ \/ x]
                  ELSE cur[v]]

Next ==
    \/ \E u \in VA, size \in Sizes, leaf \in Leaves, w \in Writable, x \in Executable :
          Map(u, size, leaf, w, x)
    \/ \E u \in VA, w \in Writable, x \in Executable : UpdatePerms(u, w, x)

Spec == Init /\ [][Next]_vars

=============================================================================
