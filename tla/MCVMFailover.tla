---------------------------- MODULE MCVMFailover ----------------------------
(* TLC instances of VMFailover: host names with prices in order, and the   *)
(* symmetry of the VMs.                                                    *)
EXTENDS VMFailover, TLC

CONSTANTS n1, n2, n3, v1, v2, main, standalone, r1, r2, none

PriceOrder == [h \in Hosts |-> CASE h = n1 -> 1 [] h = n2 -> 2 [] OTHER -> 3]
VMSymmetry == Permutations(VMs)
=============================================================================
