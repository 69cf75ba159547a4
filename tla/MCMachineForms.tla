---------------------------- MODULE MCMachineForms ----------------------------
(* Two disks more than the first: one can be removed before the one marked.   *)
EXTENDS MachineForms, TLC

CONSTANTS d1, d2

ADisk == {d1, d2}
DiskSymmetry == Permutations(ADisk)
===============================================================================
