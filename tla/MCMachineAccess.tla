--------------------------- MODULE MCMachineAccess ---------------------------
(* Two clients: one may be made by a job while the other is deleted.         *)
EXTENDS MachineAccess, TLC

CONSTANTS c1, c2

AClient == {c1, c2}
ASymmetry == Permutations(AClient)
===============================================================================
