-------------------------- MODULE MCMachineCreation --------------------------
(* Bulk calls of up to three machines, so that a definition can fail between *)
(* two that succeed; two disks, so that one can be made as the other fails.  *)
EXTENDS MachineCreation

CONSTANTS d1, d2

TwoDisks == {d1, d2}
=============================================================================
