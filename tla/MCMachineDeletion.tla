-------------------------- MODULE MCMachineDeletion --------------------------
(* Two requests race: two deletes, or a delete and a start or stop, or two   *)
(* starts and stops.  Two disks let one thread fail while the other is still *)
(* at work, and two display ports tell a stale port from the current one.    *)
EXTENDS MachineDeletion, TLC

CONSTANTS r1, r2, p1, p2, d1, d2

TwoRequests == {r1, r2}
TwoPorts == {p1, p2}
TwoDisks == {d1, d2}
DeletionSymmetry ==
    Permutations(TwoRequests) \cup Permutations(TwoPorts) \cup Permutations(TwoDisks)
=============================================================================
