---------------------------- MODULE MCAccountImport ----------------------------
(* Two rows, an account that exists and a username that is free at first.    *)
EXTENDS AccountImport, TLC

CONSTANTS r1, r2, x, y

MCRow == {r1, r2}
MCTyped == {x, y}
MCFirst == {x}
RowSymmetry == Permutations(MCRow)
=============================================================================
