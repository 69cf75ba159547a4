---------------------------- MODULE MCNetworkPanel ----------------------------
(* Two accounts, whose workspaces the first of them switches between.       *)
EXTENDS NetworkPanel

CONSTANTS a, b

MCAccount == {a, b}
=============================================================================
