---------------------------- MODULE MCMachineFeed ----------------------------
(* One machine on one page.                                                 *)
EXTENDS MachineFeed

CONSTANTS vm

Machines == {vm}
===============================================================================
