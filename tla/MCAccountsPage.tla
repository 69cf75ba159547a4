--------------------------- MODULE MCAccountsPage ---------------------------
(* Two accounts: one is selected after the other, or is made while the other *)
(* is deleted.  A search matches both or the first.                          *)
EXTENDS AccountsPage

CONSTANTS c1, c2

AOrder == <<c1, c2>>
AExisting == {c1}
ASearches == {{c1}, {c1, c2}}
=============================================================================
