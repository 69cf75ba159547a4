---------------------------- MODULE MCUserAccounts ----------------------------
(* Two administrators and a client, an account manager and a client manager. *)
EXTENDS UserAccounts, TLC

CONSTANTS a1, a2, c1, admins, clients, manager, clerk, e1, r1, r2, j1

TwoAdmins == {a1, a2}
OneClient == {c1}
Permissions == {admins, clients}
Roles == {manager, clerk}
RoleGrants == (manager :> Permissions) @@ (clerk :> {clients})
OneEmail == {e1}
OneRequest == {r1}
TwoRequests == {r1, r2}
OneJob == {j1}
===============================================================================
