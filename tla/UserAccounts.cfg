SPECIFICATION FairSpec
CONSTANTS
    a1 = a1
    a2 = a2
    c1 = c1
    admins = admins
    clients = clients
    manager = manager
    clerk = clerk
    e1 = e1
    r1 = r1
    r2 = r2
    j1 = j1
    Admin <- TwoAdmins
    Client <- OneClient
    Root = a1
    Role <- Roles
    Permission <- Permissions
    Grants <- RoleGrants
    ManageAdmins = admins
    ManageClients = clients
    Email <- OneEmail
    NoEmail = NoEmail
    Request <- TwoRequests
    Job <- OneJob
CHECK_DEADLOCK FALSE
INVARIANTS
    EveryPermissionAssigned
    UsersMatchEntities
    EmailClashNeedsJob
PROPERTY
    EveryJobEnds
