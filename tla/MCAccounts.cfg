\* A newcomer, who may register with the address the seed will use; a plain
\* user and an administrator; two competitions; two requests at a time.
SPECIFICATION FairSpec
CONSTANTS
    newcomer = newcomer
    user = user
    root = root
    open = open
    planned = planned
    Users = {newcomer, user, root}
    Competitions = {open, planned}
    Codes = {k1, k2}
    Passwords = {p1, p2}
    Reqs = {r1, r2}
    None = None
    AdminEmail = newcomer
    Slug = planned
    InitialRole <- RolePerUser
    InitialPassword = p1
    InitialStatus <- StatusPerCompetition
    MaxAttempts = 2
    Statuses = {"PUBLISHED", "ACTIVE"}
    Workloads <- SmallWorkloads
INVARIANTS TypeOK AccountsAreWhole CodesUnique
PROPERTIES JoinsTheActive OwnerKnewPassword ActsAuthorised RequestsAnswered
\* Nothing happens any more once the only administrator is deactivated;
\* RequestsAnswered says that no request hangs.
CHECK_DEADLOCK FALSE
