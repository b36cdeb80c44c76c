------------------------------ MODULE MCAccounts ------------------------------
(* Small instance of Accounts: a newcomer, a plain user and an administrator.  *)
(* The address of the newcomer is the one the seed creates an account for.     *)
EXTENDS Accounts, TLC

CONSTANTS newcomer, user, root, open, planned

RolePerUser == newcomer :> "ABSENT" @@ user :> "USER" @@ root :> "ADMIN"

StatusPerCompetition == open :> "PUBLISHED" @@ planned :> "ABSENT"

(* The operations that come together in a behaviour.                           *)
SmallWorkloads ==
    {{"register", "create", "update"}, {"register", "remove"}, {"register", "join"},
     {"join", "remove"}, {"register", "seed"}, {"create", "update", "remove"},
     {"password", "reset"}, {"password", "status"}, {"login", "status"},
     {"status", "update"}}
=============================================================================
