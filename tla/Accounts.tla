------------------------------- MODULE Accounts -------------------------------
(***************************************************************************)
(* Users and what they are allowed: registration (an account and its       *)
(* contestant profile in one transaction), login, passwords, deactivation, *)
(* the guards of authenticated requests, the competitions that people      *)
(* register for, and the administrator that the seed creates.              *)
(*                                                                         *)
(* As in ManualVotes a request in flight is a process of Reqs and each     *)
(* awaited statement a step; the writes of a transaction are applied at    *)
(* its commit.  A user is known by its e-mail address, a competition by    *)
(* its slug.  When a competition is deleted, a request that had read it    *)
(* holds the id of no row: its job.at becomes None.                        *)
(***************************************************************************)
EXTENDS Integers, FiniteSets

CONSTANTS
    Users, Competitions, Codes, Passwords, Reqs, None,
    AdminEmail,    \* the address of the administrator the seed creates
    Slug,          \* the competition the seed creates or activates
    InitialRole,   \* accounts from before: their role, or "ABSENT"
    InitialPassword,
    InitialStatus, \* competitions from before, or "ABSENT"
    MaxAttempts,   \* draws of a contestant code: 10 in the code
    Statuses,      \* bound: competition statuses that administrators set
    Workloads      \* bound: the operations that come together in a behaviour

Roles == {"USER", "CONTESTANT", "ADMIN", "SUPER_ADMIN"}
Admins == {"ADMIN", "SUPER_ADMIN"}
CompetitionStatus == {"DRAFT", "PUBLISHED", "ACTIVE", "COMPLETED", "CANCELLED"}
PubliclyVisible == {"PUBLISHED", "ACTIVE"}

ASSUME AccountsAssumption ==
    /\ IsFiniteSet(Competitions)
    /\ AdminEmail \in Users /\ Slug \in Competitions
    /\ InitialRole \in [Users -> {"ABSENT", "USER", "ADMIN", "SUPER_ADMIN"}]
    /\ InitialPassword \in Passwords
    /\ InitialStatus \in [Competitions -> CompetitionStatus \cup {"ABSENT"}]
    /\ MaxAttempts \in Nat \ {0}
    /\ Statuses \subseteq CompetitionStatus
    /\ None \notin Users \cup Competitions \cup Codes \cup Passwords \cup Reqs

VARIABLES
    workload,   \* the operations of this behaviour
    role,       \* User.role; "ABSENT" has no row
    active,     \* users with isActive
    password,   \* what passwordHash is the hash of
    status,     \* Competition.status; "ABSENT" has no row
    newer,      \* pairs <<c, d>> of competitions: c.createdAt is after d's
    profile,    \* Contestant.contestantCode of a user in a competition
    tokens,     \* users who hold a token
    pc,         \* where each request is
    job,        \* what it works on
    changed,    \* what others have written while it was in flight (history)
    bereft,     \* users a profile of whom was deleted with its competition (history)
    email       \* holder of the unique key of an address not yet committed

table == <<role, active, password, status, newer, profile, tokens>>
vars == <<workload, table, pc, job, changed, bereft, email>>

Answered == {"idle", "failed"}

(* by is the user the token names, of the user and at the competition worked *)
(* on, pwd a new password and given the one a change was sent as current,    *)
(* what a status to set, code the contestant code drawn in how many tries.   *)
NoJob == [by |-> None, of |-> None, at |-> None, pwd |-> None, given |-> None,
          what |-> None, code |-> None, tries |-> 0]

Init ==
    /\ workload \in Workloads
    /\ role = InitialRole
    /\ active = {u \in Users : InitialRole[u] # "ABSENT"}
    /\ password = [u \in Users |-> IF u \in active THEN InitialPassword ELSE None]
    /\ status = InitialStatus
    /\ newer = {}
    /\ profile = [u \in Users |-> [c \in Competitions |-> None]]
    /\ tokens = active
    /\ pc = [r \in Reqs |-> "idle"]
    /\ job = [r \in Reqs |-> NoJob]
    /\ changed = [r \in Reqs |-> {}]
    /\ bereft = {}
    /\ email = [u \in Users |-> None]

(***************************************************************************)
(* Requests.                                                               *)
(***************************************************************************)
Goto(r, loc) == pc' = [pc EXCEPT ![r] = loc]

Begin(r, op, j, loc) ==
    /\ op \in workload /\ pc[r] \in Answered
    /\ Goto(r, loc)
    /\ job' = [job EXCEPT ![r] = j]
    /\ UNCHANGED <<workload, table, changed, bereft, email>>

Move(r, loc) ==
    /\ Goto(r, loc)
    /\ UNCHANGED <<workload, table, job, changed, bereft, email>>

(* The others in flight take note of what r has written.                     *)
Publish(r, facts) ==
    changed' = [q \in Reqs |->
                  IF q = r \/ pc[q] \in Answered THEN {} ELSE changed[q] \cup facts]

Finish(r, answer, facts) ==
    /\ Goto(r, answer)
    /\ job' = [job EXCEPT ![r] = NoJob]
    /\ email' = [u \in Users |-> IF email[u] = r THEN None ELSE email[u]]
    /\ Publish(r, facts)
    /\ UNCHANGED workload

(* The request is answered and has written nothing.                          *)
Leave(r, answer) == Finish(r, answer, {}) /\ UNCHANGED <<table, bereft>>

Exists(u) == role[u] # "ABSENT"

(* findFirst, ordered by createdAt, the last one first.                      *)
Newest(S) ==
    {c \in Competitions : status[c] \in S
        /\ \A d \in Competitions : status[d] \in S => <<d, c>> \notin newer}

(***************************************************************************)
(* POST /auth/register: address, competition, hash, then the transaction.  *)
(***************************************************************************)
Register(r, u, p) ==
    /\ ~Exists(u)
    /\ Begin(r, "register", [NoJob EXCEPT !.of = u, !.pwd = p], "find active")

Choose(r, c) ==
    /\ Goto(r, "insert user")
    /\ job' = [job EXCEPT ![r].at = c]
    /\ UNCHANGED <<workload, table, changed, bereft, email>>

(* Mutant: one query for either status.                                      *)
FindNewest(r) ==
    /\ pc[r] = "find active"
    /\ \/ \E c \in Newest(PubliclyVisible) : Choose(r, c)
       \/ Newest(PubliclyVisible) = {} /\ Move(r, "find published")

FindActive(r) ==
    /\ pc[r] = "find active"
    /\ \/ \E c \in Newest({"ACTIVE"}) : Choose(r, c)
       \/ Newest({"ACTIVE"}) = {} /\ Move(r, "find published")

FindPublished(r) ==
    /\ pc[r] = "find published"
    /\ \/ \E c \in Newest({"PUBLISHED"}) : Choose(r, c)
       \/ Newest({"PUBLISHED"}) = {} /\ Leave(r, "idle")

(* The insert waits for another's uncommitted row of the same address.       *)
InsertUser(r) ==
    LET u == job[r].of IN
    /\ pc[r] = "insert user" /\ email[u] = None
    /\ \/ Exists(u) /\ Leave(r, "failed")
       \/ /\ ~Exists(u) /\ Goto(r, "draw")
          /\ email' = [email EXCEPT ![u] = r]
          /\ UNCHANGED <<workload, table, job, changed, bereft>>

Taken(k) == \E u \in Users, c \in Competitions : profile[u][c] = k

(* Mutant: the loop runs once more than it says.                             *)
DrawOnceMore(r, k) ==
    /\ pc[r] = "draw"
    /\ IF Taken(k) /\ job[r].tries = MaxAttempts
       THEN Leave(r, "idle")
       ELSE /\ IF Taken(k)
               THEN job' = [job EXCEPT ![r].tries = @ + 1] /\ UNCHANGED pc
               ELSE /\ job' = [job EXCEPT ![r].code = k]
                    /\ Goto(r, IF job[r].pwd = None THEN "join" ELSE "sign up")
            /\ UNCHANGED <<workload, table, changed, bereft, email>>

(* Mutant: the loop has no end.                                              *)
DrawUntilFree(r, k) ==
    /\ pc[r] = "draw" /\ ~Taken(k)
    /\ job' = [job EXCEPT ![r].code = k]
    /\ Goto(r, IF job[r].pwd = None THEN "join" ELSE "sign up")
    /\ UNCHANGED <<workload, table, changed, bereft, email>>

(* generateContestantCode: draw until a code is free, at most MaxAttempts.   *)
DrawCode(r, k) ==
    /\ pc[r] = "draw"
    /\ IF Taken(k) /\ job[r].tries + 1 = MaxAttempts
       THEN Leave(r, "idle")
       ELSE /\ IF Taken(k)
               THEN job' = [job EXCEPT ![r].tries = @ + 1] /\ UNCHANGED pc
               ELSE /\ job' = [job EXCEPT ![r].code = k]
                    /\ Goto(r, IF job[r].pwd = None THEN "join" ELSE "sign up")
            /\ UNCHANGED <<workload, table, changed, bereft, email>>

(* Mutant: the code is free because the draw found it free.                  *)
InsertableIfFree(j) == j.at # None /\ profile[j.of][j.at] = None

(* The unique keys and the reference to the competition hold.                *)
Insertable(j) == ~Taken(j.code) /\ j.at # None /\ profile[j.of][j.at] = None

AddProfile(j) == profile' = [profile EXCEPT ![j.of][j.at] = j.code]

(* Mutant: the account is committed whether or not its profile can be.       *)
SignUpAnyway(r) ==
    LET j == job[r] IN
    /\ pc[r] = "sign up"
    /\ role' = [role EXCEPT ![j.of] = "CONTESTANT"]
    /\ active' = active \cup {j.of}
    /\ password' = [password EXCEPT ![j.of] = j.pwd]
    /\ tokens' = tokens \cup {j.of}
    /\ IF Insertable(j) THEN AddProfile(j) ELSE UNCHANGED profile
    /\ Finish(r, "idle", {<<"account", j.of>>})
    /\ UNCHANGED <<status, newer, bereft>>

(* The profile; with the commit, the account.  The answer carries a token.   *)
SignUp(r) ==
    LET j == job[r] IN
    /\ pc[r] = "sign up"
    /\ \/ ~Insertable(j) /\ Leave(r, "failed")
       \/ /\ Insertable(j) /\ AddProfile(j)
          /\ role' = [role EXCEPT ![j.of] = "CONTESTANT"]
          /\ active' = active \cup {j.of}
          /\ password' = [password EXCEPT ![j.of] = j.pwd]
          /\ tokens' = tokens \cup {j.of}
          /\ Finish(r, "idle", {<<"account", j.of>>})
          /\ UNCHANGED <<status, newer, bereft>>

(***************************************************************************)
(* POST /auth/login: bcrypt.compare takes its time, and compares with the  *)
(* hash that was read.                                                     *)
(***************************************************************************)
Login(r, u, p) ==
    /\ u \in active /\ password[u] = p
    /\ Begin(r, "login", [NoJob EXCEPT !.of = u], "compare")

IssueToken(r) ==
    /\ pc[r] = "compare"
    /\ tokens' = tokens \cup {job[r].of}
    /\ Finish(r, "idle", {})
    /\ UNCHANGED <<role, active, password, status, newer, profile, bereft>>

(***************************************************************************)
(* Authenticated requests: the guards read the user behind the token, and  *)
(* the handler runs later.                                                 *)
(***************************************************************************)

(* Mutant: the token is trusted without reading the user.                    *)
TrustToken(a) == a \in tokens

JwtGuard(a) == a \in tokens /\ a \in active

RolesGuard(a, required) == role[a] \in required

Enter(r, op, required, j, loc) ==
    /\ JwtGuard(j.by) /\ RolesGuard(j.by, required)
    /\ Begin(r, op, j, loc)

(* POST /competitions/:competitionId/contestants                             *)
RegisterContestant(r, a, c) ==
    /\ status[c] # "ABSENT" /\ profile[a][c] = None
    /\ Enter(r, "join", Roles, [NoJob EXCEPT !.by = a, !.of = a, !.at = c], "draw")

Join(r) ==
    LET j == job[r] IN
    /\ pc[r] = "join"
    /\ \/ ~Insertable(j) /\ Leave(r, "failed")
       \/ /\ Insertable(j) /\ AddProfile(j)
          /\ role' = [role EXCEPT ![j.of] = IF @ = "USER" THEN "CONTESTANT" ELSE @]
          /\ Finish(r, "idle", {<<"account", j.of>>})
          /\ UNCHANGED <<active, password, status, newer, tokens, bereft>>

(* PATCH /users/me/password                                                  *)
ChangePassword(r, a, current, p) ==
    Enter(r, "password", Roles,
          [NoJob EXCEPT !.by = a, !.of = a, !.given = current, !.pwd = p], "verify")

(* Mutant: a wrong current password is let through.                          *)
VerifyNothing(r) == pc[r] = "verify" /\ Move(r, "write password")

VerifyPassword(r) ==
    /\ pc[r] = "verify"
    /\ IF password[job[r].of] = job[r].given
       THEN Move(r, "write password") ELSE Leave(r, "idle")

(* PATCH /admin/users/:id/password                                           *)
ResetUserPassword(r, a, u, p) ==
    /\ Exists(u)
    /\ Enter(r, "reset", Admins,
             [NoJob EXCEPT !.by = a, !.of = u, !.pwd = p], "write password")

WritePassword(r) ==
    LET u == job[r].of IN
    /\ pc[r] = "write password"
    /\ password' = [password EXCEPT ![u] = job[r].pwd]
    /\ Finish(r, "idle", {<<"password", u>>})
    /\ UNCHANGED <<role, active, status, newer, profile, tokens, bereft>>

(* PATCH /admin/users/:id/status                                             *)
SetUserStatus(r, a, u, s) ==
    Enter(r, "status", Admins,
          [NoJob EXCEPT !.by = a, !.of = u, !.what = s], "write status")

UpdateUserStatus(r) ==
    LET u == job[r].of IN
    /\ pc[r] = "write status"
    /\ \/ ~Exists(u) /\ Leave(r, "idle")
       \/ /\ Exists(u)
          /\ active' = IF job[r].what = "active" THEN active \cup {u} ELSE active \ {u}
          /\ Finish(r, "idle", {<<"account", u>>})
          /\ UNCHANGED <<role, password, status, newer, profile, tokens, bereft>>

(***************************************************************************)
(* Competitions, by administrators.                                        *)
(***************************************************************************)
Create(r, a, c, s) ==
    Enter(r, "create", Admins, [NoJob EXCEPT !.by = a, !.at = c, !.what = s], "create")

(* update and remove look the competition up first.                          *)
Update(r, a, c, s) ==
    /\ status[c] # "ABSENT"
    /\ Enter(r, "update", Admins, [NoJob EXCEPT !.by = a, !.at = c, !.what = s], "update")

Remove(r, a, c) ==
    /\ status[c] # "ABSENT"
    /\ Enter(r, "remove", Admins, [NoJob EXCEPT !.by = a, !.at = c], "remove")

WriteCompetition(r, c, s) ==
    /\ status' = [status EXCEPT ![c] = s]
    /\ newer' = IF status[c] # "ABSENT" THEN newer
                ELSE newer \cup ({c} \X {d \in Competitions : status[d] # "ABSENT"})
    /\ Finish(r, "idle", {<<"status", c>>})
    /\ UNCHANGED <<role, active, password, profile, tokens, bereft>>

CreateRow(r) ==
    LET c == job[r].at IN
    /\ pc[r] = "create"
    /\ IF status[c] = "ABSENT"
       THEN WriteCompetition(r, c, job[r].what) ELSE Leave(r, "idle")

UpdateRow(r) ==
    LET c == job[r].at IN
    /\ pc[r] = "update"
    /\ IF c # None THEN WriteCompetition(r, c, job[r].what) ELSE Leave(r, "failed")

(* Its profiles go with a competition; requests that had read it hold the id *)
(* of no row.  A confirmed vote in it refuses the deletion (Restrict).       *)
RemoveRow(r) ==
    LET c == job[r].at IN
    /\ pc[r] = "remove"
    /\ \/ Leave(r, "failed")
       \/ /\ c # None /\ Goto(r, "idle")
          /\ status' = [status EXCEPT ![c] = "ABSENT"]
          /\ newer' = {pair \in newer : c \notin {pair[1], pair[2]}}
          /\ profile' = [u \in Users |-> [profile[u] EXCEPT ![c] = None]]
          /\ bereft' = bereft \cup {u \in Users : profile[u][c] # None}
          /\ job' = [q \in Reqs |-> IF q = r THEN NoJob
                                    ELSE IF job[q].at = c /\ pc[q] # "create"
                                    THEN [job[q] EXCEPT !.at = None] ELSE job[q]]
          /\ Publish(r, {<<"status", c>>})
          /\ UNCHANGED <<workload, role, active, password, tokens, email>>

(***************************************************************************)
(* prisma/seed.ts: the administrator, then the competition.                *)
(***************************************************************************)
Seed(r) ==
    Begin(r, "seed", NoJob,
          IF Exists(AdminEmail) THEN "seed competition" ELSE "seed admin")

SeedAdmin(r) ==
    /\ pc[r] = "seed admin" /\ email[AdminEmail] = None
    /\ \/ Exists(AdminEmail) /\ Leave(r, "failed")
       \/ /\ ~Exists(AdminEmail) /\ Goto(r, "seed competition")
          /\ role' = [role EXCEPT ![AdminEmail] = "SUPER_ADMIN"]
          /\ active' = active \cup {AdminEmail}
          /\ password' = [password EXCEPT ![AdminEmail] = InitialPassword]
          /\ Publish(r, {<<"account", AdminEmail>>})
          /\ UNCHANGED <<workload, status, newer, profile, tokens, job, bereft, email>>

SeedCompetition(r) == pc[r] = "seed competition" /\ WriteCompetition(r, Slug, "ACTIVE")

(* A transaction that times out or loses its connection.                     *)
Abort(r) == pc[r] \in {"draw", "sign up", "join"} /\ Leave(r, "failed")

Start(r) ==
    \/ Seed(r)
    \/ \E u \in Users, p \in Passwords : Register(r, u, p) \/ Login(r, u, p)
    \/ \E a \in Users :
         \/ \E c \in Competitions :
              \/ RegisterContestant(r, a, c) \/ Remove(r, a, c)
              \/ \E s \in Statuses : Create(r, a, c, s) \/ Update(r, a, c, s)
         \/ \E p, q \in Passwords : ChangePassword(r, a, p, q)
         \/ \E u \in Users, p \in Passwords : ResetUserPassword(r, a, u, p)
         \/ \E u \in Users, s \in {"active", "inactive"} : SetUserStatus(r, a, u, s)

Proceed(r) ==
    \/ FindActive(r) \/ FindPublished(r) \/ InsertUser(r)
    \/ \E k \in Codes : DrawCode(r, k)
    \/ SignUp(r) \/ IssueToken(r) \/ Join(r)
    \/ VerifyPassword(r) \/ WritePassword(r) \/ UpdateUserStatus(r)
    \/ CreateRow(r) \/ UpdateRow(r) \/ RemoveRow(r)
    \/ SeedAdmin(r) \/ SeedCompetition(r)

Next == \E r \in Reqs : Start(r) \/ Proceed(r) \/ Abort(r)

Spec == Init /\ [][Next]_vars

(* An insert that waits for the key of an address waits for a transaction    *)
(* that ends; it may be overtaken, so its step is enabled again and again.   *)
Fairness == \A r \in Reqs : SF_vars(Proceed(r))

FairSpec == Spec /\ Fairness

(***************************************************************************)
(* Properties.                                                             *)
(***************************************************************************)
Job == [by: Users \cup {None}, of: Users \cup {None}, at: Competitions \cup {None},
        pwd: Passwords \cup {None}, given: Passwords \cup {None},
        what: CompetitionStatus \cup {"active", "inactive", None},
        code: Codes \cup {None}, tries: 0..(MaxAttempts - 1)]

TypeOK ==
    /\ workload \in Workloads
    /\ role \in [Users -> Roles \cup {"ABSENT"}]
    /\ active \subseteq Users /\ tokens \subseteq Users /\ bereft \subseteq Users
    /\ password \in [Users -> Passwords \cup {None}]
    /\ status \in [Competitions -> CompetitionStatus \cup {"ABSENT"}]
    /\ newer \subseteq Competitions \X Competitions
    /\ profile \in [Users -> [Competitions -> Codes \cup {None}]]
    /\ job \in [Reqs -> Job]
    /\ email \in [Users -> Reqs \cup {None}]

(* An account made by registration is whole: whoever is a CONTESTANT has a   *)
(* profile, unless its competition was deleted; whoever has a profile is no  *)
(* plain USER; and nobody is both absent and signed in, active or entered.   *)
(* Registrations, joins, deletions and failures meet in any order.           *)
AccountsAreWhole ==
    \A u \in Users :
        LET entered == \E c \in Competitions : profile[u][c] # None
        IN /\ role[u] = "CONTESTANT" => entered \/ u \in bereft
           /\ entered => role[u] \notin {"ABSENT", "USER"}
           /\ role[u] = "ABSENT" => u \notin active \cup tokens /\ password[u] = None

(* A contestant code, which voters quote on their transfers, names one       *)
(* profile.  Two requests may draw the same code before either commits.      *)
CodesUnique ==
    \A u, v \in Users, c, d \in Competitions :
        profile[u][c] # None /\ profile[u][c] = profile[v][d] => u = v /\ c = d

(* Registration puts people in a competition that is open, and in a          *)
(* PUBLISHED one only when none was ACTIVE (findRegistrationCompetition),    *)
(* except when an administrator or the seed changed a competition while the  *)
(* request was in flight.                                                    *)
JoinsTheActive ==
    [][\A r \in Reqs :
         LET c == job[r].at
             stood(d) == <<"status", d>> \notin changed[r]
         IN pc[r] = "sign up" /\ pc'[r] = "idle" /\ c # None /\ stood(c) =>
              /\ status[c] \in PubliclyVisible
              /\ status[c] = "PUBLISHED" =>
                   \A d \in Competitions : status[d] = "ACTIVE" => ~stood(d)]_vars

(* A password is replaced only by an administrator, or by somebody who gave  *)
(* the current one, unless another change overtook the request between its   *)
(* check and its write.                                                      *)
OwnerKnewPassword ==
    [][\A r \in Reqs : \A u \in Users :
         /\ pc[r] = "write password" /\ pc'[r] = "idle"
         /\ job[r].of = u /\ job[r].given # None
         => password[u] = job[r].given \/ <<"password", u>> \in changed[r]]_vars

(* What an authenticated request writes, it writes for a user who is active  *)
(* and of the role the route requires, unless that user was deactivated      *)
(* between the guard and the write: a token alone is worth nothing.          *)
ActsAuthorised ==
    [][\A r \in Reqs :
         LET a == job[r].by
             admin == \/ pc[r] \in {"write status", "create", "update", "remove"}
                      \/ pc[r] = "write password" /\ job[r].given = None
         IN a # None /\ pc[r] \notin Answered /\ table' # table /\ pc'[r] = "idle" =>
              \/ a \in active /\ (admin => role[a] \in Admins)
              \/ <<"account", a>> \in changed[r]]_vars

(* An address whose insert is not committed is in the hands of a             *)
(* registration that has only its code to draw and its profile to insert:    *)
(* whoever waits for the address waits for one that waits for nobody, and    *)
(* an answer, a failure or a lost connection leaves no address taken.        *)
AddressesReleased ==
    \A r \in Reqs, u \in Users : email[u] = r =>
        /\ pc[r] \in {"draw", "sign up"}
        /\ job[r].of = u /\ job[r].pwd # None /\ ~Exists(u)

(* Every request is answered.                                                *)
RequestsAnswered == \A r \in Reqs : pc[r] \notin Answered ~> pc[r] \in Answered
=============================================================================
