---------------------------- MODULE AccountsProofs ----------------------------
(***************************************************************************)
(* Proofs about Accounts, for any users, competitions, codes and requests, *)
(* and any mix of operations.                                              *)
(***************************************************************************)
EXTENDS Accounts, FiniteSetTheorems, WellFoundedInduction, TLAPS

Locs == Answered \cup
    {"find active", "find published", "insert user", "draw", "sign up", "compare", "join",
     "verify", "write password", "write status", "create", "update", "remove",
     "seed admin", "seed competition"}

Typed == TypeOK /\ pc \in [Reqs -> Locs]

(* A registration that holds the key of its address.                         *)
Signing(r) == pc[r] \in {"draw", "sign up"} /\ job[r].pwd # None

(* What each statement needs of the request.                                 *)
Holds(r) ==
    /\ pc[r] \in {"find active", "find published", "insert user", "draw", "sign up",
                  "compare", "join", "verify", "write password", "write status"} =>
         job[r].of \in Users
    /\ pc[r] \in {"find active", "find published", "insert user", "sign up", "verify",
                  "write password"} => job[r].pwd \in Passwords
    /\ pc[r] = "join" => job[r].pwd = None
    /\ pc[r] = "verify" => job[r].given \in Passwords
    /\ pc[r] \in {"sign up", "join"} => job[r].code \in Codes
    /\ pc[r] = "create" => job[r].at \in Competitions
    /\ pc[r] \in {"create", "update"} => job[r].what \in CompetitionStatus
    /\ pc[r] \in {"seed admin", "seed competition"} => job[r].by = None

(* The addresses: a registration is alone with its own, and every other      *)
(* request works on an account that exists.                                  *)
Accounted(r) ==
    /\ Signing(r) => email[job[r].of] = r /\ ~Exists(job[r].of)
    /\ \/ pc[r] \in {"compare", "join", "verify", "write password"}
       \/ pc[r] = "draw" /\ job[r].pwd = None
       => Exists(job[r].of)

(* No competition is ACTIVE but those changed meanwhile.                     *)
NoneActive(r) ==
    \A d \in Competitions : status[d] = "ACTIVE" => <<"status", d>> \in changed[r]

Chosen(r) ==
    job[r].at # None /\ <<"status", job[r].at>> \notin changed[r] =>
        /\ status[job[r].at] \in PubliclyVisible
        /\ status[job[r].at] = "PUBLISHED" => NoneActive(r)

AdminAt(r) ==
    \/ pc[r] \in {"write status", "create", "update", "remove"}
    \/ pc[r] = "write password" /\ job[r].given = None

Authorised(r) ==
    \/ job[r].by \in active /\ (AdminAt(r) => role[job[r].by] \in Admins)
    \/ <<"account", job[r].by>> \in changed[r]

(* What a request has checked still holds, but for what others have written. *)
Checked(r) ==
    /\ pc[r] = "find published" => NoneActive(r)
    /\ pc[r] = "insert user" \/ Signing(r) => Chosen(r)
    /\ pc[r] = "write password" /\ job[r].given # None =>
         password[job[r].of] = job[r].given \/ <<"password", job[r].of>> \in changed[r]
    /\ pc[r] \notin Answered /\ job[r].by # None => Authorised(r)

Knows(r) == Holds(r) /\ Accounted(r) /\ Checked(r)

(* The order of creation.                                                    *)
Ordered ==
    /\ \A c, d \in Competitions : <<c, d>> \in newer =>
          status[c] # "ABSENT" /\ status[d] # "ABSENT" /\ <<d, c>> \notin newer
    /\ \A c, d, e \in Competitions :
          <<c, d>> \in newer /\ <<d, e>> \in newer => <<c, e>> \in newer

Globals == AccountsAreWhole /\ CodesUnique /\ Ordered

IInv == Typed /\ (\A r \in Reqs : Knows(r)) /\ Globals

(***************************************************************************)
(* The initial states.                                                     *)
(***************************************************************************)
LEMMA NoJobTyped ==
  /\ NoJob \in Job /\ NoJob.by = None /\ NoJob.of = None /\ NoJob.pwd = None
  /\ NoJob.given = None /\ NoJob.at = None
<1>1. 0 \in 0..(MaxAttempts - 1)
  BY AccountsAssumption DEF AccountsAssumption
<1> QED BY <1>1 DEF NoJob, Job

LEMMA AnsweredKnows ==
  ASSUME NEW r \in Reqs, pc[r] \in Answered PROVE Knows(r)
  BY DEF Knows, Holds, Accounted, Checked, Signing, Answered

LEMMA InitIInv == Init => IInv
<1> SUFFICES ASSUME Init PROVE IInv
  OBVIOUS
<1>0. /\ InitialRole \in [Users -> {"ABSENT", "USER", "ADMIN", "SUPER_ADMIN"}]
      /\ InitialPassword \in Passwords
      /\ InitialStatus \in [Competitions -> CompetitionStatus \cup {"ABSENT"}]
  BY AccountsAssumption DEF AccountsAssumption
<1>1. TypeOK
  BY <1>0, NoJobTyped DEF Init, TypeOK, Roles
<1>2. Typed
  BY <1>1 DEF Init, Typed, Locs, Answered
<1>3. \A r \in Reqs : Knows(r)
  BY AnsweredKnows DEF Init, Answered
<1>4. AccountsAreWhole
  BY <1>0 DEF Init, AccountsAreWhole
<1>5. CodesUnique /\ Ordered
  BY DEF Init, CodesUnique, Ordered
<1> QED BY <1>2, <1>3, <1>4, <1>5 DEF IInv, Globals

(***************************************************************************)
(* What the others see of a step.                                          *)
(***************************************************************************)
Notices(q) ==
    /\ pc'[q] = pc[q]
    /\ \/ job'[q] = job[q]
       \/ pc[q] # "create" /\ job'[q] = [job[q] EXCEPT !.at = None]
    /\ \A u \in Users : /\ Exists(u) => Exists(u)'
                        /\ email[u] = q => email'[u] = q /\ (~Exists(u) => ~Exists(u)')
    /\ pc[q] \notin Answered =>
         /\ changed[q] \subseteq changed'[q]
         /\ \A c \in Competitions : status'[c] # status[c] => <<"status", c>> \in changed'[q]
         /\ \A u \in Users :
              /\ role'[u] # role[u] \/ ~(u \in active' <=> u \in active) =>
                   <<"account", u>> \in changed'[q]
              /\ Exists(u) /\ password'[u] # password[u] =>
                   <<"password", u>> \in changed'[q]

LEMMA KnowsOn ==
  ASSUME Typed, NEW q \in Reqs, Knows(q), Notices(q) PROVE Knows(q)'
<1>0. job[q] \in Job
  BY DEF Typed, TypeOK
<1>1. /\ pc'[q] = pc[q] /\ job'[q].by = job[q].by /\ job'[q].of = job[q].of
      /\ job'[q].pwd = job[q].pwd /\ job'[q].given = job[q].given
      /\ job'[q].what = job[q].what /\ job'[q].code = job[q].code
      /\ job'[q].at = job[q].at \/ (pc[q] # "create" /\ job'[q].at = None)
  BY <1>0 DEF Notices, Job
<1>2. Holds(q)'
  BY <1>1 DEF Knows, Holds
<1>3. CASE pc[q] \in Answered
  BY <1>1, <1>3, AnsweredKnows DEF Knows, Holds, Accounted, Checked, Signing, Answered
<1>4. CASE pc[q] \notin Answered
  <2>1. Accounted(q)'
    <3>1. Signing(q)' => email'[job[q].of] = q /\ role'[job[q].of] = "ABSENT"
      BY <1>1 DEF Signing, Knows, Holds, Accounted, Notices, Exists
    <3>2. \/ pc[q] \in {"compare", "join", "verify", "write password"}
          \/ pc[q] = "draw" /\ job[q].pwd = None
          => role'[job[q].of] # "ABSENT"
      BY <1>1 DEF Knows, Holds, Accounted, Notices, Exists
    <3> QED BY <1>1, <3>1, <3>2 DEF Accounted, Exists, Signing
  <2>2. NoneActive(q) => NoneActive(q)'
    BY <1>4 DEF NoneActive, Notices
  <2>3. Chosen(q) => Chosen(q)'
    <3> SUFFICES ASSUME Chosen(q), job'[q].at # None,
                        <<"status", job'[q].at>> \notin changed'[q]
                 PROVE  /\ status'[job'[q].at] \in PubliclyVisible
                        /\ status'[job'[q].at] = "PUBLISHED" => NoneActive(q)'
      BY DEF Chosen
    <3>1. job'[q].at = job[q].at /\ job[q].at \in Competitions
      BY <1>0, <1>1 DEF Job
    <3>2. status'[job[q].at] = status[job[q].at] /\ <<"status", job[q].at>> \notin changed[q]
      BY <1>4, <3>1 DEF Notices
    <3> QED BY <2>2, <3>1, <3>2 DEF Chosen
  <2>4. ASSUME pc[q] = "write password", job[q].given # None
        PROVE  password'[job[q].of] = job[q].given \/ <<"password", job[q].of>> \in changed'[q]
    <3>1. job[q].of \in Users /\ Exists(job[q].of)
      BY <2>4 DEF Knows, Holds, Accounted
    <3>2. password[job[q].of] = job[q].given \/ <<"password", job[q].of>> \in changed[q]
      BY <2>4 DEF Knows, Checked
    <3> QED BY <1>4, <3>1, <3>2 DEF Notices
  <2>5. ASSUME job[q].by # None, Authorised(q) PROVE Authorised(q)'
    <3>1. job[q].by \in Users
      BY <1>0, <2>5 DEF Job
    <3>2. \/ <<"account", job[q].by>> \in changed'[q]
          \/ /\ role'[job[q].by] = role[job[q].by]
             /\ (job[q].by \in active' <=> job[q].by \in active)
             /\ <<"account", job[q].by>> \notin changed[q]
      BY <1>4, <3>1 DEF Notices
    <3> QED BY <1>1, <2>5, <3>2 DEF Authorised, AdminAt
  <2>6. Checked(q)'
    BY <1>1, <1>4, <2>2, <2>3, <2>4, <2>5 DEF Checked, Knows, Signing
  <2> QED BY <1>2, <2>1, <2>6 DEF Knows
<1> QED BY <1>3, <1>4

(***************************************************************************)
(* Steps that write nothing but registers.                                 *)
(***************************************************************************)
Kept(r) ==
    Typed' /\ Knows(r)' /\ Globals' /\ (\A q \in Reqs \ {r} : Notices(q))

LEMMA KeptIsIInv ==
  ASSUME IInv, NEW r \in Reqs, Kept(r) PROVE IInv'
<1>1. ASSUME NEW q \in Reqs PROVE Knows(q)'
  <2>1. CASE q = r
    BY <2>1 DEF Kept
  <2>2. CASE q # r
    BY <2>2, KnowsOn DEF Kept, IInv
  <2> QED BY <2>1, <2>2
<1> QED BY <1>1 DEF Kept, IInv

Quiet(r) ==
    /\ UNCHANGED <<workload, table, bereft>>
    /\ \A q \in Reqs \ {r} :
         /\ pc'[q] = pc[q] /\ job'[q] = job[q]
         /\ pc[q] \notin Answered => changed[q] \subseteq changed'[q]
         /\ \A u \in Users : email[u] = q => email'[u] = q

LEMMA QuietKept ==
  ASSUME Typed, Globals, NEW r \in Reqs, Quiet(r), Typed', Knows(r)' PROVE Kept(r)
<1>1. UNCHANGED <<role, active, password, status, newer, profile, tokens, bereft>>
  BY DEF Quiet, table
<1>2. Globals'
  BY <1>1 DEF Globals, AccountsAreWhole, CodesUnique, Ordered
<1>3. \A q \in Reqs \ {r} : Notices(q)
  BY <1>1 DEF Quiet, Notices, Exists
<1> QED BY <1>2, <1>3 DEF Kept

LEMMA LeavesKept ==
  ASSUME Typed, Globals, NEW r \in Reqs, NEW answer \in Answered, Leave(r, answer)
  PROVE  Kept(r)
<1>1. /\ pc' = [pc EXCEPT ![r] = answer] /\ job' = [job EXCEPT ![r] = NoJob]
      /\ email' = [u \in Users |-> IF email[u] = r THEN None ELSE email[u]]
      /\ UNCHANGED <<workload, table, bereft>>
  BY DEF Leave, Finish, Goto
<1>2. Typed'
  BY <1>1, NoJobTyped DEF Typed, TypeOK, table, Locs
<1>3. Knows(r)'
  <2>1. pc'[r] \in Answered
    BY <1>1 DEF Typed
  <2> QED BY <2>1, AnsweredKnows DEF Knows, Holds, Accounted, Checked, Signing, Answered
<1>4. Quiet(r)
  BY <1>1 DEF Quiet, Leave, Finish, Publish, Typed, TypeOK
<1> QED BY <1>2, <1>3, <1>4, QuietKept

(* A request goes on with a job of its own.                                  *)
LEMMA GoesOnKept ==
  ASSUME Typed, Globals, NEW r \in Reqs, NEW loc \in Locs, NEW j \in Job,
         Goto(r, loc), job' = [job EXCEPT ![r] = j],
         UNCHANGED <<workload, table, changed, bereft, email>>,
         /\ pc'[r] = loc /\ job'[r] = j
         /\ UNCHANGED <<role, active, password, status, changed, email>>
         => Knows(r)'
  PROVE  Kept(r)
<1>1. Typed'
  BY DEF Typed, TypeOK, table, Goto
<1>2. Knows(r)'
  <2>1. pc'[r] = loc /\ job'[r] = j
    BY DEF Goto, Typed, TypeOK
  <2>2. UNCHANGED <<role, active, password, status, changed, email>>
    BY DEF table
  <2> QED BY <2>1, <2>2
<1>3. Quiet(r)
  BY DEF Quiet, Goto, Typed, TypeOK
<1> QED BY <1>1, <1>2, <1>3, QuietKept

LEMMA BeginsKept ==
  ASSUME Typed, Globals, NEW r \in Reqs, NEW op, NEW loc \in Locs, NEW j \in Job,
         Begin(r, op, j, loc),
         /\ pc'[r] = loc /\ job'[r] = j
         /\ UNCHANGED <<role, active, password, status, changed, email>>
         => Knows(r)'
  PROVE  Kept(r)
  BY GoesOnKept DEF Begin

LEMMA Starts ==
  ASSUME Typed, Globals, NEW r \in Reqs, Start(r) PROVE Kept(r)
<1>0. /\ None \notin Users \cup Competitions \cup Codes \cup Passwords
      /\ 0 \in 0..(MaxAttempts - 1) /\ Statuses \subseteq CompetitionStatus
      /\ \A u \in active \cup tokens : Exists(u)
  BY AccountsAssumption DEF AccountsAssumption, Globals, AccountsAreWhole, Exists, Typed,
                            TypeOK
<1> USE DEF Knows, Holds, Accounted, Checked, Signing, Authorised, AdminAt, Answered, Locs
<1>1. CASE Seed(r)
  <2>1. PICK loc \in {"seed admin", "seed competition"} : Begin(r, "seed", NoJob, loc)
    BY <1>1 DEF Seed
  <2> QED BY <2>1, NoJobTyped, BeginsKept
<1>2. ASSUME NEW u \in Users, NEW p \in Passwords, Register(r, u, p) PROVE Kept(r)
  <2> DEFINE j == [NoJob EXCEPT !.of = u, !.pwd = p]
  <2>1. Begin(r, "register", j, "find active")
    BY <1>2 DEF Register
  <2>2. j \in Job /\ j.of = u /\ j.pwd = p /\ j.by = None
    BY <1>0 DEF NoJob, Job
  <2> HIDE DEF j
  <2> QED BY <2>1, <2>2, BeginsKept
<1>3. ASSUME NEW u \in Users, NEW p \in Passwords, Login(r, u, p) PROVE Kept(r)
  <2> DEFINE j == [NoJob EXCEPT !.of = u]
  <2>1. Begin(r, "login", j, "compare") /\ role[u] # "ABSENT"
    BY <1>0, <1>3 DEF Login, Exists
  <2>2. j \in Job /\ j.of = u /\ j.by = None /\ j.pwd = None
    BY <1>0 DEF NoJob, Job
  <2> HIDE DEF j
  <2> QED BY <2>1, <2>2, BeginsKept DEF Exists
<1>4. ASSUME NEW a \in Users, NEW c \in Competitions, RegisterContestant(r, a, c)
      PROVE  Kept(r)
  <2> DEFINE j == [NoJob EXCEPT !.by = a, !.of = a, !.at = c]
  <2>1. j \in Job /\ j.of = a /\ j.by = a /\ j.pwd = None
    BY <1>0 DEF NoJob, Job
  <2>2. Begin(r, "join", j, "draw") /\ a \in active /\ role[a] # "ABSENT"
    BY <1>0, <1>4, <2>1 DEF RegisterContestant, Enter, JwtGuard, Exists
  <2> HIDE DEF j
  <2> QED BY <1>0, <2>1, <2>2, BeginsKept DEF Exists
<1>5. ASSUME NEW a \in Users, NEW p \in Passwords, NEW n \in Passwords,
             ChangePassword(r, a, p, n)
      PROVE  Kept(r)
  <2> DEFINE j == [NoJob EXCEPT !.by = a, !.of = a, !.given = p, !.pwd = n]
  <2>1. j \in Job /\ j.of = a /\ j.by = a /\ j.pwd = n /\ j.given = p
    BY <1>0 DEF NoJob, Job
  <2>2. Begin(r, "password", j, "verify") /\ a \in active /\ role[a] # "ABSENT"
    BY <1>0, <1>5, <2>1 DEF ChangePassword, Enter, JwtGuard, Exists
  <2> HIDE DEF j
  <2> QED BY <1>0, <2>1, <2>2, BeginsKept DEF Exists
<1>6. ASSUME NEW a \in Users, NEW u \in Users, NEW p \in Passwords,
             ResetUserPassword(r, a, u, p)
      PROVE  Kept(r)
  <2> DEFINE j == [NoJob EXCEPT !.by = a, !.of = u, !.pwd = p]
  <2>1. j \in Job /\ j.of = u /\ j.by = a /\ j.pwd = p /\ j.given = None
    BY <1>0 DEF NoJob, Job
  <2>2. /\ Begin(r, "reset", j, "write password") /\ a \in active /\ role[a] \in Admins
        /\ role[u] # "ABSENT"
    BY <1>6, <2>1 DEF ResetUserPassword, Enter, JwtGuard, RolesGuard, Exists
  <2> HIDE DEF j
  <2> QED BY <1>0, <2>1, <2>2, BeginsKept DEF Exists
<1>7. ASSUME NEW a \in Users, NEW u \in Users, NEW x \in {"active", "inactive"},
             SetUserStatus(r, a, u, x)
      PROVE  Kept(r)
  <2> DEFINE j == [NoJob EXCEPT !.by = a, !.of = u, !.what = x]
  <2>1. j \in Job /\ j.of = u /\ j.by = a /\ j.pwd = None
    BY <1>0 DEF NoJob, Job
  <2>2. Begin(r, "status", j, "write status") /\ a \in active /\ role[a] \in Admins
    BY <1>7, <2>1 DEF SetUserStatus, Enter, JwtGuard, RolesGuard
  <2> HIDE DEF j
  <2> QED BY <1>0, <2>1, <2>2, BeginsKept
<1>8. ASSUME NEW a \in Users, NEW c \in Competitions, NEW x \in Statuses,
             Create(r, a, c, x) \/ Update(r, a, c, x)
      PROVE  Kept(r)
  <2> DEFINE j == [NoJob EXCEPT !.by = a, !.at = c, !.what = x]
  <2>1. j \in Job /\ j.at = c /\ j.by = a /\ j.what = x /\ j.pwd = None
    BY <1>0 DEF NoJob, Job
  <2>2. PICK loc \in {"create", "update"} :
          /\ Begin(r, loc, j, loc) /\ a \in active /\ role[a] \in Admins
    BY <1>8, <2>1 DEF Create, Update, Enter, JwtGuard, RolesGuard
  <2>3. x \in CompetitionStatus
    BY <1>0
  <2> HIDE DEF j
  <2> QED BY <2>1, <2>2, <2>3, BeginsKept
<1>9. ASSUME NEW a \in Users, NEW c \in Competitions, Remove(r, a, c) PROVE Kept(r)
  <2> DEFINE j == [NoJob EXCEPT !.by = a, !.at = c]
  <2>1. j \in Job /\ j.at = c /\ j.by = a /\ j.pwd = None
    BY <1>0 DEF NoJob, Job
  <2>2. Begin(r, "remove", j, "remove") /\ a \in active /\ role[a] \in Admins
    BY <1>9, <2>1 DEF Remove, Enter, JwtGuard, RolesGuard
  <2> HIDE DEF j
  <2> QED BY <2>1, <2>2, BeginsKept
<1> QED BY <1>1, <1>2, <1>3, <1>4, <1>5, <1>6, <1>7, <1>8, <1>9 DEF Start

(***************************************************************************)
(* Registration up to its commit.                                          *)
(***************************************************************************)

(* findFirst finds something when there is something.                        *)
LEMMA NewestExists ==
  ASSUME Ordered, NEW S, NEW c0 \in Competitions, status[c0] \in S PROVE Newest(S) # {}
<1> DEFINE V == {c \in Competitions : status[c] \in S}
           Above(c) == {d \in V : <<d, c>> \in newer}
           T == {Above(c) : c \in V}
<1>0. IsFiniteSet(V)
  BY AccountsAssumption, FS_Subset DEF AccountsAssumption
<1>1. T \subseteq FiniteSubsetsOf(V) /\ T # {}
  <2>1. \A c \in V : Above(c) \in SUBSET V /\ IsFiniteSet(Above(c))
    BY <1>0, FS_Subset
  <2>2. c0 \in V
    OBVIOUS
  <2>3. \A c \in V : Above(c) \in FiniteSubsetsOf(V)
    BY <2>1 DEF FiniteSubsetsOf
  <2> HIDE DEF V, Above
  <2> QED BY <2>2, <2>3
<1>2. IsWellFoundedOn(StrictSubsetOrdering(V), FiniteSubsetsOf(V))
  BY <1>0, FS_StrictSubsetOrderingWellFounded
<1>3. PICK X \in T : \A U \in T : ~ (<<U, X>> \in StrictSubsetOrdering(V))
  <2> HIDE DEF T
  <2> QED BY <1>1, <1>2, WFMin
<1>4. PICK c \in V : X = Above(c)
  OBVIOUS
<1>5. ASSUME NEW d \in V, <<d, c>> \in newer PROVE FALSE
  <2>1. /\ Above(d) \subseteq Above(c) /\ d \in Above(c) /\ d \notin Above(d)
    BY <1>5 DEF Ordered
  <2>2. Above(d) \in T /\ Above(d) \in SUBSET V /\ Above(c) \in SUBSET V
    <3>1. Above(d) \in SUBSET V /\ Above(c) \in SUBSET V
      OBVIOUS
    <3> HIDE DEF Above
    <3> QED BY <3>1
  <2> HIDE DEF T, Above
  <2>3. <<Above(d), Above(c)>> \in StrictSubsetOrdering(V)
    BY <2>1, <2>2 DEF StrictSubsetOrdering
  <2> QED BY <1>3, <1>4, <2>2, <2>3
<1> QED BY <1>5 DEF Newest

LEMMA JobIs ==
  ASSUME Typed, NEW r \in Reqs PROVE job[r] \in Job
  BY DEF Typed, TypeOK

LEMMA ChoosesKept ==
  ASSUME Typed, Globals, NEW r \in Reqs, Knows(r), pc[r] \in {"find active", "find published"},
         NEW c \in Competitions, Choose(r, c), status[c] \in PubliclyVisible,
         status[c] = "PUBLISHED" => NoneActive(r)
  PROVE  Kept(r)
<1> DEFINE j == [job[r] EXCEPT !.at = c]
<1>1. /\ j \in Job /\ j.at = c /\ j.by = job[r].by /\ j.of = job[r].of
      /\ j.pwd = job[r].pwd
  BY JobIs DEF Job
<1>2. Goto(r, "insert user") /\ job' = [job EXCEPT ![r] = j]
      /\ UNCHANGED <<workload, table, changed, bereft, email>>
  BY DEF Choose
<1> HIDE DEF j
<1>3. ASSUME pc'[r] = "insert user", job'[r] = j,
             UNCHANGED <<role, active, password, status, changed, email>>
      PROVE  Knows(r)'
  <2>1. Holds(r)' /\ Accounted(r)'
    BY <1>1, <1>3 DEF Knows, Holds, Accounted, Signing
  <2>2. NoneActive(r)' <=> NoneActive(r)
    BY <1>3 DEF NoneActive
  <2>3. Chosen(r)'
    BY <1>1, <1>3, <2>2 DEF Chosen
  <2>4. j.by # None => Authorised(r)'
    BY <1>1, <1>3 DEF Knows, Checked, Authorised, AdminAt, Answered
  <2> QED BY <1>3, <2>1, <2>3, <2>4 DEF Knows, Checked
<1> QED BY <1>1, <1>2, <1>3, GoesOnKept DEF Locs

LEMMA FindsKept ==
  ASSUME Typed, Globals, NEW r \in Reqs, Knows(r), FindActive(r) \/ FindPublished(r)
  PROVE  Kept(r)
<1>1. CASE Leave(r, "idle")
  BY <1>1, LeavesKept DEF Answered
<1>2. ASSUME NEW c \in Newest({"ACTIVE"}), pc[r] = "find active", Choose(r, c) PROVE Kept(r)
  BY <1>2, ChoosesKept DEF Newest, PubliclyVisible
<1>3. ASSUME NEW c \in Newest({"PUBLISHED"}), pc[r] = "find published", Choose(r, c)
      PROVE  Kept(r)
  <2>1. NoneActive(r)
    BY <1>3 DEF Knows, Checked
  <2> QED BY <1>3, <2>1, ChoosesKept DEF Newest, PubliclyVisible
<1>4. CASE pc[r] = "find active" /\ Newest({"ACTIVE"}) = {} /\ Move(r, "find published")
  <2>1. \A c \in Competitions : status[c] # "ACTIVE"
    BY <1>4, NewestExists DEF Globals
  <2>2. ASSUME pc'[r] = "find published", job'[r] = job[r],
               UNCHANGED <<role, active, password, status, changed, email>>
        PROVE  Knows(r)'
    <3>1. Holds(r)' /\ Accounted(r)'
      BY <1>4, <2>2 DEF Knows, Holds, Accounted, Signing
    <3>2. NoneActive(r)'
      BY <2>1, <2>2 DEF NoneActive
    <3>3. job[r].by # None => Authorised(r)'
      BY <1>4, <2>2 DEF Knows, Checked, Authorised, AdminAt, Answered
    <3> QED BY <2>2, <3>1, <3>2, <3>3 DEF Knows, Checked, Signing
  <2>3. job' = [job EXCEPT ![r] = job[r]] /\ Goto(r, "find published")
        /\ UNCHANGED <<workload, table, changed, bereft, email>>
    BY <1>4 DEF Move, Typed, TypeOK
  <2>4. "find published" \in Locs
    BY DEF Locs
  <2> QED BY <2>2, <2>3, <2>4, JobIs, GoesOnKept
<1> QED BY <1>1, <1>2, <1>3, <1>4 DEF FindActive, FindPublished

LEMMA InsertKept ==
  ASSUME Typed, Globals, NEW r \in Reqs, Knows(r), InsertUser(r) PROVE Kept(r)
<1> DEFINE u == job[r].of
<1>1. CASE Leave(r, "failed")
  BY <1>1, LeavesKept DEF Answered
<1>2. CASE ~Leave(r, "failed")
  <2>1. /\ pc[r] = "insert user" /\ email[u] = None /\ ~Exists(u)
        /\ pc' = [pc EXCEPT ![r] = "draw"] /\ email' = [email EXCEPT ![u] = r]
        /\ UNCHANGED <<workload, table, job, changed, bereft>>
    BY <1>2 DEF InsertUser, Goto
  <2>2. u \in Users /\ job[r].pwd \in Passwords
    BY <2>1 DEF Knows, Holds
  <2>3. UNCHANGED <<role, active, password, status, newer, profile, tokens, job, changed>>
    BY <2>1 DEF table
  <2>4. Typed'
    BY <2>1, <2>2, <2>3 DEF Typed, TypeOK, Locs
  <2>5. pc'[r] = "draw" /\ email'[u] = r /\ job[r].pwd # None
    BY <2>1, <2>2, AccountsAssumption DEF Typed, TypeOK, AccountsAssumption
  <2>6. Holds(r)' /\ Accounted(r)'
    BY <2>1, <2>2, <2>3, <2>5 DEF Holds, Accounted, Exists, Signing
  <2>7. Chosen(r)'
    <3>1. NoneActive(r)' <=> NoneActive(r)
      BY <2>3 DEF NoneActive
    <3> QED BY <2>1, <2>3, <3>1 DEF Knows, Checked, Chosen
  <2>8. job[r].by # None => Authorised(r)'
    BY <2>1, <2>3, <2>5 DEF Knows, Checked, Authorised, AdminAt, Answered
  <2>9. Knows(r)'
    BY <2>3, <2>5, <2>6, <2>7, <2>8 DEF Knows, Checked
  <2>10. Quiet(r)
    <3>1. ASSUME NEW q \in Reqs \ {r}, NEW v \in Users, email[v] = q PROVE email'[v] = q
      <4>1. v # u
        BY <2>1, <3>1, AccountsAssumption DEF AccountsAssumption
      <4> QED BY <2>1, <3>1, <4>1 DEF Typed, TypeOK
    <3>2. \A q \in Reqs \ {r} : pc'[q] = pc[q] /\ job'[q] = job[q] /\ changed'[q] = changed[q]
      BY <2>1 DEF Typed
    <3> QED BY <2>1, <3>1, <3>2 DEF Quiet
  <2> QED BY <2>4, <2>9, <2>10, QuietKept
<1> QED BY <1>1, <1>2

LEMMA DrawKept ==
  ASSUME Typed, Globals, NEW r \in Reqs, Knows(r), NEW k \in Codes, DrawCode(r, k)
  PROVE  Kept(r)
<1>1. CASE Leave(r, "idle")
  BY <1>1, LeavesKept DEF Answered
<1>2. CASE ~Leave(r, "idle")
  <2> DEFINE loc == IF Taken(k) THEN "draw"
                    ELSE IF job[r].pwd = None THEN "join" ELSE "sign up"
             j == IF Taken(k) THEN [job[r] EXCEPT !.tries = @ + 1]
                  ELSE [job[r] EXCEPT !.code = k]
  <2>1. /\ pc[r] = "draw" /\ (Taken(k) => job[r].tries + 1 # MaxAttempts)
        /\ Goto(r, loc) /\ job' = [job EXCEPT ![r] = j]
        /\ UNCHANGED <<workload, table, changed, bereft, email>>
    BY <1>2 DEF DrawCode, Goto, Typed, TypeOK
  <2>2. Taken(k) => job[r].tries + 1 \in 0..(MaxAttempts - 1)
    <3>1. job[r].tries \in 0..(MaxAttempts - 1) /\ MaxAttempts \in Nat \ {0}
      BY JobIs, AccountsAssumption DEF Job, AccountsAssumption
    <3> QED BY <2>1, <3>1
  <2>3. /\ j \in Job /\ j.at = job[r].at /\ j.by = job[r].by /\ j.of = job[r].of
        /\ j.pwd = job[r].pwd /\ (~Taken(k) => j.code = k)
    BY <2>2, JobIs DEF Job
  <2>4. loc \in Locs
    BY DEF Locs
  <2>5. /\ loc \in {"draw", "sign up", "join"} /\ (loc # "draw" => ~Taken(k))
        /\ (loc = "sign up" => job[r].pwd # None) /\ (loc = "join" => job[r].pwd = None)
    OBVIOUS
  <2> HIDE DEF j, loc
  <2>6. ASSUME pc'[r] = loc, job'[r] = j,
               UNCHANGED <<role, active, password, status, changed, email>>
        PROVE  Knows(r)'
    <3>0. job[r].pwd # None => job[r].pwd \in Passwords
      BY JobIs DEF Job
    <3>1. Holds(r)'
      BY <2>1, <2>3, <2>5, <2>6, <3>0 DEF Knows, Holds
    <3>2. Accounted(r)'
      BY <2>1, <2>3, <2>5, <2>6 DEF Knows, Accounted, Signing, Exists
    <3>3. NoneActive(r)' <=> NoneActive(r)
      BY <2>6 DEF NoneActive
    <3>4. Signing(r)' => Chosen(r)'
      BY <2>1, <2>3, <2>6, <3>3 DEF Knows, Checked, Chosen, Signing
    <3>5. ASSUME j.by # None PROVE Authorised(r)'
      <4>1. Authorised(r)
        <5>1. pc[r] \notin Answered /\ job[r].by # None
          BY <2>1, <2>3, <3>5 DEF Answered
        <5> QED BY <5>1 DEF Knows, Checked
      <4>2. ~AdminAt(r)'
        BY <2>5, <2>6 DEF AdminAt
      <4> QED BY <2>3, <2>6, <4>1, <4>2 DEF Authorised
    <3>6. Checked(r)'
      <4>1. pc'[r] \notin {"find published", "insert user", "write password"}
        BY <2>5, <2>6
      <4>2. job'[r].by = j.by
        BY <2>6
      <4> QED BY <3>4, <3>5, <4>1, <4>2 DEF Checked
    <3> QED BY <3>1, <3>2, <3>6 DEF Knows
  <2> QED BY <2>1, <2>3, <2>4, <2>6, GoesOnKept
<1> QED BY <1>1, <1>2

LEMMA VerifyKept ==
  ASSUME Typed, Globals, NEW r \in Reqs, Knows(r), VerifyPassword(r) PROVE Kept(r)
<1>1. CASE Leave(r, "idle")
  BY <1>1, LeavesKept DEF Answered
<1>2. CASE ~Leave(r, "idle")
  <2>1. /\ pc[r] = "verify" /\ password[job[r].of] = job[r].given
        /\ Move(r, "write password")
    BY <1>2 DEF VerifyPassword
  <2>2. job[r].given # None
    BY <2>1, AccountsAssumption DEF Knows, Holds, AccountsAssumption
  <2>3. ASSUME pc'[r] = "write password", job'[r] = job[r],
               UNCHANGED <<role, active, password, status, changed, email>>
        PROVE  Knows(r)'
    <3>1. Holds(r)' /\ Accounted(r)'
      BY <2>1, <2>3 DEF Knows, Holds, Accounted, Signing, Exists
    <3>2. job[r].by # None => Authorised(r)'
      BY <2>1, <2>2, <2>3 DEF Knows, Checked, Authorised, AdminAt, Answered
    <3> QED BY <2>1, <2>3, <3>1, <3>2 DEF Knows, Checked, Signing
  <2>4. job' = [job EXCEPT ![r] = job[r]] /\ Goto(r, "write password")
        /\ UNCHANGED <<workload, table, changed, bereft, email>>
    BY <2>1 DEF Move, Typed, TypeOK
  <2>5. "write password" \in Locs
    BY DEF Locs
  <2> QED BY <2>3, <2>4, <2>5, JobIs, GoesOnKept
<1> QED BY <1>1, <1>2

(***************************************************************************)
(* Steps that write.                                                       *)
(***************************************************************************)
Done(r) == pc'[r] \in Answered /\ pc' \in [Reqs -> Locs] /\ job' \in [Reqs -> Job]

LEMMA DoneKnows ==
  ASSUME NEW r \in Reqs, Done(r) PROVE Knows(r)'
  BY AnsweredKnows DEF Done, Knows, Holds, Accounted, Checked, Signing, Answered

LEMMA Finishes ==
  ASSUME Typed, NEW r \in Reqs, NEW facts, Finish(r, "idle", facts)
  PROVE  /\ Done(r) /\ workload' = workload
         /\ email' \in [Users -> Reqs \cup {None}]
         /\ \A q \in Reqs \ {r} :
              /\ pc'[q] = pc[q] /\ job'[q] = job[q]
              /\ pc[q] \notin Answered => changed'[q] = changed[q] \cup facts
              /\ \A u \in Users : email[u] = q => email'[u] = q
<1>1. "idle" \in Answered /\ "idle" \in Locs
  BY DEF Answered, Locs
<1> QED BY <1>1, NoJobTyped DEF Finish, Goto, Publish, Done, Typed, TypeOK

(* A step that changes at most one account.                                  *)
LEMMA AccountNoticed ==
  ASSUME Typed, NEW r \in Reqs, NEW u \in Users, NEW q \in Reqs \ {r},
         pc'[q] = pc[q], job'[q] = job[q], status' = status,
         pc[q] \notin Answered => changed'[q] = changed[q] \cup {<<"account", u>>},
         \A w \in Users : email[w] = q => email'[w] = q,
         \A w \in Users \ {u} : role'[w] = role[w] /\ password'[w] = password[w],
         \A w \in Users \ {u} : (w \in active' <=> w \in active),
         Exists(u) => role'[u] # "ABSENT" /\ password'[u] = password[u],
         email[u] # q
  PROVE  Notices(q)
  BY DEF Notices, Exists

LEMMA OrderedKept ==
  ASSUME Ordered, UNCHANGED <<status, newer>> PROVE Ordered'
  BY DEF Ordered

(* A step that changes neither roles nor profiles.                           *)
LEMMA GlobalsKept ==
  ASSUME Globals, UNCHANGED <<role, status, newer, profile, bereft>>,
         \A w \in Users : ~Exists(w) => w \notin active' \cup tokens' /\ password'[w] = None
  PROVE  Globals'
<1>1. AccountsAreWhole' /\ CodesUnique'
  BY DEF Globals, AccountsAreWhole, CodesUnique, Exists
<1> QED BY <1>1, OrderedKept DEF Globals

LEMMA ProfileAdded ==
  ASSUME TypeOK, CodesUnique, NEW j \in Job, j.of \in Users, j.code \in Codes, Insertable(j),
         AddProfile(j)
  PROVE  /\ profile' \in [Users -> [Competitions -> Codes \cup {None}]] /\ CodesUnique'
         /\ \E c \in Competitions : profile'[j.of][c] # None
         /\ \A u \in Users \ {j.of} : profile'[u] = profile[u]
<1>1. j.at \in Competitions /\ j.code # None
  BY AccountsAssumption DEF Job, Insertable, AccountsAssumption
<1>2. profile' = [profile EXCEPT ![j.of][j.at] = j.code]
  BY DEF AddProfile
<1>3. profile' \in [Users -> [Competitions -> Codes \cup {None}]]
  BY <1>1, <1>2 DEF TypeOK
<1>4. \A u \in Users, c \in Competitions :
         /\ profile[u][c] # j.code
         /\ profile'[u][c] = IF u = j.of /\ c = j.at THEN j.code ELSE profile[u][c]
  BY <1>1, <1>2 DEF TypeOK, Insertable, Taken
<1>5. CodesUnique'
  BY <1>4 DEF CodesUnique
<1>6. profile'[j.of][j.at] # None
  BY <1>1, <1>4
<1>7. \A u \in Users \ {j.of} : profile'[u] = profile[u]
  BY <1>2 DEF TypeOK
<1> QED BY <1>1, <1>3, <1>5, <1>6, <1>7

LEMMA SignUpKept ==
  ASSUME IInv, NEW r \in Reqs, SignUp(r) PROVE Kept(r)
<1>0. Typed /\ Globals /\ Knows(r)
  BY DEF IInv
<1>1. CASE Leave(r, "failed")
  BY <1>0, <1>1, LeavesKept DEF Answered
<1>2. CASE ~Leave(r, "failed")
  <2> DEFINE j == job[r]
             u == j.of
  <2>1. /\ pc[r] = "sign up" /\ Insertable(j) /\ AddProfile(j)
        /\ role' = [role EXCEPT ![u] = "CONTESTANT"] /\ active' = active \cup {u}
        /\ password' = [password EXCEPT ![u] = j.pwd] /\ tokens' = tokens \cup {u}
        /\ Finish(r, "idle", {<<"account", u>>})
        /\ UNCHANGED <<status, newer, bereft>>
    BY <1>2 DEF SignUp
  <2>2. j \in Job /\ u \in Users /\ j.pwd \in Passwords /\ j.code \in Codes
    BY <1>0, <2>1, JobIs DEF Knows, Holds
  <2>3. ~Exists(u) /\ email[u] = r
    <3>1. j.pwd # None
      BY <2>2, AccountsAssumption DEF AccountsAssumption
    <3> QED BY <1>0, <2>1, <3>1 DEF Knows, Accounted, Signing
  <2> HIDE DEF j, u
  <2>4. /\ profile' \in [Users -> [Competitions -> Codes \cup {None}]] /\ CodesUnique'
        /\ \E c \in Competitions : profile'[u][c] # None
        /\ \A w \in Users \ {u} : profile'[w] = profile[w]
    BY <1>0, <2>1, <2>2, ProfileAdded DEF Globals, Typed, u
  <2>5. Done(r) /\ workload' = workload /\ email' \in [Users -> Reqs \cup {None}]
    BY <1>0, <2>1, Finishes
  <2>6. Typed'
    BY <1>0, <2>1, <2>2, <2>4, <2>5 DEF Typed, TypeOK, Done, Roles
  <2>7. Ordered'
    BY <1>0, <2>1, OrderedKept DEF Globals
  <2>8. AccountsAreWhole'
    <3>1. DOMAIN role = Users /\ DOMAIN password = Users
      BY <1>0 DEF Typed, TypeOK
    <3>2. /\ role' = [role EXCEPT ![u] = "CONTESTANT"] /\ active' = active \cup {u}
          /\ password' = [password EXCEPT ![u] = j.pwd] /\ tokens' = tokens \cup {u}
      BY <2>1
    <3>3. /\ role'[u] = "CONTESTANT"
          /\ \A w \in Users \ {u} : role'[w] = role[w] /\ password'[w] = password[w]
      BY <2>2, <3>1, <3>2
    <3>4. \A w \in Users \ {u} : w \in active' \cup tokens' <=> w \in active \cup tokens
      BY <3>2
    <3> SUFFICES ASSUME NEW w \in Users
                 PROVE  LET entered == \E c \in Competitions : profile'[w][c] # None
                        IN /\ role'[w] = "CONTESTANT" => entered \/ w \in bereft'
                           /\ entered => role'[w] \notin {"ABSENT", "USER"}
                           /\ role'[w] = "ABSENT" =>
                                w \notin active' \cup tokens' /\ password'[w] = None
      BY DEF AccountsAreWhole
    <3>5. CASE w = u
      BY <2>4, <3>3, <3>5
    <3>6. CASE w # u
      <4>1. /\ profile'[w] = profile[w] /\ bereft' = bereft
            /\ role'[w] = role[w] /\ password'[w] = password[w]
            /\ w \in active' \cup tokens' <=> w \in active \cup tokens
        BY <2>1, <2>4, <3>3, <3>4, <3>6
      <4> QED BY <1>0, <4>1 DEF Globals, AccountsAreWhole
    <3> QED BY <3>5, <3>6
  <2>9. ASSUME NEW q \in Reqs \ {r} PROVE Notices(q)
    <3>1. /\ pc'[q] = pc[q] /\ job'[q] = job[q]
          /\ pc[q] \notin Answered => changed'[q] = changed[q] \cup {<<"account", u>>}
          /\ \A w \in Users : email[w] = q => email'[w] = q
      BY <1>0, <2>1, Finishes
    <3>2. /\ \A w \in Users \ {u} : role'[w] = role[w] /\ password'[w] = password[w]
          /\ \A w \in Users \ {u} : (w \in active' <=> w \in active)
      BY <1>0, <2>1 DEF Typed, TypeOK
    <3> QED BY <1>0, <2>1, <2>2, <2>3, <3>1, <3>2, AccountNoticed
  <2> QED BY <2>4, <2>5, <2>6, <2>7, <2>8, <2>9, DoneKnows DEF Kept, Globals
<1> QED BY <1>1, <1>2

LEMMA JoinKept ==
  ASSUME IInv, NEW r \in Reqs, Join(r) PROVE Kept(r)
<1>0. Typed /\ Globals /\ Knows(r)
  BY DEF IInv
<1>1. CASE Leave(r, "failed")
  BY <1>0, <1>1, LeavesKept DEF Answered
<1>2. CASE ~Leave(r, "failed")
  <2> DEFINE j == job[r]
             u == j.of
  <2>1. /\ pc[r] = "join" /\ Insertable(j) /\ AddProfile(j)
        /\ role' = [role EXCEPT ![u] = IF @ = "USER" THEN "CONTESTANT" ELSE @]
        /\ Finish(r, "idle", {<<"account", u>>})
        /\ UNCHANGED <<active, password, status, newer, tokens, bereft>>
    BY <1>2 DEF Join
  <2>2. j \in Job /\ u \in Users /\ j.code \in Codes /\ Exists(u)
    BY <1>0, <2>1, JobIs DEF Knows, Holds, Accounted
  <2> HIDE DEF j, u
  <2>4. /\ profile' \in [Users -> [Competitions -> Codes \cup {None}]] /\ CodesUnique'
        /\ \E c \in Competitions : profile'[u][c] # None
        /\ \A w \in Users \ {u} : profile'[w] = profile[w]
    BY <1>0, <2>1, <2>2, ProfileAdded DEF Globals, Typed, u
  <2>5. Done(r) /\ workload' = workload /\ email' \in [Users -> Reqs \cup {None}]
    BY <1>0, <2>1, Finishes
  <2>6. Typed'
    BY <1>0, <2>1, <2>2, <2>4, <2>5 DEF Typed, TypeOK, Done, Roles
  <2>7. Ordered'
    BY <1>0, <2>1, OrderedKept DEF Globals
  <2>3. /\ role'[u] \notin {"ABSENT", "USER"}
        /\ \A w \in Users \ {u} : role'[w] = role[w]
    BY <1>0, <2>1, <2>2 DEF Typed, TypeOK, Exists
  <2>8. AccountsAreWhole'
    BY <1>0, <2>1, <2>3, <2>4 DEF Globals, AccountsAreWhole
  <2>9. ASSUME NEW q \in Reqs \ {r} PROVE Notices(q)
    <3>1. /\ pc'[q] = pc[q] /\ job'[q] = job[q]
          /\ pc[q] \notin Answered => changed'[q] = changed[q] \cup {<<"account", u>>}
          /\ \A w \in Users : email[w] = q => email'[w] = q
      BY <1>0, <2>1, Finishes
    <3> QED BY <2>1, <2>2, <2>3, <3>1 DEF Notices, Exists
  <2> QED BY <2>4, <2>5, <2>6, <2>7, <2>8, <2>9, DoneKnows DEF Kept, Globals
<1> QED BY <1>1, <1>2

LEMMA TokenKept ==
  ASSUME IInv, NEW r \in Reqs, IssueToken(r) PROVE Kept(r)
<1>0. Typed /\ Globals /\ Knows(r)
  BY DEF IInv
<1>1. /\ pc[r] = "compare" /\ tokens' = tokens \cup {job[r].of} /\ Finish(r, "idle", {})
      /\ UNCHANGED <<role, active, password, status, newer, profile, bereft>>
  BY DEF IssueToken
<1>2. job[r].of \in Users /\ Exists(job[r].of)
  BY <1>0, <1>1 DEF Knows, Holds, Accounted
<1>3. Done(r) /\ workload' = workload /\ email' \in [Users -> Reqs \cup {None}]
  BY <1>0, <1>1, Finishes
<1>4. Typed'
  BY <1>0, <1>1, <1>2, <1>3 DEF Typed, TypeOK, Done
<1>5. Globals'
  <2>1. \A w \in Users : ~Exists(w) => w \notin active' \cup tokens' /\ password'[w] = None
    BY <1>0, <1>1, <1>2 DEF Globals, AccountsAreWhole, Exists
  <2> QED BY <1>0, <1>1, <2>1, GlobalsKept
<1>6. ASSUME NEW q \in Reqs \ {r} PROVE Notices(q)
  <2>1. /\ pc'[q] = pc[q] /\ job'[q] = job[q]
        /\ pc[q] \notin Answered => changed[q] \subseteq changed'[q]
        /\ \A w \in Users : email[w] = q => email'[w] = q
    BY <1>0, <1>1, Finishes
  <2> QED BY <1>1, <2>1 DEF Notices, Exists
<1> QED BY <1>3, <1>4, <1>5, <1>6, DoneKnows DEF Kept

LEMMA WritePasswordKept ==
  ASSUME IInv, NEW r \in Reqs, WritePassword(r) PROVE Kept(r)
<1> DEFINE u == job[r].of
<1>0. Typed /\ Globals /\ Knows(r)
  BY DEF IInv
<1>1. /\ pc[r] = "write password" /\ password' = [password EXCEPT ![u] = job[r].pwd]
      /\ Finish(r, "idle", {<<"password", u>>})
      /\ UNCHANGED <<role, active, status, newer, profile, tokens, bereft>>
  BY DEF WritePassword
<1>2. u \in Users /\ Exists(u) /\ job[r].pwd \in Passwords
  BY <1>0, <1>1 DEF Knows, Holds, Accounted
<1> HIDE DEF u
<1>3. Done(r) /\ workload' = workload /\ email' \in [Users -> Reqs \cup {None}]
  BY <1>0, <1>1, Finishes
<1>4. Typed'
  BY <1>0, <1>1, <1>2, <1>3 DEF Typed, TypeOK, Done
<1>5. \A w \in Users \ {u} : password'[w] = password[w]
  BY <1>0, <1>1 DEF Typed, TypeOK
<1>6. Globals'
  <2>1. \A w \in Users : ~Exists(w) => w \notin active' \cup tokens' /\ password'[w] = None
    BY <1>0, <1>1, <1>2, <1>5 DEF Globals, AccountsAreWhole, Exists
  <2> QED BY <1>0, <1>1, <2>1, GlobalsKept
<1>7. ASSUME NEW q \in Reqs \ {r} PROVE Notices(q)
  <2>1. /\ pc'[q] = pc[q] /\ job'[q] = job[q]
        /\ pc[q] \notin Answered => changed'[q] = changed[q] \cup {<<"password", u>>}
        /\ \A w \in Users : email[w] = q => email'[w] = q
    BY <1>0, <1>1, Finishes
  <2> QED BY <1>1, <1>5, <2>1 DEF Notices, Exists
<1> QED BY <1>3, <1>4, <1>6, <1>7, DoneKnows DEF Kept

LEMMA UserStatusKept ==
  ASSUME IInv, NEW r \in Reqs, UpdateUserStatus(r) PROVE Kept(r)
<1>0. Typed /\ Globals /\ Knows(r)
  BY DEF IInv
<1>1. CASE Leave(r, "idle")
  BY <1>0, <1>1, LeavesKept DEF Answered
<1>2. CASE ~Leave(r, "idle")
  <2> DEFINE u == job[r].of
  <2>1. /\ pc[r] = "write status" /\ Exists(u)
        /\ active' = active \cup {u} \/ active' = active \ {u}
        /\ Finish(r, "idle", {<<"account", u>>})
        /\ UNCHANGED <<role, password, status, newer, profile, tokens, bereft>>
    BY <1>2 DEF UpdateUserStatus
  <2>2. u \in Users
    BY <1>0, <2>1 DEF Knows, Holds
  <2> HIDE DEF u
  <2>3. Done(r) /\ workload' = workload /\ email' \in [Users -> Reqs \cup {None}]
    BY <1>0, <2>1, Finishes
  <2>4. Typed'
    BY <1>0, <2>1, <2>2, <2>3 DEF Typed, TypeOK, Done
  <2>5. Globals'
    <3>1. \A w \in Users : ~Exists(w) => w \notin active' \cup tokens' /\ password'[w] = None
      BY <1>0, <2>1, <2>2 DEF Globals, AccountsAreWhole, Exists
    <3> QED BY <1>0, <2>1, <3>1, GlobalsKept
  <2>6. ASSUME NEW q \in Reqs \ {r} PROVE Notices(q)
    <3>1. /\ pc'[q] = pc[q] /\ job'[q] = job[q]
          /\ pc[q] \notin Answered => changed'[q] = changed[q] \cup {<<"account", u>>}
          /\ \A w \in Users : email[w] = q => email'[w] = q
      BY <1>0, <2>1, Finishes
    <3> QED BY <2>1, <3>1 DEF Notices, Exists
  <2> QED BY <2>3, <2>4, <2>5, <2>6, DoneKnows DEF Kept
<1> QED BY <1>1, <1>2

LEMMA CompetitionKept ==
  ASSUME IInv, NEW r \in Reqs, NEW c \in Competitions, NEW x \in CompetitionStatus,
         WriteCompetition(r, c, x)
  PROVE  Kept(r)
<1>0. Typed /\ Globals /\ x # "ABSENT"
  BY DEF IInv, CompetitionStatus
<1>1. /\ status' = [status EXCEPT ![c] = x]
      /\ newer' = IF status[c] # "ABSENT" THEN newer
                  ELSE newer \cup ({c} \X {d \in Competitions : status[d] # "ABSENT"})
      /\ Finish(r, "idle", {<<"status", c>>})
      /\ UNCHANGED <<role, active, password, profile, tokens, bereft>>
  BY DEF WriteCompetition
<1>2. Done(r) /\ workload' = workload /\ email' \in [Users -> Reqs \cup {None}]
  BY <1>0, <1>1, Finishes
<1>3. status' \in [Competitions -> CompetitionStatus \cup {"ABSENT"}]
      /\ \A d \in Competitions : status'[d] = IF d = c THEN x ELSE status[d]
  BY <1>0, <1>1 DEF Typed, TypeOK
<1>4. Typed'
  BY <1>0, <1>1, <1>2, <1>3 DEF Typed, TypeOK, Done
<1>5. Ordered'
  <2>1. CASE status[c] # "ABSENT"
    BY <1>0, <1>1, <1>3, <2>1 DEF Globals, Ordered
  <2>2. CASE status[c] = "ABSENT"
    <3>1. \A d, e \in Competitions : <<d, e>> \in newer' <=>
            <<d, e>> \in newer \/ (d = c /\ status[e] # "ABSENT")
      BY <1>1, <2>2
    <3>2. \A d \in Competitions : <<c, d>> \notin newer /\ <<d, c>> \notin newer
      BY <1>0, <2>2 DEF Globals, Ordered
    <3> QED BY <1>0, <1>3, <2>2, <3>1, <3>2 DEF Globals, Ordered
  <2> QED BY <2>1, <2>2
<1>6. AccountsAreWhole' /\ CodesUnique'
  BY <1>0, <1>1 DEF Globals, AccountsAreWhole, CodesUnique
<1>7. ASSUME NEW q \in Reqs \ {r} PROVE Notices(q)
  <2>1. /\ pc'[q] = pc[q] /\ job'[q] = job[q]
        /\ pc[q] \notin Answered => changed'[q] = changed[q] \cup {<<"status", c>>}
        /\ \A w \in Users : email[w] = q => email'[w] = q
    BY <1>0, <1>1, Finishes
  <2> QED BY <1>1, <1>3, <2>1 DEF Notices, Exists
<1> QED BY <1>2, <1>4, <1>5, <1>6, <1>7, DoneKnows DEF Kept, Globals

LEMMA WritesCompetitionKept ==
  ASSUME IInv, NEW r \in Reqs, CreateRow(r) \/ UpdateRow(r) \/ SeedCompetition(r)
  PROVE  Kept(r)
<1>0. Typed /\ Globals /\ Knows(r)
  BY DEF IInv
<1>1. CASE Leave(r, "idle") \/ Leave(r, "failed")
  BY <1>0, <1>1, LeavesKept DEF Answered
<1>2. CASE SeedCompetition(r)
  <2>1. Slug \in Competitions /\ "ACTIVE" \in CompetitionStatus
    BY AccountsAssumption DEF AccountsAssumption, CompetitionStatus
  <2> QED BY <1>2, <2>1, CompetitionKept DEF SeedCompetition
<1>3. CASE CreateRow(r) /\ ~Leave(r, "idle")
  <2>1. pc[r] = "create" /\ WriteCompetition(r, job[r].at, job[r].what)
    BY <1>3 DEF CreateRow
  <2>2. job[r].at \in Competitions /\ job[r].what \in CompetitionStatus
    BY <1>0, <2>1 DEF Knows, Holds
  <2> QED BY <2>1, <2>2, CompetitionKept
<1>4. CASE UpdateRow(r) /\ ~Leave(r, "failed")
  <2>1. /\ pc[r] = "update" /\ job[r].at # None
        /\ WriteCompetition(r, job[r].at, job[r].what)
    BY <1>4 DEF UpdateRow
  <2>2. job[r].at \in Competitions /\ job[r].what \in CompetitionStatus
    BY <1>0, <2>1, JobIs DEF Knows, Holds, Job
  <2> QED BY <2>1, <2>2, CompetitionKept
<1> QED BY <1>1, <1>2, <1>3, <1>4

LEMMA RemoveKept ==
  ASSUME IInv, NEW r \in Reqs, RemoveRow(r) PROVE Kept(r)
<1>0. Typed /\ Globals /\ Knows(r)
  BY DEF IInv
<1>1. CASE Leave(r, "failed")
  BY <1>0, <1>1, LeavesKept DEF Answered
<1>2. CASE ~Leave(r, "failed")
  <2> DEFINE c == job[r].at
  <2>1. /\ pc[r] = "remove" /\ c # None /\ pc' = [pc EXCEPT ![r] = "idle"]
        /\ status' = [status EXCEPT ![c] = "ABSENT"]
        /\ newer' = {pair \in newer : c \notin {pair[1], pair[2]}}
        /\ profile' = [u \in Users |-> [profile[u] EXCEPT ![c] = None]]
        /\ bereft' = bereft \cup {u \in Users : profile[u][c] # None}
        /\ job' = [q \in Reqs |-> IF q = r THEN NoJob
                                  ELSE IF job[q].at = c /\ pc[q] # "create"
                                  THEN [job[q] EXCEPT !.at = None] ELSE job[q]]
        /\ Publish(r, {<<"status", c>>})
        /\ UNCHANGED <<workload, role, active, password, tokens, email>>
    BY <1>2 DEF RemoveRow, Goto
  <2>2. c \in Competitions
    BY <1>0, <2>1, JobIs DEF Job
  <2> HIDE DEF c
  <2>3. \A q \in Reqs : job[q] \in Job /\ [job[q] EXCEPT !.at = None] \in Job
    <3>1. \A q \in Reqs : job[q] \in Job
      BY <1>0, JobIs
    <3>2. \A j \in Job : [j EXCEPT !.at = None] \in Job
      BY DEF Job
    <3> QED BY <3>1, <3>2
  <2>4. job' \in [Reqs -> Job]
    BY <2>1, <2>3, NoJobTyped
  <2>5. Done(r)
    BY <1>0, <2>1, <2>4 DEF Done, Typed, Answered, Locs
  <2>6. \A u \in Users, d \in Competitions :
           profile'[u][d] = IF d = c THEN None ELSE profile[u][d]
    BY <1>0, <2>1, <2>2 DEF Typed, TypeOK
  <2>7. profile' \in [Users -> [Competitions -> Codes \cup {None}]]
    BY <1>0, <2>1, <2>2 DEF Typed, TypeOK
  <2>8. status' \in [Competitions -> CompetitionStatus \cup {"ABSENT"}]
        /\ \A d \in Competitions : status'[d] = IF d = c THEN "ABSENT" ELSE status[d]
    BY <1>0, <2>1 DEF Typed, TypeOK
  <2>9. Typed'
    BY <1>0, <2>1, <2>4, <2>5, <2>7, <2>8 DEF Typed, TypeOK, Done
  <2>10. Ordered'
    <3>1. \A d, e \in Competitions : <<d, e>> \in newer' <=>
            <<d, e>> \in newer /\ d # c /\ e # c
      BY <2>1
    <3> QED BY <1>0, <2>8, <3>1 DEF Globals, Ordered
  <2>11. AccountsAreWhole'
    <3>1. \A u \in Users : /\ (\E d \in Competitions : profile[u][d] # None) =>
                               (\E d \in Competitions : profile'[u][d] # None) \/ u \in bereft'
                           /\ (\E d \in Competitions : profile'[u][d] # None) =>
                               (\E d \in Competitions : profile[u][d] # None)
                           /\ u \in bereft => u \in bereft'
      BY <2>1, <2>6
    <3> QED BY <1>0, <2>1, <3>1 DEF Globals, AccountsAreWhole
  <2>12. CodesUnique'
    BY <1>0, <2>6 DEF Globals, CodesUnique
  <2>13. ASSUME NEW q \in Reqs \ {r} PROVE Notices(q)
    <3>1. /\ pc'[q] = pc[q]
          /\ job'[q] = job[q] \/ (pc[q] # "create" /\ job'[q] = [job[q] EXCEPT !.at = None])
      BY <1>0, <2>1 DEF Typed
    <3>2. pc[q] \notin Answered => changed'[q] = changed[q] \cup {<<"status", c>>}
      BY <2>1 DEF Publish
    <3> QED BY <2>1, <2>8, <3>1, <3>2 DEF Notices, Exists
  <2> QED BY <2>5, <2>9, <2>10, <2>11, <2>12, <2>13, DoneKnows DEF Kept, Globals
<1> QED BY <1>1, <1>2

LEMMA SeedAdminKept ==
  ASSUME IInv, NEW r \in Reqs, SeedAdmin(r) PROVE Kept(r)
<1>0. Typed /\ Globals /\ Knows(r)
  BY DEF IInv
<1>1. CASE Leave(r, "failed")
  BY <1>0, <1>1, LeavesKept DEF Answered
<1>2. CASE ~Leave(r, "failed")
  <2> DEFINE u == AdminEmail
  <2>1. /\ pc[r] = "seed admin" /\ email[u] = None /\ ~Exists(u)
        /\ pc' = [pc EXCEPT ![r] = "seed competition"]
        /\ role' = [role EXCEPT ![u] = "SUPER_ADMIN"] /\ active' = active \cup {u}
        /\ password' = [password EXCEPT ![u] = InitialPassword]
        /\ Publish(r, {<<"account", u>>})
        /\ UNCHANGED <<workload, status, newer, profile, tokens, job, bereft, email>>
    BY <1>2 DEF SeedAdmin, Goto
  <2>2. /\ u \in Users /\ InitialPassword \in Passwords /\ None \notin Reqs
    BY AccountsAssumption DEF AccountsAssumption
  <2> HIDE DEF u
  <2>3. Typed'
    BY <1>0, <2>1, <2>2 DEF Typed, TypeOK, Roles, Locs
  <2>4. pc'[r] = "seed competition" /\ job'[r].by = None
    BY <1>0, <2>1 DEF Typed, Knows, Holds
  <2>5. Knows(r)'
    BY <2>4 DEF Knows, Holds, Accounted, Checked, Signing
  <2>6. /\ role'[u] = "SUPER_ADMIN"
        /\ \A w \in Users \ {u} : role'[w] = role[w] /\ password'[w] = password[w]
        /\ \A w \in Users \ {u} : (w \in active' <=> w \in active)
    BY <1>0, <2>1, <2>2 DEF Typed, TypeOK
  <2>7. AccountsAreWhole' /\ CodesUnique'
    <3>1. \A w \in Users : (w = u /\ role'[w] = "SUPER_ADMIN")
                           \/ /\ role'[w] = role[w] /\ password'[w] = password[w]
                              /\ (w \in active' <=> w \in active)
      BY <2>6
    <3>2. UNCHANGED <<profile, tokens, bereft>>
      BY <2>1
    <3>3. CodesUnique'
      BY <1>0, <3>2 DEF Globals, CodesUnique
    <3>4. AccountsAreWhole'
      BY <1>0, <3>1, <3>2 DEF Globals, AccountsAreWhole
    <3> QED BY <3>3, <3>4
  <2>8. Ordered'
    BY <1>0, <2>1, OrderedKept DEF Globals
  <2>9. ASSUME NEW q \in Reqs \ {r} PROVE Notices(q)
    <3>1. pc[q] \notin Answered => changed'[q] = changed[q] \cup {<<"account", u>>}
      BY <2>1 DEF Publish
    <3>2. pc'[q] = pc[q] /\ job'[q] = job[q] /\ email[u] # q
      BY <1>0, <2>1, <2>2 DEF Typed
    <3> QED BY <1>0, <2>1, <2>2, <2>6, <3>1, <3>2, AccountNoticed
  <2> QED BY <2>3, <2>5, <2>7, <2>8, <2>9 DEF Kept, Globals
<1> QED BY <1>1, <1>2

(***************************************************************************)
(* The inductive invariant holds, and what follows from it.                *)
(***************************************************************************)
LEMMA StepKept ==
  ASSUME IInv, NEW r \in Reqs, Start(r) \/ Proceed(r) \/ Abort(r) PROVE Kept(r)
<1>0. Typed /\ Globals /\ Knows(r)
  BY DEF IInv
<1>1. CASE Start(r)
  BY <1>0, <1>1, Starts
<1>2. CASE Abort(r)
  BY <1>0, <1>2, LeavesKept DEF Abort, Answered
<1>3. CASE Proceed(r)
  <2>1. CASE FindActive(r) \/ FindPublished(r)
    BY <1>0, <2>1, FindsKept
  <2>2. CASE InsertUser(r)
    BY <1>0, <2>2, InsertKept
  <2>3. ASSUME NEW k \in Codes, DrawCode(r, k) PROVE Kept(r)
    BY <1>0, <2>3, DrawKept
  <2>4. CASE SignUp(r)
    BY <2>4, SignUpKept
  <2>5. CASE IssueToken(r)
    BY <2>5, TokenKept
  <2>6. CASE Join(r)
    BY <2>6, JoinKept
  <2>7. CASE VerifyPassword(r)
    BY <1>0, <2>7, VerifyKept
  <2>8. CASE WritePassword(r)
    BY <2>8, WritePasswordKept
  <2>9. CASE UpdateUserStatus(r)
    BY <2>9, UserStatusKept
  <2>10. CASE CreateRow(r) \/ UpdateRow(r) \/ SeedCompetition(r)
    BY <2>10, WritesCompetitionKept
  <2>11. CASE RemoveRow(r)
    BY <2>11, RemoveKept
  <2>12. CASE SeedAdmin(r)
    BY <2>12, SeedAdminKept
  <2> QED BY <1>3, <2>1, <2>2, <2>3, <2>4, <2>5, <2>6, <2>7, <2>8, <2>9, <2>10, <2>11,
             <2>12 DEF Proceed
<1> QED BY <1>1, <1>2, <1>3

LEMMA StutterKept ==
  ASSUME IInv, UNCHANGED vars PROVE IInv'
<1>1. UNCHANGED <<workload, role, active, password, status, newer, profile, tokens, pc, job,
                  changed, bereft, email>>
  BY DEF vars, table
<1>2. Typed'
  BY <1>1 DEF IInv, Typed, TypeOK
<1>3. Globals'
  BY <1>1 DEF IInv, Globals, AccountsAreWhole, CodesUnique, Ordered
<1>4. ASSUME NEW q \in Reqs PROVE Knows(q)'
  <2>1. Notices(q)
    BY <1>1 DEF Notices, Exists
  <2> QED BY <2>1, KnowsOn DEF IInv
<1> QED BY <1>2, <1>3, <1>4 DEF IInv

LEMMA NextIInv == IInv /\ [Next]_vars => IInv'
<1> SUFFICES ASSUME IInv, [Next]_vars PROVE IInv'
  OBVIOUS
<1> QED BY StepKept, KeptIsIInv, StutterKept DEF Next

LEMMA SpecIInv == Spec => []IInv
  BY InitIInv, NextIInv, PTL DEF Spec

(* Every variable keeps its type, whatever requests overlap.                 *)
THEOREM TypesHold == Spec => []TypeOK
<1>1. IInv => TypeOK
  BY DEF IInv, Typed
<1> QED BY <1>1, SpecIInv, PTL

(* Registrations, joins, deletions of competitions, the seed and failures,   *)
(* in any order, leave no account without what belongs to it.                *)
THEOREM AccountsStayWhole == Spec => []AccountsAreWhole
<1>1. IInv => AccountsAreWhole
  BY DEF IInv, Globals
<1> QED BY <1>1, SpecIInv, PTL

(* However many requests draw codes at once, no two profiles share one.      *)
THEOREM CodesStayUnique == Spec => []CodesUnique
<1>1. IInv => CodesUnique
  BY DEF IInv, Globals
<1> QED BY <1>1, SpecIInv, PTL

(* Registration puts people in the ACTIVE competition, or in a PUBLISHED one *)
(* when none is, but for what changed while the request was in flight.       *)
THEOREM RegistrationJoinsTheActive == Spec => JoinsTheActive
<1> DEFINE A == \A r \in Reqs :
                  LET c == job[r].at
                      stood(d) == <<"status", d>> \notin changed[r]
                  IN pc[r] = "sign up" /\ pc'[r] = "idle" /\ c # None /\ stood(c) =>
                       /\ status[c] \in PubliclyVisible
                       /\ status[c] = "PUBLISHED" =>
                            \A d \in Competitions : status[d] = "ACTIVE" => ~stood(d)
<1>1. ASSUME IInv, NEW r \in Reqs, pc[r] = "sign up" PROVE Chosen(r)
  <2>1. Knows(r)
    BY <1>1 DEF IInv
  <2>2. job[r].pwd # None
    BY <1>1, <2>1, AccountsAssumption DEF Knows, Holds, AccountsAssumption
  <2> QED BY <1>1, <2>1, <2>2 DEF Knows, Checked, Signing
<1>2. IInv /\ [Next]_vars => [A]_vars
  BY <1>1 DEF Chosen, NoneActive
<1>3. Spec => [][A]_vars
  BY <1>2, SpecIInv, PTL DEF Spec
<1> QED BY <1>3 DEF JoinsTheActive

(* Somebody's own change of password writes only where the password given as *)
(* current still is, or another change overtook the request.                 *)
THEOREM PasswordsAreTheOwners == Spec => OwnerKnewPassword
<1> DEFINE A == \A r \in Reqs : \A u \in Users :
                  /\ pc[r] = "write password" /\ pc'[r] = "idle"
                  /\ job[r].of = u /\ job[r].given # None
                  => password[u] = job[r].given \/ <<"password", u>> \in changed[r]
<1>1. IInv /\ [Next]_vars => [A]_vars
  BY DEF IInv, Knows, Checked
<1>2. Spec => [][A]_vars
  BY <1>1, SpecIInv, PTL DEF Spec
<1> QED BY <1>2 DEF OwnerKnewPassword

(* What an authenticated request writes, it writes for a user who is active  *)
(* and has the role, unless that account changed after the guards ran.       *)
THEOREM WritesAreAuthorised == Spec => ActsAuthorised
<1> DEFINE A == \A r \in Reqs :
                  LET a == job[r].by
                      admin == \/ pc[r] \in {"write status", "create", "update", "remove"}
                               \/ pc[r] = "write password" /\ job[r].given = None
                  IN a # None /\ pc[r] \notin Answered /\ table' # table /\ pc'[r] = "idle" =>
                       \/ a \in active /\ (admin => role[a] \in Admins)
                       \/ <<"account", a>> \in changed[r]
<1>1. ASSUME IInv, NEW r \in Reqs, job[r].by # None, pc[r] \notin Answered PROVE Authorised(r)
  BY <1>1 DEF IInv, Knows, Checked
<1>2. IInv /\ [Next]_vars => [A]_vars
  BY <1>1 DEF Authorised, AdminAt
<1>3. Spec => [][A]_vars
  BY <1>2, SpecIInv, PTL DEF Spec
<1> QED BY <1>3 DEF ActsAuthorised

(***************************************************************************)
(* Who holds an address.                                                   *)
(***************************************************************************)
Reserved ==
    \A q \in Reqs, u \in Users : email[u] = q => Signing(q) /\ job[q].of = u

(* A step of r gives no address to others, and holds one afterwards only to  *)
(* draw or to sign up for it.                                                *)
Keeps(r) ==
    \A q \in Reqs, u \in Users : email'[u] = q =>
        IF q = r THEN Signing(r)' /\ job'[r].of = u ELSE email[u] = q

LEMMA LeavesLetGo ==
  ASSUME Typed, NEW r \in Reqs, NEW answer, NEW facts, Finish(r, answer, facts) PROVE Keeps(r)
<1>1. email' = [u \in Users |-> IF email[u] = r THEN None ELSE email[u]]
  BY DEF Finish
<1>2. None \notin Reqs
  BY AccountsAssumption DEF AccountsAssumption
<1> QED BY <1>1, <1>2 DEF Keeps, Typed, TypeOK

LEMMA OthersLetBe ==
  ASSUME Typed, Reserved, NEW r \in Reqs, ~Signing(r), email' = email PROVE Keeps(r)
  BY DEF Keeps, Reserved, Typed, TypeOK

LEMMA InsertTakes ==
  ASSUME IInv, Reserved, NEW r \in Reqs, InsertUser(r) PROVE Keeps(r)
<1> DEFINE u == job[r].of
<1>0. Typed /\ job[r] \in Job /\ pc[r] = "insert user"
  BY DEF IInv, Typed, TypeOK, InsertUser
<1>1. CASE Leave(r, "failed")
  BY <1>0, <1>1, LeavesLetGo DEF Leave
<1>2. CASE ~Leave(r, "failed")
  <2>1. /\ pc' = [pc EXCEPT ![r] = "draw"] /\ job' = job
        /\ email' = [email EXCEPT ![u] = r]
    BY <1>2 DEF InsertUser, Goto
  <2>2. job[r].pwd \in Passwords
    BY <1>0 DEF IInv, Knows, Holds
  <2>3. Signing(r)'
    BY <1>0, <2>1, <2>2, AccountsAssumption DEF Signing, Typed, AccountsAssumption
  <2>4. \A v \in Users : email[v] # r
    BY <1>0 DEF Reserved, Signing
  <2> QED BY <1>0, <2>1, <2>3, <2>4 DEF Keeps, Typed, TypeOK
<1> QED BY <1>1, <1>2

LEMMA DrawKeeps ==
  ASSUME IInv, Reserved, NEW r \in Reqs, NEW k \in Codes, DrawCode(r, k) PROVE Keeps(r)
<1>0. Typed /\ job[r] \in Job /\ pc[r] = "draw"
  BY DEF IInv, Typed, TypeOK, DrawCode
<1>1. CASE Leave(r, "idle")
  BY <1>0, <1>1, LeavesLetGo DEF Leave
<1>2. CASE ~Leave(r, "idle")
  <2>1. email' = email
    BY <1>2 DEF DrawCode
  <2>2. /\ job'[r].pwd = job[r].pwd /\ job'[r].of = job[r].of
        /\ pc'[r] = "draw" \/ pc'[r] = IF job[r].pwd = None THEN "join" ELSE "sign up"
    <3>1. CASE Taken(k)
      <4>1. job' = [job EXCEPT ![r].tries = @ + 1] /\ pc' = pc
        BY <1>2, <3>1 DEF DrawCode
      <4> QED BY <1>0, <4>1 DEF Typed, TypeOK, Job
    <3>2. CASE ~Taken(k)
      <4>1. /\ job' = [job EXCEPT ![r].code = k]
            /\ Goto(r, IF job[r].pwd = None THEN "join" ELSE "sign up")
        BY <1>2, <3>2 DEF DrawCode
      <4>2. job'[r].pwd = job[r].pwd /\ job'[r].of = job[r].of
        BY <1>0, <4>1 DEF Typed, TypeOK, Job
      <4>3. pc'[r] = IF job[r].pwd = None THEN "join" ELSE "sign up"
        BY <1>0, <4>1 DEF Goto, Typed
      <4> QED BY <4>2, <4>3
    <3> QED BY <3>1, <3>2
  <2>3. Signing(r) => Signing(r)'
    BY <2>2 DEF Signing
  <2> QED BY <1>0, <2>1, <2>2, <2>3 DEF Keeps, Reserved, Typed, TypeOK
<1> QED BY <1>1, <1>2

LEMMA StepKeeps ==
  ASSUME IInv, Reserved, NEW r \in Reqs, Start(r) \/ Proceed(r) \/ Abort(r) PROVE Keeps(r)
<1>0. Typed
  BY DEF IInv
<1>1. CASE Start(r)
  <2>1. ASSUME NEW op, NEW j, NEW loc, Begin(r, op, j, loc) PROVE Keeps(r)
    BY <1>0, <2>1, OthersLetBe DEF Begin, Answered, Signing
  <2>2. ASSUME NEW op, NEW roles, NEW j, NEW loc, Enter(r, op, roles, j, loc) PROVE Keeps(r)
    BY <2>1, <2>2 DEF Enter
  <2>3. CASE Seed(r)
    BY <2>1, <2>3 DEF Seed
  <2>4. ASSUME NEW u \in Users, NEW p \in Passwords, Register(r, u, p) \/ Login(r, u, p)
        PROVE  Keeps(r)
    BY <2>1, <2>4 DEF Register, Login
  <2>5. ASSUME NEW a \in Users, NEW c \in Competitions,
               RegisterContestant(r, a, c) \/ Remove(r, a, c)
        PROVE  Keeps(r)
    BY <2>2, <2>5 DEF RegisterContestant, Remove
  <2>6. ASSUME NEW a \in Users, NEW c \in Competitions, NEW s \in Statuses,
               Create(r, a, c, s) \/ Update(r, a, c, s)
        PROVE  Keeps(r)
    BY <2>2, <2>6 DEF Create, Update
  <2>7. ASSUME NEW a \in Users, NEW p \in Passwords, NEW q \in Passwords,
               ChangePassword(r, a, p, q)
        PROVE  Keeps(r)
    BY <2>2, <2>7 DEF ChangePassword
  <2>8. ASSUME NEW a \in Users, NEW u \in Users, NEW x,
               ResetUserPassword(r, a, u, x) \/ SetUserStatus(r, a, u, x)
        PROVE  Keeps(r)
    BY <2>2, <2>8 DEF ResetUserPassword, SetUserStatus
  <2> QED BY <1>1, <2>3, <2>4, <2>5, <2>6, <2>7, <2>8 DEF Start
<1>2. CASE Abort(r)
  BY <1>0, <1>2, LeavesLetGo DEF Abort, Leave
<1>3. CASE InsertUser(r)
  BY <1>3, InsertTakes
<1>4. ASSUME NEW k \in Codes, DrawCode(r, k) PROVE Keeps(r)
  BY <1>4, DrawKeeps
<1>5. CASE SignUp(r) \/ IssueToken(r) \/ Join(r) \/ WritePassword(r) \/ UpdateUserStatus(r)
           \/ CreateRow(r) \/ UpdateRow(r) \/ SeedCompetition(r)
  <2>1. PICK answer, facts : Finish(r, answer, facts)
    BY <1>5 DEF SignUp, IssueToken, Join, WritePassword, UpdateUserStatus, CreateRow,
           UpdateRow, SeedCompetition, WriteCompetition, Leave
  <2> QED BY <1>0, <2>1, LeavesLetGo
<1>6. CASE FindActive(r) \/ FindPublished(r) \/ VerifyPassword(r) \/ RemoveRow(r)
           \/ SeedAdmin(r)
  <2>1. ~Signing(r)
    BY <1>6 DEF FindActive, FindPublished, VerifyPassword, RemoveRow, SeedAdmin, Signing
  <2>2. email' = email \/ \E answer, facts : Finish(r, answer, facts)
    BY <1>6 DEF FindActive, FindPublished, Choose, Move, VerifyPassword, RemoveRow, SeedAdmin,
           Leave
  <2> QED BY <1>0, <2>1, <2>2, OthersLetBe, LeavesLetGo
<1> QED BY <1>1, <1>2, <1>3, <1>4, <1>5, <1>6 DEF Proceed

LEMMA NextReserved == IInv /\ Reserved /\ [Next]_vars => Reserved'
<1> SUFFICES ASSUME IInv, Reserved, [Next]_vars PROVE Reserved'
  OBVIOUS
<1>1. CASE UNCHANGED vars
  BY <1>1 DEF vars, Reserved, Signing
<1>2. ASSUME NEW r \in Reqs, Start(r) \/ Proceed(r) \/ Abort(r) PROVE Reserved'
  <2> SUFFICES ASSUME NEW q \in Reqs, NEW u \in Users, email'[u] = q
               PROVE  Signing(q)' /\ job'[q].of = u
    BY DEF Reserved
  <2>1. Keeps(r) /\ Kept(r)
    BY <1>2, StepKeeps, StepKept
  <2>2. CASE q = r
    BY <2>1, <2>2 DEF Keeps
  <2>3. CASE q # r
    <3>1. Signing(q) /\ job[q].of = u
      BY <2>1, <2>3 DEF Keeps, Reserved
    <3>2. Notices(q) /\ job[q] \in Job
      BY <2>1, <2>3 DEF Kept, IInv, Typed, TypeOK
    <3>3. pc'[q] = pc[q] /\ job'[q].of = job[q].of /\ job'[q].pwd = job[q].pwd
      BY <3>2 DEF Notices, Job
    <3> QED BY <3>1, <3>3 DEF Signing
  <2> QED BY <2>2, <2>3
<1> QED BY <1>1, <1>2 DEF Next

(* Whoever waits for an address waits for a registration that is drawing its *)
(* code or signing up and waits for nobody; when it is answered, fails or    *)
(* loses its connection, the address is free or has an account.              *)
THEOREM AddressesAreReleased == Spec => []AddressesReleased
<1>1. Init => Reserved
  BY AccountsAssumption DEF Init, Reserved, AccountsAssumption
<1>2. IInv /\ Reserved => AddressesReleased
  BY DEF AddressesReleased, Reserved, Signing, IInv, Knows, Accounted
<1> QED BY <1>1, <1>2, NextReserved, SpecIInv, PTL DEF Spec
=============================================================================
