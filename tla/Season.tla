-------------------------------- MODULE Season --------------------------------
(***************************************************************************)
(* A competition from its first stage to its winners: stages and the rule  *)
(* of the one ACTIVE stage, submissions, the standing of contestants, coin *)
(* votes as they are counted, the resets, elimination of the bottom, the   *)
(* leaderboards and the declaration of winners.                            *)
(*                                                                         *)
(* As in Accounts, a request in flight is a process of Reqs, a step is an  *)
(* awaited statement, and the writes of a transaction are applied at its   *)
(* commit.  A stage is known by its number; the request that had read a    *)
(* deleted stage holds the id of no row, and its job.at becomes None.      *)
(* Wallets are in CoinLedger, payments in ManualVotes.                     *)
(***************************************************************************)
EXTENDS Integers, Sequences, FiniteSets

CONSTANTS
    Contestants, Stages, Reqs, None,
    Created,       \* order of registration, 0 for those who register later
    Engagement,    \* totalOnlineEngagement from before: nothing here adds to it
    InitialStage,  \* stages from before: their status, or "ABSENT"
    Percentage,    \* Stage.eliminationPercentage
    SeedStages,    \* the stages of the seed, in its order
    MaxVotes,      \* bound: votes of a contestant
    MaxEditions,   \* bound: declarations of winners
    Choices,       \* bound: statuses of stages and contestants that are set
    Workloads      \* bound: the operations that come together in a behaviour

StageStatus == {"UPCOMING", "ACTIVE", "VOTING_CLOSED", "COMPLETED"}

(* IN is PENDING or APPROVED: nothing here tells them apart.                 *)
ContestantStatus == {"IN", "REJECTED", "ELIMINATED"}

SubmissionStatus == {"PENDING", "APPROVED", "REJECTED"}

ASSUME SeasonAssumption ==
    /\ IsFiniteSet(Contestants)
    /\ Created \in [Contestants -> Nat]
    /\ LET early == {c \in Contestants : Created[c] # 0} IN
       \A c, d \in early : /\ Created[c] <= Cardinality(early)
                           /\ Created[c] = Created[d] => c = d
    /\ Engagement \in [Contestants -> Nat]
    /\ InitialStage \in [Stages -> StageStatus \cup {"ABSENT"}]
    /\ \A s, t \in Stages :
          InitialStage[s] = "ACTIVE" /\ InitialStage[t] = "ACTIVE" => s = t
    /\ Percentage \in [Stages -> 0..100]
    /\ SeedStages \in Seq([stage: Stages, status: StageStatus]) /\ SeedStages # <<>>
    /\ MaxVotes \in Nat /\ MaxEditions \in Nat
    /\ Choices \subseteq StageStatus \cup ContestantStatus
    /\ None \notin Contestants \cup Stages \cup Reqs

VARIABLES
    workload,    \* the operations of this behaviour
    stage,       \* Stage.status; "ABSENT" has no row
    standing,    \* Contestant.status; "ABSENT" has no row
    since,       \* Contestant.createdAt
    votes,       \* Contestant.totalVotes
    engagement,  \* Contestant.totalOnlineEngagement
    ballots,     \* sum of the quantities of a contestant's Vote rows
    entry,       \* Submission.status of a contestant in a stage, or "ABSENT"
    winners,     \* rows of CompetitionWinner
    editions,    \* number of declarations begun (history)
    removed,     \* contestants removed or reset, not moderated since (history)
    excused,     \* their entries that were reviewed or submitted too late (history)
    unzeroed,    \* contestants who registered during a reset of votes (history)
    missed,      \* what others have written since a request began (history)
    pc,          \* where each request is
    job          \* what it works on

rows == <<stage, standing, since, votes, engagement, ballots, entry, winners>>
history == <<editions, removed, excused, unzeroed>>
vars == <<workload, rows, history, missed, pc, job>>

Answered == {"idle", "failed"}

(* con and at are the contestant and stage worked on, what a status to set,  *)
(* ids the contestants it has read, num a percentage, an edition or a step,  *)
(* podium the winners to write, seen the rows that its deletion has seen.    *)
NoJob == [op |-> None, con |-> None, at |-> None, what |-> None, ids |-> {},
          num |-> 0, podium |-> {}, seen |-> {}]

Entered == {c \in Contestants : standing[c] # "ABSENT"}
Standing == {c \in Contestants : standing[c] = "IN"}

Init ==
    /\ workload \in Workloads
    /\ stage = InitialStage
    /\ standing = [c \in Contestants |-> IF Created[c] = 0 THEN "ABSENT" ELSE "IN"]
    /\ since = Created
    /\ votes = [c \in Contestants |-> 0] /\ ballots = votes
    /\ engagement = Engagement
    /\ entry = [c \in Contestants |-> [s \in Stages |-> "ABSENT"]]
    /\ winners = {}
    /\ editions = 0 /\ removed = {} /\ excused = {} /\ unzeroed = {}
    /\ missed = [r \in Reqs |-> {}]
    /\ pc = [r \in Reqs |-> "idle"]
    /\ job = [r \in Reqs |-> NoJob]

(***************************************************************************)
(* Requests.                                                               *)
(***************************************************************************)
Goto(r, loc, j) ==
    /\ pc' = [pc EXCEPT ![r] = loc]
    /\ job' = [job EXCEPT ![r] = IF loc \in Answered THEN NoJob ELSE j]

Begin(r, op, j, loc) ==
    /\ op \in workload /\ pc[r] \in Answered
    /\ Goto(r, loc, j)
    /\ UNCHANGED <<workload, rows, missed>>

(* The next statement reads on.                                              *)
Move(r, loc, j) == Goto(r, loc, j) /\ UNCHANGED <<workload, rows, history, missed>>

(* The others in flight take note of what r has written.                     *)
Publish(r, facts) ==
    missed' = [q \in Reqs |->
                 IF q = r \/ pc[q] \in Answered THEN {} ELSE missed[q] \cup facts]

Leave(r, answer) ==
    /\ Goto(r, answer, NoJob) /\ Publish(r, {})
    /\ UNCHANGED <<workload, rows, history>>

Wrote(r, facts) == Goto(r, "idle", NoJob) /\ Publish(r, facts) /\ UNCHANGED workload

(* A reset of votes holds the rows of the contestants it has zeroed.         *)
Locked(c) == \E q \in Reqs : pc[q] = "delete votes" /\ c \in job[q].ids

(* The rows of Submission, and those that a reset or a removal holds.        *)
Entries == {e \in Contestants \X Stages : entry[e[1]][e[2]] # "ABSENT"}
Held(e) == \E q \in Reqs : pc[q] = "put out" /\ e \in job[q].seen

Set(f, S, x) == [y \in DOMAIN f |-> IF y \in S THEN x ELSE f[y]]

(***************************************************************************)
(* Stages: ensureActiveStageRule reads, then create or update writes.      *)
(***************************************************************************)
WriteOrRule(status) == IF status = "ACTIVE" THEN "rule" ELSE "write stage"

CreateStage(r, s, status) ==
    /\ Begin(r, "stages", [NoJob EXCEPT !.op = "create", !.at = s, !.what = status],
             WriteOrRule(status))
    /\ UNCHANGED history

UpdateStage(r, s, status) ==
    /\ stage[s] # "ABSENT"
    /\ Begin(r, "stages", [NoJob EXCEPT !.op = "update", !.at = s, !.what = status],
             WriteOrRule(status))
    /\ UNCHANGED history

(* Mutant: only updates look for an active stage.                            *)
RuleOfUpdates(r) ==
    /\ pc[r] = "rule"
    /\ IF /\ job[r].op = "update"
          /\ \E t \in Stages : stage[t] = "ACTIVE" /\ t # job[r].at
       THEN Leave(r, "idle") ELSE Move(r, "write stage", job[r])

(* Another stage is ACTIVE: 409.                                             *)
ActiveStageRule(r) ==
    /\ pc[r] = "rule"
    /\ IF \E t \in Stages : stage[t] = "ACTIVE" /\ (job[r].op = "create" \/ t # job[r].at)
       THEN Leave(r, "idle") ELSE Move(r, "write stage", job[r])

(* create fails on the unique number, update on a stage that is gone.        *)
WriteStage(r) ==
    LET s == job[r].at IN
    /\ pc[r] = "write stage"
    /\ \/ /\ s = None \/ (job[r].op = "create" /\ stage[s] # "ABSENT")
          /\ Leave(r, "failed")
       \/ /\ s # None /\ (job[r].op = "create" => stage[s] = "ABSENT")
          /\ stage' = [stage EXCEPT ![s] = job[r].what]
          /\ Wrote(r, {<<"stage", s>>})
          /\ UNCHANGED <<standing, since, votes, engagement, ballots, entry, winners,
                         history>>

RemoveStage(r, s) ==
    /\ stage[s] # "ABSENT"
    /\ Begin(r, "remove stage", [NoJob EXCEPT !.op = "remove", !.at = s], "remove stage")
    /\ UNCHANGED history

(* Its submissions go with it (Cascade).                                     *)
DeleteStage(r) ==
    LET s == job[r].at IN
    /\ pc[r] = "remove stage"
    /\ \/ s = None /\ Leave(r, "failed")
       \/ /\ s # None /\ \A c \in Contestants : ~Held(<<c, s>>)
          /\ stage' = [stage EXCEPT ![s] = "ABSENT"]
          /\ entry' = [c \in Contestants |-> [entry[c] EXCEPT ![s] = "ABSENT"]]
          /\ excused' = excused \ (Contestants \X {s})
          /\ pc' = [pc EXCEPT ![r] = "idle"]
          /\ job' = [q \in Reqs |-> IF q = r THEN NoJob
                                    ELSE IF job[q].at = s /\ job[q].op # "create"
                                    THEN [job[q] EXCEPT !.at = None] ELSE job[q]]
          /\ Publish(r, {<<"stage", s>>})
          /\ UNCHANGED <<workload, standing, since, votes, engagement, ballots, winners,
                         editions, removed, unzeroed>>

(* The seed upserts its stages one by one and does not look at the rule.     *)
Seed(r) == Begin(r, "seed", [NoJob EXCEPT !.num = 1], "seed") /\ UNCHANGED history

SeedStage(r) ==
    LET k == job[r].num
        row == SeedStages[k] IN
    /\ pc[r] = "seed"
    /\ stage' = [stage EXCEPT ![row.stage] = row.status]
    /\ Goto(r, IF k = Len(SeedStages) THEN "idle" ELSE "seed", [job[r] EXCEPT !.num = k + 1])
    /\ Publish(r, {<<"stage", row.stage>>})
    /\ UNCHANGED <<workload, standing, since, votes, engagement, ballots, entry, winners,
                   history>>

(***************************************************************************)
(* Submissions.  A window that is closed refuses a request at its start.   *)
(***************************************************************************)
Submit(r, c, s) ==
    /\ stage[s] # "ABSENT"
    /\ Begin(r, "submit", [NoJob EXCEPT !.con = c, !.at = s], "find contestant")
    /\ UNCHANGED history

(* Mutant: whoever is registered may submit.                                 *)
FindRegistered(r) ==
    /\ pc[r] = "find contestant"
    /\ IF job[r].con \in Entered THEN Move(r, "insert", job[r]) ELSE Leave(r, "idle")

FindContestant(r) ==
    /\ pc[r] = "find contestant"
    /\ IF job[r].con \in Standing THEN Move(r, "insert", job[r]) ELSE Leave(r, "idle")

WriteEntry(c, s, status) == entry' = [entry EXCEPT ![c][s] = status]

InsertEntry(r) ==
    LET c == job[r].con
        s == job[r].at IN
    /\ pc[r] = "insert"
    /\ \/ (s # None => entry[c][s] # "ABSENT") /\ Leave(r, "failed")
       \/ /\ s # None /\ entry[c][s] = "ABSENT"
          /\ WriteEntry(c, s, "APPROVED")
          /\ excused' = IF <<"standing", c>> \in missed[r]
                        THEN excused \cup {<<c, s>>} ELSE excused
          /\ Wrote(r, {<<"entry", c>>})
          /\ UNCHANGED <<stage, standing, since, votes, engagement, ballots, winners,
                         editions, removed, unzeroed>>

Review(r, c, s, status) ==
    /\ s \in Stages /\ entry[c][s] # "ABSENT"
    /\ Begin(r, "review", [NoJob EXCEPT !.con = c, !.at = s, !.what = status], "review")
    /\ UNCHANGED history

(* updateStatus, or remove where the status to set is "ABSENT".              *)
WriteReview(r) ==
    LET c == job[r].con
        s == job[r].at IN
    /\ pc[r] = "review"
    /\ \/ (s # None => entry[c][s] = "ABSENT") /\ Leave(r, "failed")
       \/ /\ s # None /\ entry[c][s] # "ABSENT" /\ ~Held(<<c, s>>)
          /\ WriteEntry(c, s, job[r].what)
          /\ excused' = excused \cup {<<c, s>>}
          /\ Wrote(r, {<<"entry", c>>})
          /\ UNCHANGED <<stage, standing, since, votes, engagement, ballots, winners,
                         editions, removed, unzeroed>>

(* findByStage: what the public sees.                                        *)
PublicEntries(s) ==
    {c \in Standing : entry[c][s] \notin {"ABSENT", "REJECTED"}}

(***************************************************************************)
(* Contestants.                                                            *)
(***************************************************************************)

(* Registration, in full in Accounts.                                        *)
Register(c) ==
    /\ "register" \in workload /\ c \notin Entered
    /\ standing' = [standing EXCEPT ![c] = "IN"]
    /\ since' = [since EXCEPT ![c] = 1 + Cardinality(Entered)]
    /\ missed' = [q \in Reqs |-> IF pc[q] \in Answered THEN {}
                                 ELSE missed[q] \cup {<<"joined", c>>, <<"standing", c>>}]
    /\ UNCHANGED <<workload, stage, votes, engagement, ballots, entry, winners, history,
                   pc, job>>

UpdateStatus(r, c, status) ==
    /\ c \in Entered
    /\ Begin(r, "moderate", [NoJob EXCEPT !.con = c, !.what = status], "set standing")
    /\ UNCHANGED history

SetStanding(r) ==
    LET c == job[r].con IN
    /\ pc[r] = "set standing" /\ ~Locked(c)
    /\ standing' = [standing EXCEPT ![c] = job[r].what]
    /\ removed' = removed \ {c}
    /\ Wrote(r, {<<"standing", c>>})
    /\ UNCHANGED <<stage, since, votes, engagement, ballots, entry, winners,
                   editions, excused, unzeroed>>

(* The code updates the contestant before the submissions; others see both   *)
(* at the commit, so the order only decides which locks could cross (Abort). *)
RemoveFromPublic(r, c) ==
    /\ c \in Entered
    /\ Begin(r, "remove", [NoJob EXCEPT !.con = c, !.ids = {c}], "reject entries")
    /\ UNCHANGED history

(* reset reads the contestants there are, to put those out.                  *)
Reset(r) ==
    /\ Begin(r, "reset", [NoJob EXCEPT !.ids = Entered], "reject entries")
    /\ UNCHANGED history

(* The submissions there are: of the contestant removed, or of all.          *)
RejectEntries(r) ==
    /\ pc[r] = "reject entries"
    /\ Move(r, "put out",
            [job[r] EXCEPT !.seen = {e \in Entries : job[r].con \in {None, e[1]}}])

Rejected(S) ==
    entry' = [c \in Contestants |-> [s \in Stages |->
                IF <<c, s>> \in S THEN "REJECTED" ELSE entry[c][s]]]

(* The contestants, and the commit; an entry that was not there to be        *)
(* rejected was submitted by somebody in good standing.                      *)
PutOut(r) ==
    LET out == job[r].ids IN
    /\ pc[r] = "put out" /\ \A c \in out : ~Locked(c)
    /\ standing' = Set(standing, out, "REJECTED")
    /\ votes' = Set(votes, out, 0) /\ engagement' = Set(engagement, out, 0)
    /\ Rejected(job[r].seen)
    /\ winners' = IF job[r].con = None THEN {} ELSE winners
    /\ removed' = removed \cup out
    /\ excused' = (excused \cup {e \in Entries : e[1] \in out}) \ job[r].seen
    /\ Wrote(r, {<<"standing", c>> : c \in out} \cup {<<"winners", None>>})
    /\ UNCHANGED <<stage, since, ballots, editions, unzeroed>>

(***************************************************************************)
(* Coin votes and the reset of votes.                                      *)
(***************************************************************************)

(* Mutant: whoever is registered gets votes.                                 *)
MayGetVotes(c) == c \in Entered

CanGetVotes(c) == c \in Standing

Cast(r, c, s) ==
    /\ CanGetVotes(c)
    /\ Begin(r, "cast", [NoJob EXCEPT !.con = c, !.at = s], "check stage")
    /\ UNCHANGED history

CheckStage(r) ==
    LET s == job[r].at IN
    /\ pc[r] = "check stage"
    /\ IF s # None /\ stage[s] = "ACTIVE" THEN Move(r, "cast", job[r]) ELSE Leave(r, "idle")

(* The row of the vote and the counter of the contestant.                    *)
CastVote(r) ==
    LET c == job[r].con IN
    /\ pc[r] = "cast"
    /\ \/ job[r].at = None /\ Leave(r, "failed")
       \/ /\ job[r].at # None /\ ~Locked(c) /\ votes[c] < MaxVotes /\ ballots[c] < MaxVotes
          /\ votes' = [votes EXCEPT ![c] = @ + 1]
          /\ ballots' = [ballots EXCEPT ![c] = @ + 1]
          /\ Wrote(r, {<<"votes", c>>})
          /\ UNCHANGED <<stage, standing, since, engagement, entry, winners, history>>

ResetVotes(r) == Begin(r, "reset votes", NoJob, "zero votes") /\ UNCHANGED history

(* Mutant: only the counters that show are zeroed.                           *)
ZeroStanding(r) ==
    /\ pc[r] = "zero votes" /\ \A c \in Standing : ~Locked(c)
    /\ Move(r, "delete votes", [job[r] EXCEPT !.ids = Standing])

(* The counters of the contestants there are; their rows are held.           *)
ZeroVotes(r) ==
    /\ pc[r] = "zero votes" /\ \A c \in Entered : ~Locked(c)
    /\ Move(r, "delete votes", [job[r] EXCEPT !.ids = Entered])

(* The votes of all, and the commit.                                         *)
DeleteVotes(r) ==
    /\ pc[r] = "delete votes"
    /\ votes' = Set(votes, job[r].ids, 0)
    /\ ballots' = [c \in Contestants |-> 0]
    /\ unzeroed' = unzeroed \cup {c \in Contestants : <<"joined", c>> \in missed[r]}
    /\ Wrote(r, {<<"votes", c>> : c \in Contestants})
    /\ UNCHANGED <<stage, standing, since, engagement, entry, winners,
                   editions, removed, excused>>

(***************************************************************************)
(* Rankings.                                                               *)
(***************************************************************************)

(* The order of the public profile's rank.                                   *)
AheadOnProfile(c, d) ==
    \/ votes[c] > votes[d]
    \/ votes[c] = votes[d] /\ engagement[c] > engagement[d]
    \/ votes[c] = votes[d] /\ engagement[c] = engagement[d] /\ since[c] < since[d]

(* The leaderboard's modes votes and engagement.                             *)
AheadByVotes(c, d) ==
    votes[c] > votes[d] \/ (votes[c] = votes[d] /\ since[c] < since[d])

AheadByEngagement(c, d) ==
    engagement[c] > engagement[d] \/ (engagement[c] = engagement[d] /\ since[c] < since[d])

(* The largest value, 1 where it is 0: a score with no maximum is 0 anyway.  *)
Top(f) == CHOOSE m \in {f[c] : c \in Standing} \cup {1} :
              m >= 1 /\ \A c \in Standing : f[c] <= m

(* Half engagement, half votes, each relative to its largest value; times    *)
(* both maxima, which keeps the order.                                       *)
CombinedScore(c) == votes[c] * Top(engagement) + engagement[c] * Top(votes)

AheadCombined(c, d) ==
    \/ CombinedScore(c) > CombinedScore(d)
    \/ CombinedScore(c) = CombinedScore(d) /\ since[c] < since[d]

(* Mutant: the index of a list that starts at 0.                             *)
IndexOf(c) == Cardinality({d \in Standing : AheadCombined(d, c)})

RankOf(c) == 1 + Cardinality({d \in Standing : AheadCombined(d, c)})

(***************************************************************************)
(* eliminateBottom: rank in one query, eliminate by id in another.         *)
(***************************************************************************)

(* Mutant: the first of the ranking go.                                      *)
TopOut(c, d) == AheadOnProfile(c, d)

FirstOut(c, d) ==
    \/ votes[c] < votes[d]
    \/ votes[c] = votes[d] /\ engagement[c] < engagement[d]
    \/ votes[c] = votes[d] /\ engagement[c] = engagement[d] /\ since[c] > since[d]

Bottom(n) ==
    {c \in Standing : Cardinality({d \in Standing : FirstOut(d, c)}) < n}

EliminateBottom(r, s) ==
    /\ stage[s] # "ABSENT"
    /\ Begin(r, "eliminate", [NoJob EXCEPT !.num = Percentage[s]], "rank")
    /\ UNCHANGED history

Rank(r) ==
    LET count == (Cardinality(Standing) * job[r].num) \div 100 IN
    /\ pc[r] = "rank"
    /\ IF count = 0 THEN Leave(r, "idle")
       ELSE Move(r, "eliminate", [job[r] EXCEPT !.ids = Bottom(count)])

(* By id, whatever has become of them.                                       *)
Eliminate(r) ==
    LET out == job[r].ids IN
    /\ pc[r] = "eliminate" /\ \A c \in out : ~Locked(c)
    /\ standing' = Set(standing, out, "ELIMINATED")
    /\ Wrote(r, {<<"standing", c>> : c \in out})
    /\ removed' = removed \ out
    /\ UNCHANGED <<stage, since, votes, engagement, ballots, entry, winners,
                   editions, excused, unzeroed>>

(***************************************************************************)
(* declareWinners: checks and ranking outside the transaction that         *)
(* replaces the winners.  Which of two declarations commits first is left  *)
(* open, where row locks would sometimes decide it.                        *)
(***************************************************************************)
DeclareWinners(r, force) ==
    /\ winners = {} \/ force
    /\ editions < MaxEditions
    /\ Begin(r, "declare", [NoJob EXCEPT !.num = editions + 1], "leaderboard")
    /\ editions' = editions + 1
    /\ UNCHANGED <<removed, excused, unzeroed>>

(* Mutant: those who were put out are ranked as well.                        *)
TopEntered(edition) ==
    {[place |-> RankOf(c), con |-> c, score |-> CombinedScore(c), edition |-> edition] :
        c \in {d \in Entered : RankOf(d) <= 3}}

TopThree(edition) ==
    {[place |-> RankOf(c), con |-> c, score |-> CombinedScore(c), edition |-> edition] :
        c \in {d \in Standing : RankOf(d) <= 3}}

Leaderboard(r) ==
    /\ pc[r] = "leaderboard"
    /\ IF Standing = {} THEN Leave(r, "idle")
       ELSE Move(r, "delete winners", [job[r] EXCEPT !.podium = TopThree(job[r].num)])

DeleteWinners(r) ==
    /\ pc[r] = "delete winners"
    /\ Move(r, "place", [job[r] EXCEPT !.seen = winners])

Podium(r, placed) ==
    /\ winners' = placed
    /\ Wrote(r, {<<"winners", None>>})
    /\ UNCHANGED <<stage, standing, since, votes, engagement, ballots, entry, history>>

(* Mutant: each place is overwritten, nothing is deleted.                    *)
PlaceOver(r) ==
    /\ pc[r] = "place"
    /\ Podium(r, job[r].podium \cup
                 {w \in winners : \A v \in job[r].podium : w.place # v.place})

(* A winner that the deletion has not seen holds the unique key FIRST.       *)
PlaceWinners(r) ==
    /\ pc[r] = "place"
    /\ IF winners \subseteq job[r].seen
       THEN Podium(r, job[r].podium) ELSE Leave(r, "failed")

(* A statement fails, a lock is not had in time, or the process dies.        *)
Abort(r) == pc[r] \notin Answered /\ Leave(r, "failed")

Start(r) ==
    \/ Seed(r) \/ Reset(r) \/ ResetVotes(r)
    \/ \E force \in BOOLEAN : DeclareWinners(r, force)
    \/ \E s \in Stages :
         \/ RemoveStage(r, s) \/ EliminateBottom(r, s)
         \/ \E status \in Choices \cap StageStatus :
              CreateStage(r, s, status) \/ UpdateStage(r, s, status)
         \/ \E c \in Contestants : Submit(r, c, s) \/ Cast(r, c, s)
    \/ \E c \in Contestants :
         \/ RemoveFromPublic(r, c)
         \/ \E status \in Choices \cap ContestantStatus : UpdateStatus(r, c, status)
         \/ \E s \in Stages, status \in SubmissionStatus \cup {"ABSENT"} :
              Review(r, c, s, status)

Proceed(r) ==
    \/ ActiveStageRule(r) \/ WriteStage(r) \/ DeleteStage(r) \/ SeedStage(r)
    \/ FindContestant(r) \/ InsertEntry(r) \/ WriteReview(r)
    \/ SetStanding(r) \/ RejectEntries(r) \/ PutOut(r)
    \/ CheckStage(r) \/ CastVote(r) \/ ZeroVotes(r) \/ DeleteVotes(r)
    \/ Rank(r) \/ Eliminate(r)
    \/ Leaderboard(r) \/ DeleteWinners(r) \/ PlaceWinners(r)

Next ==
    \/ \E c \in Contestants : Register(c)
    \/ \E r \in Reqs : Start(r) \/ Proceed(r) \/ Abort(r)

Spec == Init /\ [][Next]_vars

(***************************************************************************)
(* Properties.                                                             *)
(***************************************************************************)
Winner == [place: 1..3, con: Contestants, score: Nat, edition: 1..MaxEditions]

TypeOK ==
    /\ workload \in Workloads
    /\ stage \in [Stages -> StageStatus \cup {"ABSENT"}]
    /\ standing \in [Contestants -> ContestantStatus \cup {"ABSENT"}]
    /\ since \in [Contestants -> Nat]
    /\ votes \in [Contestants -> 0..MaxVotes] /\ ballots \in [Contestants -> 0..MaxVotes]
    /\ engagement \in [Contestants -> Nat]
    /\ entry \in [Contestants -> [Stages -> SubmissionStatus \cup {"ABSENT"}]]
    /\ winners \subseteq Winner
    /\ editions \in 0..MaxEditions
    /\ removed \subseteq Contestants /\ unzeroed \subseteq Contestants
    /\ excused \subseteq Contestants \X Stages

(* A stage becomes ACTIVE next to another only if the other was written      *)
(* between the check of the rule and the write: never against a stage that   *)
(* the check could see.  The seed does not look.                             *)
OneActive ==
    [][\A r \in Reqs : \A s, t \in Stages :
         /\ pc[r] = "write stage" /\ pc'[r] = "idle"
         /\ stage[s] # "ACTIVE" /\ stage'[s] = "ACTIVE" /\ s # t /\ stage[t] = "ACTIVE"
         => <<"stage", t>> \in missed[r]]_vars

(* Until they are let in again, the entries of contestants who were removed, *)
(* or put out by a reset, are rejected: but for those that an administrator  *)
(* reviewed since, and those of a request that had found the contestant in   *)
(* good standing.                                                            *)
RemovedAreHidden ==
    \A c \in removed, s \in Stages :
        entry[c][s] \notin {"ABSENT", "REJECTED"} => <<c, s>> \in excused

(* Votes that count are backed by rows: a counter exceeds its rows only for  *)
(* somebody who registered while the votes were being reset.                 *)
CounterBacked ==
    \A c \in Contestants : votes[c] > ballots[c] => c \in unzeroed

(* Nobody gains votes who is out of the race, unless put out after the vote  *)
(* was checked.                                                              *)
VotesForStanding ==
    [][\A c \in Contestants : votes'[c] > votes[c] =>
         \/ c \in Standing
         \/ \E r \in Reqs : pc[r] = "cast" /\ job[r].con = c
                            /\ <<"standing", c>> \in missed[r]]_vars

(* Whoever is eliminated is no better than anybody who stays: unless votes   *)
(* or statuses of the two changed after the ranking was read.                *)
FairElimination ==
    [][\A r \in Reqs :
         pc[r] = "eliminate" /\ pc'[r] = "idle" =>
           \A c \in job[r].ids, d \in Standing \ job[r].ids :
             \/ \E x \in {c, d} : {<<"votes", x>>, <<"standing", x>>} \cap missed[r] # {}
             \/ /\ votes[c] <= votes[d]
                /\ votes[c] = votes[d] => engagement[c] <= engagement[d]]_vars

(* The winners are always those of one declaration: the places from FIRST    *)
(* on, each once, no contestant twice, and no better score on a lower place. *)
(* Declarations and resets overlap in any way.                               *)
PodiumOK ==
    /\ \A v, w \in winners :
         /\ v.edition = w.edition
         /\ (v.con = w.con \/ v.place = w.place) => v = w
         /\ v.place < w.place => v.score >= w.score
    /\ \A w \in winners : \A p \in 1..w.place : \E v \in winners : v.place = p

(* declareWinners ranks first and writes later: at the commit the winners    *)
(* still stand, have the scores written for them, and nobody they left       *)
(* behind has a better one - unless a vote or a status changed in between.   *)
PodiumIsCurrent ==
    [][\A r \in Reqs :
         pc[r] = "place" /\ pc'[r] = "idle" =>
           \/ \E c \in Contestants : {<<"votes", c>>, <<"standing", c>>} \cap missed[r] # {}
           \/ /\ \A w \in winners' : w.con \in Standing /\ w.score = CombinedScore(w.con)
              /\ \A c \in Standing :
                   \/ \E w \in winners' : w.con = c
                   \/ /\ \E w \in winners' : w.place = 3
                      /\ \A w \in winners' : w.score >= CombinedScore(c)]_vars
=============================================================================
