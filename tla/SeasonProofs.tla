----------------------------- MODULE SeasonProofs -----------------------------
(***************************************************************************)
(* Proofs about Season, for any contestants, stages and requests, and any  *)
(* mix of operations.                                                      *)
(***************************************************************************)
EXTENDS Season, FiniteSetTheorems, WellFoundedInduction, TLAPS

Locs == Answered \cup
    {"rule", "write stage", "remove stage", "seed", "find contestant", "insert", "review",
     "set standing", "reject entries", "put out", "check stage", "cast", "zero votes",
     "delete votes", "rank", "eliminate", "leaderboard", "delete winners", "place"}

Job == [op: {None, "create", "update", "remove"},
        con: Contestants \cup {None}, at: Stages \cup {None},
        what: StageStatus \cup ContestantStatus \cup SubmissionStatus \cup {"ABSENT", None},
        ids: SUBSET Contestants, num: Nat, podium: SUBSET Winner,
        seen: (SUBSET (Contestants \X Stages)) \cup (SUBSET Winner)]

Typed == TypeOK /\ pc \in [Reqs -> Locs] /\ job \in [Reqs -> Job]

(* What a request holds at each statement.                                   *)
HoldsAt(r) ==
    /\ pc[r] \in {"rule", "write stage"} =>
         /\ job[r].op \in {"create", "update"} /\ job[r].what \in StageStatus
         /\ job[r].op = "create" => job[r].at # None
    /\ pc[r] = "seed" => job[r].num \in 1..Len(SeedStages)
    /\ pc[r] \in {"find contestant", "insert", "review", "set standing", "check stage",
                  "cast"} => job[r].con # None
    /\ pc[r] = "review" => job[r].what \in SubmissionStatus \cup {"ABSENT"}
    /\ pc[r] = "set standing" => job[r].what \in ContestantStatus
    /\ pc[r] = "put out" => job[r].seen \subseteq Contestants \X Stages
    /\ pc[r] = "leaderboard" => job[r].num \in 1..MaxEditions

Holds == \A r \in Reqs : HoldsAt(r)

(* The winners of one declaration.                                           *)
Whole(W) ==
    /\ \A v, w \in W :
         /\ v.edition = w.edition
         /\ (v.con = w.con \/ v.place = w.place) => v = w
         /\ v.place < w.place => v.score >= w.score
    /\ \A w \in W : \A p \in 1..w.place : \E v \in W : v.place = p

(* Votes or status have changed since r looked.                              *)
Touched(r, c) == <<"votes", c>> \in missed[r] \/ <<"standing", c>> \in missed[r]

NoBetter(c, d) ==
    votes[c] <= votes[d] /\ (votes[c] = votes[d] => engagement[c] <= engagement[d])

(* What a request has read still holds, but for what it has missed.          *)
Knows(r) ==
    /\ pc[r] = "write stage" /\ job[r].what = "ACTIVE" =>
         \A t \in Stages : stage[t] = "ACTIVE" =>
             (job[r].op = "update" /\ t = job[r].at) \/ <<"stage", t>> \in missed[r]
    /\ pc[r] \in {"insert", "check stage", "cast"} =>
         job[r].con \in Standing \/ <<"standing", job[r].con>> \in missed[r]
    /\ pc[r] \in {"set standing", "check stage", "cast"} => job[r].con \in Entered
    /\ job[r].ids \subseteq Entered
    /\ pc[r] = "delete votes" =>
         \A c \in Entered \ job[r].ids : <<"joined", c>> \in missed[r]
    /\ pc[r] = "eliminate" =>
         \A c \in job[r].ids, d \in Standing \ job[r].ids :
             Touched(r, c) \/ Touched(r, d) \/ NoBetter(c, d)
    /\ pc[r] \in {"delete winners", "place"} => Whole(job[r].podium)

(***************************************************************************)
(* Types.                                                                  *)
(***************************************************************************)
LEMMA NoJobTyped == NoJob \in Job
  BY DEF NoJob, Job

LEMMA GotoTyped ==
  ASSUME Typed, NEW r \in Reqs, NEW loc \in Locs, NEW j \in Job, Goto(r, loc, j)
  PROVE  /\ pc' \in [Reqs -> Locs] /\ job' \in [Reqs -> Job]
         /\ pc'[r] = loc /\ job'[r] = IF loc \in Answered THEN NoJob ELSE j
         /\ \A q \in Reqs \ {r} : pc'[q] = pc[q] /\ job'[q] = job[q]
  BY NoJobTyped DEF Goto, Typed

(* A request that is answered holds nothing.                                 *)
LEMMA HoldsElsewhere ==
  ASSUME Holds, NEW r \in Reqs,
         \A q \in Reqs \ {r} : pc'[q] = pc[q] /\ job'[q] = job[q],
         HoldsAt(r)'
  PROVE  Holds'
<1>1. ASSUME NEW q \in Reqs \ {r} PROVE HoldsAt(q)'
  <2>1. HoldsAt(q) /\ pc'[q] = pc[q] /\ job'[q] = job[q]
    BY DEF Holds
  <2> QED BY <2>1 DEF HoldsAt
<1> QED BY <1>1 DEF Holds

LEMMA AnsweredHolds ==
  ASSUME NEW r \in Reqs, pc'[r] \in Answered PROVE HoldsAt(r)'
  BY DEF HoldsAt, Answered

LEMMA InitTyped == Init => Typed /\ Holds
<1> SUFFICES ASSUME Init PROVE Typed /\ Holds
  OBVIOUS
<1> USE SeasonAssumption DEF SeasonAssumption
<1>1. TypeOK
  BY DEF Init, TypeOK, StageStatus, ContestantStatus, SubmissionStatus
<1>2. pc \in [Reqs -> Locs] /\ job \in [Reqs -> Job]
  BY NoJobTyped DEF Init, Locs, Answered
<1>3. Holds
  BY DEF Init, Holds, HoldsAt
<1> QED BY <1>1, <1>2, <1>3 DEF Typed

(* The registers of a request that begins.                                   *)
LEMMA BeginTyped ==
  ASSUME Typed, Holds, NEW r \in Reqs, NEW op, NEW j \in Job, NEW loc \in Locs,
         Begin(r, op, j, loc), UNCHANGED <<removed, excused, unzeroed>>,
         editions' \in 0..MaxEditions,
         HoldsAt(r)'
  PROVE  Typed' /\ Holds'
<1>1. Goto(r, loc, j)
  BY DEF Begin
<1>2. UNCHANGED <<workload, rows, missed>>
  BY DEF Begin
<1>3. TypeOK'
  BY <1>2 DEF Typed, TypeOK, rows, history
<1> QED BY <1>1, <1>3, GotoTyped, HoldsElsewhere DEF Typed

(***************************************************************************)
(* A request that begins holds and knows what its first statement needs.   *)
(***************************************************************************)
Begun(r) == Typed' /\ Holds' /\ Knows(r)'

LEMMA BegunWell ==
  ASSUME Typed, Holds, NEW r \in Reqs, NEW op, NEW j \in Job, NEW loc \in Locs \ Answered,
         Begin(r, op, j, loc), UNCHANGED <<removed, excused, unzeroed>>,
         editions' \in 0..MaxEditions,
         pc'[r] = loc /\ job'[r] = j => HoldsAt(r)' /\ Knows(r)'
  PROVE  Begun(r)
<1>1. pc'[r] = loc /\ job'[r] = j
  BY GotoTyped DEF Begin
<1> QED BY <1>1, BeginTyped DEF Begun

LEMMA Starts ==
  ASSUME Typed, Holds, NEW r \in Reqs, Start(r) PROVE Begun(r)
<1>0. /\ MaxEditions \in Nat /\ editions \in 0..MaxEditions
      /\ Entered \subseteq Contestants /\ None \notin Contestants \cup Stages
  BY SeasonAssumption DEF SeasonAssumption, Typed, TypeOK, Entered
<1>1. ASSUME Seed(r) PROVE Begun(r)
  <2>1. [NoJob EXCEPT !.num = 1] \in Job
    BY DEF NoJob, Job
  <2>2. Len(SeedStages) \in Nat /\ 1 \in 1..Len(SeedStages)
    BY SeasonAssumption DEF SeasonAssumption
  <2> QED BY <1>0, <1>1, <2>1, <2>2, BegunWell
       DEF Seed, history, HoldsAt, Knows, NoJob, Locs, Answered
<1>2. ASSUME Reset(r) PROVE Begun(r)
  <2>1. [NoJob EXCEPT !.ids = Entered] \in Job
    BY <1>0 DEF NoJob, Job
  <2>2. rows' = rows
    BY <1>2 DEF Reset, Begin
  <2>3. Entered' = Entered
    BY <2>2 DEF Entered, rows
  <2> QED BY <1>0, <1>2, <2>1, <2>3, BegunWell
       DEF Reset, history, HoldsAt, Knows, NoJob, Locs, Answered
<1>3. ASSUME ResetVotes(r) PROVE Begun(r)
  <2>1. /\ Begin(r, "reset votes", NoJob, "zero votes")
        /\ UNCHANGED <<removed, excused, unzeroed>> /\ editions' \in 0..MaxEditions
    BY <1>0, <1>3 DEF ResetVotes, history
  <2>2. "zero votes" \in Locs \ Answered
    BY DEF Locs, Answered
  <2>3. ASSUME pc'[r] = "zero votes", job'[r] = NoJob PROVE HoldsAt(r)' /\ Knows(r)'
    <3>1. NoJob.ids = {}
      BY DEF NoJob
    <3> QED BY <2>3, <3>1 DEF HoldsAt, Knows
  <2> QED BY <2>1, <2>2, <2>3, NoJobTyped, BegunWell
<1>4. ASSUME NEW force \in BOOLEAN, DeclareWinners(r, force) PROVE Begun(r)
  <2> DEFINE j == [NoJob EXCEPT !.num = editions + 1]
  <2>1. editions < MaxEditions /\ editions' = editions + 1
    BY <1>4 DEF DeclareWinners
  <2>2. editions + 1 \in 1..MaxEditions
    BY <1>0, <2>1
  <2>3. j \in Job /\ j.num = editions + 1 /\ j.ids = {}
    BY <2>2 DEF NoJob, Job
  <2>4. Begin(r, "declare", j, "leaderboard") /\ UNCHANGED <<removed, excused, unzeroed>>
    BY <1>4 DEF DeclareWinners
  <2>5. "leaderboard" \in Locs \ Answered
    BY DEF Locs, Answered
  <2> HIDE DEF j
  <2>6. ASSUME pc'[r] = "leaderboard", job'[r] = j PROVE HoldsAt(r)' /\ Knows(r)'
    BY <2>2, <2>3, <2>6 DEF HoldsAt, Knows
  <2> QED BY <2>1, <2>2, <2>3, <2>4, <2>5, <2>6, BegunWell
<1>5. ASSUME NEW s \in Stages, RemoveStage(r, s) PROVE Begun(r)
  <2>1. [NoJob EXCEPT !.op = "remove", !.at = s] \in Job
    BY DEF NoJob, Job
  <2> QED BY <1>0, <1>5, <2>1, BegunWell
       DEF RemoveStage, history, HoldsAt, Knows, NoJob, Locs, Answered
<1>6. ASSUME NEW s \in Stages, EliminateBottom(r, s) PROVE Begun(r)
  <2>1. [NoJob EXCEPT !.num = Percentage[s]] \in Job
    <3>1. Percentage \in [Stages -> 0..100]
      BY SeasonAssumption DEF SeasonAssumption
    <3>2. Percentage[s] \in Nat
      BY <3>1
    <3> QED BY <3>2 DEF NoJob, Job
  <2> QED BY <1>0, <1>6, <2>1, BegunWell
       DEF EliminateBottom, history, HoldsAt, Knows, NoJob, Locs, Answered
<1>7. ASSUME NEW s \in Stages, NEW status \in StageStatus,
             CreateStage(r, s, status) \/ UpdateStage(r, s, status) PROVE Begun(r)
  <2>1. PICK op \in {"create", "update"} :
          /\ Begin(r, "stages", [NoJob EXCEPT !.op = op, !.at = s, !.what = status],
                   WriteOrRule(status))
          /\ UNCHANGED history
    BY <1>7 DEF CreateStage, UpdateStage
  <2>2. [NoJob EXCEPT !.op = op, !.at = s, !.what = status] \in Job
    BY DEF NoJob, Job
  <2> DEFINE j == [NoJob EXCEPT !.op = op, !.at = s, !.what = status]
  <2>3. j.op = op /\ j.at = s /\ j.what = status /\ j.ids = {} /\ s # None
    BY SeasonAssumption DEF SeasonAssumption, NoJob
  <2>4. WriteOrRule(status) \in {"rule", "write stage"}
        /\ (WriteOrRule(status) = "write stage" => status # "ACTIVE")
    BY DEF WriteOrRule
  <2>5. WriteOrRule(status) \in Locs \ Answered
    BY <2>4 DEF Locs, Answered
  <2>6. UNCHANGED <<removed, excused, unzeroed>> /\ editions' \in 0..MaxEditions
    BY <1>0, <2>1 DEF history
  <2> HIDE DEF j
  <2>7. ASSUME pc'[r] = WriteOrRule(status), job'[r] = j PROVE HoldsAt(r)' /\ Knows(r)'
    BY <2>3, <2>4, <2>7 DEF HoldsAt, Knows
  <2> QED BY <2>1, <2>2, <2>5, <2>6, <2>7, BegunWell DEF j
<1>8. ASSUME NEW c \in Contestants, NEW s \in Stages, Submit(r, c, s) PROVE Begun(r)
  <2>1. [NoJob EXCEPT !.con = c, !.at = s] \in Job
    BY DEF NoJob, Job
  <2> QED BY <1>0, <1>8, <2>1, BegunWell
       DEF Submit, history, HoldsAt, Knows, NoJob, Locs, Answered
<1>9. ASSUME NEW c \in Contestants, NEW s \in Stages, Cast(r, c, s) PROVE Begun(r)
  <2>1. [NoJob EXCEPT !.con = c, !.at = s] \in Job
    BY DEF NoJob, Job
  <2>2. c \in Standing' /\ c \in Entered'
    BY <1>9 DEF Cast, CanGetVotes, Begin, Standing, Entered, rows
  <2> QED BY <1>0, <1>9, <2>1, <2>2, BegunWell
       DEF Cast, history, HoldsAt, Knows, NoJob, Locs, Answered
<1>10. ASSUME NEW c \in Contestants, RemoveFromPublic(r, c) PROVE Begun(r)
  <2>1. [NoJob EXCEPT !.con = c, !.ids = {c}] \in Job
    BY DEF NoJob, Job
  <2>2. c \in Entered'
    BY <1>10 DEF RemoveFromPublic, Begin, Entered, rows
  <2>3. /\ Begin(r, "remove", [NoJob EXCEPT !.con = c, !.ids = {c}], "reject entries")
        /\ UNCHANGED <<removed, excused, unzeroed>> /\ editions' \in 0..MaxEditions
    BY <1>0, <1>10 DEF RemoveFromPublic, history
  <2>4. "reject entries" \in Locs \ Answered
    BY DEF Locs, Answered
  <2>5. ASSUME pc'[r] = "reject entries",
               job'[r] = [NoJob EXCEPT !.con = c, !.ids = {c}]
        PROVE  HoldsAt(r)' /\ Knows(r)'
    <3>1. /\ job'[r].con = c /\ job'[r].ids = {c} /\ job'[r].op = None
          /\ c # None
      BY <2>5, SeasonAssumption DEF NoJob, SeasonAssumption
    <3>2. HoldsAt(r)'
      BY <2>5, <3>1 DEF HoldsAt
    <3>3. Knows(r)'
      BY <2>2, <2>5, <3>1 DEF Knows
    <3> QED BY <3>2, <3>3
  <2> QED BY <2>1, <2>3, <2>4, <2>5, BegunWell
<1>11. ASSUME NEW c \in Contestants, NEW status \in ContestantStatus,
              UpdateStatus(r, c, status) PROVE Begun(r)
  <2>1. [NoJob EXCEPT !.con = c, !.what = status] \in Job
    BY DEF NoJob, Job
  <2>2. c \in Entered'
    BY <1>11 DEF UpdateStatus, Begin, Entered, rows
  <2> QED BY <1>0, <1>11, <2>1, <2>2, BegunWell
       DEF UpdateStatus, history, HoldsAt, Knows, NoJob, Locs, Answered
<1>12. ASSUME NEW c \in Contestants, NEW s \in Stages,
              NEW status \in SubmissionStatus \cup {"ABSENT"}, Review(r, c, s, status)
       PROVE  Begun(r)
  <2>1. [NoJob EXCEPT !.con = c, !.at = s, !.what = status] \in Job
    BY DEF NoJob, Job
  <2> QED BY <1>0, <1>12, <2>1, BegunWell
       DEF Review, history, HoldsAt, Knows, NoJob, Locs, Answered
<1> QED BY <1>1, <1>2, <1>3, <1>4, <1>5, <1>6, <1>7, <1>8, <1>9, <1>10, <1>11, <1>12
     DEF Start

(***************************************************************************)
(* Types of the statements that follow.                                    *)
(***************************************************************************)
LEMMA LeavesTyped ==
  ASSUME Typed, Holds, NEW r \in Reqs, NEW answer \in Answered, Leave(r, answer)
  PROVE  Typed' /\ Holds' /\ pc'[r] \in Answered /\ job'[r] = NoJob
<1>1. TypeOK'
  BY DEF Typed, TypeOK, Leave, rows, history
<1>2. Goto(r, answer, NoJob) /\ answer \in Locs
  BY DEF Leave, Locs
<1> QED BY <1>1, <1>2, NoJobTyped, GotoTyped, AnsweredHolds, HoldsElsewhere DEF Typed

LEMMA MovesTyped ==
  ASSUME Typed, Holds, NEW r \in Reqs, NEW loc \in Locs \ Answered, NEW j \in Job,
         Move(r, loc, j), pc'[r] = loc /\ job'[r] = j => HoldsAt(r)'
  PROVE  Typed' /\ Holds' /\ pc'[r] = loc /\ job'[r] = j
<1>1. TypeOK'
  BY DEF Typed, TypeOK, Move, rows, history
<1>2. Goto(r, loc, j)
  BY DEF Move
<1> QED BY <1>1, <1>2, GotoTyped, HoldsElsewhere DEF Typed

LEMMA WrotesTyped ==
  ASSUME Typed, Holds, NEW r \in Reqs, NEW facts, Wrote(r, facts), TypeOK'
  PROVE  /\ Typed' /\ Holds' /\ pc'[r] \in Answered /\ job'[r] = NoJob
         /\ \A q \in Reqs \ {r} : pc'[q] = pc[q] /\ job'[q] = job[q]
<1>1. Goto(r, "idle", NoJob) /\ "idle" \in Locs /\ "idle" \in Answered
  BY DEF Wrote, Locs, Answered
<1> QED BY <1>1, NoJobTyped, GotoTyped, AnsweredHolds, HoldsElsewhere DEF Typed

Done(r) == pc'[r] \in Answered /\ job'[r] = NoJob

(* What Holds gives at a statement.                                          *)
LEMMA JobIs ==
  ASSUME Typed, Holds, NEW r \in Reqs PROVE HoldsAt(r) /\ job[r] \in Job
  BY DEF Typed, Holds

LEMMA WriteStageTyped ==
  ASSUME Typed, Holds, NEW r \in Reqs, WriteStage(r)
  PROVE  Typed' /\ Holds' /\ Done(r)
<1>1. CASE Leave(r, "failed")
  BY <1>1, LeavesTyped DEF Answered, Done
<1>2. CASE ~Leave(r, "failed")
  <2> DEFINE s == job[r].at
  <2>1. /\ pc[r] = "write stage" /\ s # None
        /\ stage' = [stage EXCEPT ![s] = job[r].what]
        /\ Wrote(r, {<<"stage", s>>})
        /\ UNCHANGED <<standing, since, votes, engagement, ballots, entry, winners,
                       history>>
    BY <1>2 DEF WriteStage
  <2>2. job[r].what \in StageStatus
    BY <2>1, JobIs DEF HoldsAt
  <2>3. TypeOK'
    BY <2>1, <2>2 DEF Typed, TypeOK, Wrote, history
  <2> QED BY <2>1, <2>3, WrotesTyped DEF Done
<1> QED BY <1>1, <1>2

LEMMA DeleteStageTyped ==
  ASSUME Typed, Holds, NEW r \in Reqs, DeleteStage(r)
  PROVE  Typed' /\ Holds' /\ Done(r)
<1>1. CASE Leave(r, "failed")
  BY <1>1, LeavesTyped DEF Answered, Done
<1>2. CASE ~Leave(r, "failed")
  <2> DEFINE s == job[r].at
  <2>1. /\ pc[r] = "remove stage" /\ s # None
        /\ stage' = [stage EXCEPT ![s] = "ABSENT"]
        /\ entry' = [c \in Contestants |-> [entry[c] EXCEPT ![s] = "ABSENT"]]
        /\ excused' = excused \ (Contestants \X {s})
        /\ pc' = [pc EXCEPT ![r] = "idle"]
        /\ job' = [q \in Reqs |-> IF q = r THEN NoJob
                                  ELSE IF job[q].at = s /\ job[q].op # "create"
                                  THEN [job[q] EXCEPT !.at = None] ELSE job[q]]
        /\ UNCHANGED <<workload, standing, since, votes, engagement, ballots, winners,
                       editions, removed, unzeroed>>
    BY <1>2 DEF DeleteStage
  <2>2. TypeOK'
    BY <2>1 DEF Typed, TypeOK
  <2>3. pc' \in [Reqs -> Locs]
    BY <2>1 DEF Typed, Locs, Answered
  <2>4. \A q \in Reqs : job[q] \in Job /\ [job[q] EXCEPT !.at = None] \in Job
    BY DEF Typed, Job
  <2>5. job' \in [Reqs -> Job]
    BY <2>1, <2>4, NoJobTyped
  <2>6. ASSUME NEW q \in Reqs PROVE HoldsAt(q)'
    <3>1. CASE q = r
      BY <2>1, <3>1, AnsweredHolds DEF Answered, Typed
    <3>2. CASE q # r
      <4>1. pc'[q] = pc[q]
        BY <2>1, <3>2 DEF Typed
      <4>2. \/ job'[q] = job[q]
            \/ job[q].op # "create" /\ job'[q] = [job[q] EXCEPT !.at = None]
        BY <2>1, <3>2
      <4>3. HoldsAt(q) /\ job[q] \in Job
        BY DEF Holds, Typed
      <4>4. /\ job'[q].op = job[q].op /\ job'[q].con = job[q].con
            /\ job'[q].what = job[q].what /\ job'[q].num = job[q].num
            /\ job'[q].seen = job[q].seen
            /\ job'[q].at = job[q].at \/ job[q].op # "create"
        BY <4>2, <4>3 DEF Job
      <4> QED BY <4>1, <4>3, <4>4 DEF HoldsAt
    <3> QED BY <3>1, <3>2
  <2> QED BY <2>1, <2>2, <2>3, <2>5, <2>6 DEF Typed, Holds, Done, Answered
<1> QED BY <1>1, <1>2

LEMMA SeqElement ==
  ASSUME NEW S, NEW q \in Seq(S), NEW i \in 1..Len(q) PROVE q[i] \in S
  OBVIOUS

LEMMA SeedStageTyped ==
  ASSUME Typed, Holds, NEW r \in Reqs, SeedStage(r)
  PROVE  Typed' /\ Holds' /\ (Done(r) \/ (pc'[r] = "seed" /\ job'[r].ids = job[r].ids))
<1> DEFINE k == job[r].num
           row == SeedStages[k]
           loc == IF k = Len(SeedStages) THEN "idle" ELSE "seed"
           j == [job[r] EXCEPT !.num = k + 1]
<1>1. SeedStages \in Seq([stage: Stages, status: StageStatus])
  BY SeasonAssumption DEF SeasonAssumption
<1>2. k \in 1..Len(SeedStages)
  BY JobIs DEF SeedStage, HoldsAt
<1>3. row.stage \in Stages /\ row.status \in StageStatus
  <2>1. \A i \in 1..Len(SeedStages) : SeedStages[i] \in [stage: Stages, status: StageStatus]
    BY <1>1, SeqElement
  <2> HIDE DEF k
  <2>2. row \in [stage: Stages, status: StageStatus]
    BY <1>2, <2>1
  <2> HIDE DEF row
  <2> QED BY <2>2
<1>4. /\ stage' = [stage EXCEPT ![row.stage] = row.status]
      /\ Goto(r, loc, j)
      /\ UNCHANGED <<workload, standing, since, votes, engagement, ballots, entry, winners,
                     history>>
  BY DEF SeedStage
<1>5. TypeOK'
  BY <1>3, <1>4 DEF Typed, TypeOK, history
<1>6. loc \in Locs /\ (loc \in Answered \/ loc = "seed")
  BY DEF Locs, Answered
<1>7. j \in Job /\ j.num = k + 1 /\ j.ids = job[r].ids
  BY JobIs, <1>2 DEF Job
<1>8. /\ pc' \in [Reqs -> Locs] /\ job' \in [Reqs -> Job]
      /\ pc'[r] = loc /\ job'[r] = IF loc \in Answered THEN NoJob ELSE j
      /\ \A q \in Reqs \ {r} : pc'[q] = pc[q] /\ job'[q] = job[q]
  <2> HIDE DEF loc, j
  <2> QED BY <1>4, <1>6, <1>7, GotoTyped
<1>9. HoldsAt(r)'
  <2>1. CASE k = Len(SeedStages)
    BY <1>8, <2>1, AnsweredHolds DEF Answered
  <2>2. CASE k # Len(SeedStages)
    <3>1. pc'[r] = "seed" /\ job'[r] = j
      BY <1>8, <2>2 DEF Answered
    <3>2. k + 1 \in 1..Len(SeedStages)
      BY <1>1, <1>2, <2>2
    <3> HIDE DEF j
    <3> QED BY <3>1, <3>2, <1>7 DEF HoldsAt
  <2> QED BY <2>1, <2>2
<1>10. Done(r) \/ (pc'[r] = "seed" /\ job'[r].ids = job[r].ids)
  <2> HIDE DEF j
  <2> QED BY <1>7, <1>8 DEF Done, Answered
<1> QED BY <1>5, <1>8, <1>9, <1>10, HoldsElsewhere DEF Typed

LEMMA EntryTyped ==
  ASSUME Typed, Holds, NEW r \in Reqs, InsertEntry(r) \/ WriteReview(r)
  PROVE  Typed' /\ Holds' /\ Done(r)
<1>1. CASE Leave(r, "failed")
  BY <1>1, LeavesTyped DEF Answered, Done
<1>2. CASE ~Leave(r, "failed")
  <2> DEFINE c == job[r].con
             s == job[r].at
  <2>1. /\ pc[r] \in {"insert", "review"} /\ s # None
        /\ excused' = excused \/ excused' = excused \cup {<<c, s>>}
        /\ Wrote(r, {<<"entry", c>>})
        /\ UNCHANGED <<stage, standing, since, votes, engagement, ballots, winners,
                       editions, removed, unzeroed>>
    BY <1>2 DEF InsertEntry, WriteReview
  <2>2. \E x \in SubmissionStatus \cup {"ABSENT"} : entry' = [entry EXCEPT ![c][s] = x]
    BY <1>2, JobIs DEF InsertEntry, WriteReview, WriteEntry, HoldsAt, SubmissionStatus
  <2>3. c \in Contestants /\ s \in Stages
    BY <2>1, JobIs DEF HoldsAt, Job
  <2>4. entry' \in [Contestants -> [Stages -> SubmissionStatus \cup {"ABSENT"}]]
    BY <2>2, <2>3 DEF Typed, TypeOK
  <2>5. TypeOK'
    BY <2>1, <2>3, <2>4 DEF Typed, TypeOK, Wrote
  <2> QED BY <2>1, <2>5, WrotesTyped DEF Done
<1> QED BY <1>1, <1>2

LEMMA SetStandingTyped ==
  ASSUME Typed, Holds, NEW r \in Reqs, SetStanding(r)
  PROVE  Typed' /\ Holds' /\ Done(r)
<1>1. job[r].what \in ContestantStatus
  BY JobIs DEF HoldsAt, SetStanding
<1>2. TypeOK'
  BY <1>1 DEF SetStanding, Typed, TypeOK, Wrote
<1> QED BY <1>2, WrotesTyped DEF SetStanding, Done

LEMMA PutOutTyped ==
  ASSUME Typed, Holds, NEW r \in Reqs, PutOut(r)
  PROVE  Typed' /\ Holds' /\ Done(r)
<1> DEFINE out == job[r].ids
<1>1. out \subseteq Contestants /\ job[r].seen \subseteq Contestants \X Stages
  BY JobIs DEF HoldsAt, PutOut, Job
<1>2. MaxVotes \in Nat
  BY SeasonAssumption DEF SeasonAssumption
<1>3. standing' \in [Contestants -> ContestantStatus \cup {"ABSENT"}]
  BY DEF Set, PutOut, Typed, TypeOK, ContestantStatus
<1>4. votes' \in [Contestants -> 0..MaxVotes]
  <2>1. 0 \in 0..MaxVotes
    BY <1>2
  <2> QED BY <2>1 DEF Set, PutOut, Typed, TypeOK
<1>5. engagement' \in [Contestants -> Nat]
  BY DEF Set, PutOut, Typed, TypeOK
<1>6. entry' \in [Contestants -> [Stages -> SubmissionStatus \cup {"ABSENT"}]]
  BY DEF PutOut, Rejected, Typed, TypeOK, SubmissionStatus
<1>7. winners' \subseteq Winner
  BY DEF PutOut, Typed, TypeOK
<1>8. removed' \subseteq Contestants /\ excused' \subseteq Contestants \X Stages
  BY <1>1 DEF PutOut, Typed, TypeOK, Entries
<1>9. TypeOK'
  BY <1>3, <1>4, <1>5, <1>6, <1>7, <1>8 DEF PutOut, Wrote, Typed, TypeOK
<1> QED BY <1>9, WrotesTyped DEF PutOut, Done

LEMMA CastVoteTyped ==
  ASSUME Typed, Holds, NEW r \in Reqs, CastVote(r)
  PROVE  Typed' /\ Holds' /\ Done(r)
<1>1. CASE Leave(r, "failed")
  BY <1>1, LeavesTyped DEF Answered, Done
<1>2. CASE ~Leave(r, "failed")
  <2> DEFINE c == job[r].con
  <2>1. /\ pc[r] = "cast" /\ votes[c] < MaxVotes /\ ballots[c] < MaxVotes
        /\ votes' = [votes EXCEPT ![c] = @ + 1] /\ ballots' = [ballots EXCEPT ![c] = @ + 1]
        /\ Wrote(r, {<<"votes", c>>})
        /\ UNCHANGED <<stage, standing, since, engagement, entry, winners, history>>
    BY <1>2 DEF CastVote
  <2>2. c \in Contestants
    BY <2>1, JobIs DEF HoldsAt, Job
  <2>3. MaxVotes \in Nat
    BY SeasonAssumption DEF SeasonAssumption
  <2>4. votes[c] + 1 \in 0..MaxVotes /\ ballots[c] + 1 \in 0..MaxVotes
    BY <2>1, <2>2, <2>3 DEF Typed, TypeOK
  <2>5. votes' \in [Contestants -> 0..MaxVotes] /\ ballots' \in [Contestants -> 0..MaxVotes]
    BY <2>1, <2>4 DEF Typed, TypeOK
  <2>6. TypeOK'
    BY <2>1, <2>5 DEF Typed, TypeOK, Wrote, history
  <2> QED BY <2>1, <2>6, WrotesTyped DEF Done
<1> QED BY <1>1, <1>2

LEMMA DeleteVotesTyped ==
  ASSUME Typed, Holds, NEW r \in Reqs, DeleteVotes(r)
  PROVE  Typed' /\ Holds' /\ Done(r)
<1>1. 0 \in 0..MaxVotes
  BY SeasonAssumption DEF SeasonAssumption
<1>2. votes' \in [Contestants -> 0..MaxVotes]
  BY <1>1 DEF Set, DeleteVotes, Typed, TypeOK
<1>3. TypeOK'
  BY <1>1, <1>2 DEF DeleteVotes, Typed, TypeOK, Wrote
<1> QED BY <1>3, WrotesTyped DEF DeleteVotes, Done

LEMMA EliminateTyped ==
  ASSUME Typed, Holds, NEW r \in Reqs, Eliminate(r)
  PROVE  Typed' /\ Holds' /\ Done(r)
<1>1. standing' \in [Contestants -> ContestantStatus \cup {"ABSENT"}]
  BY DEF Set, Eliminate, Typed, TypeOK, ContestantStatus
<1>2. TypeOK'
  BY <1>1 DEF Eliminate, Typed, TypeOK, Wrote
<1> QED BY <1>2, WrotesTyped DEF Eliminate, Done

LEMMA PlaceWinnersTyped ==
  ASSUME Typed, Holds, NEW r \in Reqs, PlaceWinners(r)
  PROVE  Typed' /\ Holds' /\ Done(r)
<1>1. CASE Leave(r, "failed")
  BY <1>1, LeavesTyped DEF Answered, Done
<1>2. CASE ~Leave(r, "failed")
  <2>1. Podium(r, job[r].podium)
    BY <1>2 DEF PlaceWinners
  <2>2. job[r].podium \subseteq Winner
    BY JobIs DEF Job
  <2>3. TypeOK'
    BY <2>1, <2>2 DEF Podium, Typed, TypeOK, Wrote, history
  <2> QED BY <2>1, <2>3, WrotesTyped DEF Podium, Done
<1> QED BY <1>1, <1>2

LEMMA RegisterTyped ==
  ASSUME Typed, Holds, NEW c \in Contestants, Register(c)
  PROVE  Typed' /\ Holds'
<1>1. IsFiniteSet(Entered)
  BY SeasonAssumption, FS_Subset DEF SeasonAssumption, Entered
<1>2. 1 + Cardinality(Entered) \in Nat
  BY <1>1, FS_CardinalityType
<1>3. TypeOK'
  BY <1>2 DEF Register, Typed, TypeOK, history, ContestantStatus
<1>4. pc' = pc /\ job' = job
  BY DEF Register
<1> QED BY <1>3, <1>4 DEF Typed, Holds, HoldsAt

(***************************************************************************)
(* Rankings.                                                               *)
(***************************************************************************)
LEMMA StandingFinite == IsFiniteSet(Standing) /\ IsFiniteSet(Entered)
  BY SeasonAssumption, FS_Subset DEF SeasonAssumption, Standing, Entered

(* A finite set of numbers has a largest one.                                *)
LEMMA Largest ==
  ASSUME NEW V, V \subseteq Nat, V # {}, IsFiniteSet(V)
  PROVE  \E m \in V : \A x \in V : x <= m
<1> DEFINE Above(m) == {x \in V : x > m}
           T == {Above(m) : m \in V}
<1>1. T \subseteq FiniteSubsetsOf(V) /\ T # {}
  <2>1. \A m \in V : Above(m) \in SUBSET V /\ IsFiniteSet(Above(m))
    BY FS_Subset
  <2> QED BY <2>1 DEF FiniteSubsetsOf
<1>2. IsWellFoundedOn(StrictSubsetOrdering(V), FiniteSubsetsOf(V))
  BY FS_StrictSubsetOrderingWellFounded
<1>3. PICK S \in T : \A U \in T : ~ (<<U, S>> \in StrictSubsetOrdering(V))
  <2> HIDE DEF T
  <2> QED BY <1>1, <1>2, WFMin
<1>4. PICK m \in V : S = Above(m)
  OBVIOUS
<1>5. ASSUME NEW x \in V PROVE x <= m
  <2> SUFFICES ASSUME x > m PROVE FALSE
    OBVIOUS
  <2>0. ~(x > x) /\ \A y \in V : y > x => y > m
    <3>1. \A a, b, d \in Nat : ~(a > a) /\ (a > b /\ b > d => a > d)
      OBVIOUS
    <3>2. V \subseteq Nat
      OBVIOUS
    <3> QED BY <3>1, <3>2
  <2>1. Above(x) \subseteq Above(m) /\ x \in Above(m) /\ x \notin Above(x)
    BY <2>0
  <2>2. Above(x) \in T /\ Above(x) \in SUBSET V /\ Above(m) \in SUBSET V
    <3>1. Above(x) \in SUBSET V /\ Above(m) \in SUBSET V
      OBVIOUS
    <3> HIDE DEF Above
    <3> QED BY <3>1
  <2> HIDE DEF T, Above
  <2>3. <<Above(x), Above(m)>> \in StrictSubsetOrdering(V)
    BY <2>1, <2>2 DEF StrictSubsetOrdering
  <2> QED BY <1>3, <1>4, <2>2, <2>3
<1> QED BY <1>5

LEMMA TopTyped ==
  ASSUME NEW f \in [Contestants -> Nat] PROVE Top(f) \in Nat
<1> DEFINE V == {f[c] : c \in Standing} \cup {1}
<1>1. IsFiniteSet({f[c] : c \in Standing})
  <2> DEFINE g == [c \in Standing |-> f[c]]
             T == {f[c] : c \in Standing}
  <2>1. g \in Surjection(Standing, T)
    BY DEF Surjection
  <2> QED BY <2>1, StandingFinite, FS_Surjection
<1>2. V \subseteq Nat /\ V # {} /\ IsFiniteSet(V)
  <2>1. V \subseteq Nat
    BY DEF Standing
  <2> QED BY <1>1, <2>1, FS_AddElement
<1>3. PICK m \in V : \A x \in V : x <= m
  <2> HIDE DEF V
  <2> QED BY <1>2, Largest
<1>4. m >= 1 /\ \A c \in Standing : f[c] <= m
  BY <1>3
<1>5. Top(f) \in V
  BY <1>4 DEF Top
<1> QED BY <1>2, <1>5

LEMMA ScoreTyped ==
  ASSUME TypeOK, NEW c \in Contestants PROVE CombinedScore(c) \in Nat
<1>1. votes \in [Contestants -> Nat] /\ engagement \in [Contestants -> Nat]
  <2>1. MaxVotes \in Nat
    BY SeasonAssumption DEF SeasonAssumption
  <2> QED BY <2>1 DEF TypeOK
<1>2. Top(votes) \in Nat /\ Top(engagement) \in Nat
  BY <1>1, TopTyped
<1>3. votes[c] \in Nat /\ engagement[c] \in Nat
  BY <1>1
<1>4. \A a, b \in Nat : a * b \in Nat
  OBVIOUS
<1>5. votes[c] * Top(engagement) \in Nat /\ engagement[c] * Top(votes) \in Nat
  BY <1>2, <1>3, <1>4
<1>6. \A a, b \in Nat : a + b \in Nat
  OBVIOUS
<1> QED BY <1>5, <1>6 DEF CombinedScore

(* Who is ahead of c in the combined ranking.                                *)
Ahead(c) == {d \in Standing : AheadCombined(d, c)}

(* Nobody registers at the same time as somebody else.                       *)
SinceDistinct ==
    \A c, d \in Entered : /\ since[c] <= Cardinality(Entered)
                          /\ since[c] = since[d] => c = d

LEMMA Ranked ==
  ASSUME TypeOK, NEW c \in Standing
  PROVE  /\ IsFiniteSet(Ahead(c)) /\ Cardinality(Ahead(c)) \in Nat
         /\ RankOf(c) = 1 + Cardinality(Ahead(c))
  BY StandingFinite, FS_Subset, FS_CardinalityType DEF Ahead, RankOf

LEMMA AheadIsOrder ==
  ASSUME TypeOK, SinceDistinct, NEW c \in Standing, NEW d \in Standing
  PROVE  /\ c \notin Ahead(c)
         /\ d \in Ahead(c) => Ahead(d) \subseteq Ahead(c)
         /\ c # d => c \in Ahead(d) \/ d \in Ahead(c)
         /\ d \notin Ahead(c) => CombinedScore(d) <= CombinedScore(c)
<1>1. \A x \in Standing : CombinedScore(x) \in Nat /\ since[x] \in Nat
  BY ScoreTyped DEF TypeOK, Standing
<1>2. c # d => since[c] # since[d]
  BY DEF SinceDistinct, Standing, Entered
<1> QED BY <1>1, <1>2 DEF Ahead, AheadCombined

LEMMA AheadIsBelow ==
  ASSUME TypeOK, SinceDistinct, NEW c \in Standing, NEW d \in Ahead(c)
  PROVE  RankOf(d) < RankOf(c)
<1>1. d \in Standing
  BY DEF Ahead
<1>2. Ahead(d) \subseteq Ahead(c) /\ d \notin Ahead(d)
  BY <1>1, AheadIsOrder
<1>3. /\ Cardinality(Ahead(d)) <= Cardinality(Ahead(c))
      /\ Cardinality(Ahead(d)) # Cardinality(Ahead(c))
  BY <1>1, <1>2, Ranked, FS_Subset
<1> QED BY <1>1, <1>3, Ranked

LEMMA RankDistinct ==
  ASSUME TypeOK, SinceDistinct, NEW c \in Standing, NEW d \in Standing,
         RankOf(c) = RankOf(d)
  PROVE  c = d
<1>1. RankOf(c) \in Nat /\ RankOf(d) \in Nat
  BY Ranked
<1>2. ~(RankOf(c) < RankOf(d)) /\ ~(RankOf(d) < RankOf(c))
  BY <1>1
<1>3. c \notin Ahead(d) /\ d \notin Ahead(c)
  BY <1>2, AheadIsBelow
<1> QED BY <1>3, AheadIsOrder

LEMMA NoGaps ==
  ASSUME TypeOK, SinceDistinct, NEW c \in Standing, RankOf(c) <= 3, NEW p \in 1..RankOf(c)
  PROVE  \E d \in Standing : RankOf(d) = p
<1>1. /\ IsFiniteSet(Ahead(c)) /\ Cardinality(Ahead(c)) \in 0..2
      /\ RankOf(c) = 1 + Cardinality(Ahead(c)) /\ Ahead(c) \subseteq Standing
  BY Ranked DEF Ahead
<1>2. \A d \in Ahead(c) : RankOf(d) \in 1..(RankOf(c) - 1)
  <2> SUFFICES ASSUME NEW d \in Ahead(c) PROVE RankOf(d) \in 1..(RankOf(c) - 1)
    OBVIOUS
  <2>1. d \in Standing /\ RankOf(d) < RankOf(c)
    BY <1>1, AheadIsBelow
  <2>2. RankOf(d) = 1 + Cardinality(Ahead(d)) /\ Cardinality(Ahead(d)) \in Nat
    BY <2>1, Ranked
  <2> QED BY <1>1, <2>1, <2>2
<1>3. CASE p = RankOf(c)
  BY <1>3
<1>4. CASE p # RankOf(c) /\ Cardinality(Ahead(c)) = 1
  <2>1. PICK x : Ahead(c) = {x}
    BY <1>1, <1>4, FS_Singleton
  <2>2. p = 1 /\ RankOf(x) \in 1..1 /\ x \in Standing
    BY <1>1, <1>2, <1>4, <2>1
  <2>3. RankOf(x) = p
    BY <2>2
  <2> QED BY <2>2, <2>3
<1>5. CASE p # RankOf(c) /\ Cardinality(Ahead(c)) = 2
  <2>1. PICK x : x \in Ahead(c)
    BY <1>1, <1>5, FS_EmptySet
  <2>2. IsFiniteSet(Ahead(c) \ {x}) /\ Cardinality(Ahead(c) \ {x}) = 1
    BY <1>1, <1>5, <2>1, FS_RemoveElement
  <2>3. PICK y : Ahead(c) \ {x} = {y}
    BY <2>2, FS_Singleton
  <2>4. x \in Standing /\ y \in Standing /\ x # y /\ y \in Ahead(c)
    BY <1>1, <2>1, <2>3
  <2>5. RankOf(x) # RankOf(y)
    BY <2>4, RankDistinct
  <2>6. RankOf(x) \in 1..2 /\ RankOf(y) \in 1..2 /\ p \in 1..2
    BY <1>1, <1>2, <1>5, <2>1, <2>4
  <2>7. RankOf(x) = p \/ RankOf(y) = p
    BY <2>5, <2>6
  <2> QED BY <2>4, <2>7
<1> QED BY <1>1, <1>3, <1>4, <1>5

LEMMA TopThreeIsWhole ==
  ASSUME TypeOK, SinceDistinct, NEW e \in 1..MaxEditions
  PROVE  TopThree(e) \subseteq Winner /\ Whole(TopThree(e))
<1> DEFINE Row(c) == [place |-> RankOf(c), con |-> c, score |-> CombinedScore(c),
                      edition |-> e]
           First == {d \in Standing : RankOf(d) <= 3}
<1>1. TopThree(e) = {Row(c) : c \in First}
  BY DEF TopThree
<1>2. \A c \in First : /\ c \in Standing /\ c \in Contestants /\ RankOf(c) \in 1..3
                       /\ CombinedScore(c) \in Nat
  <2> SUFFICES ASSUME NEW c \in First
               PROVE  c \in Contestants /\ RankOf(c) \in 1..3 /\ CombinedScore(c) \in Nat
    OBVIOUS
  <2>1. c \in Contestants
    BY DEF Standing
  <2> QED BY <2>1, Ranked, ScoreTyped
<1>3. TopThree(e) \subseteq Winner
  BY <1>1, <1>2 DEF Winner
<1>4. ASSUME NEW c \in First, NEW d \in First
      PROVE  /\ Row(c).edition = Row(d).edition
             /\ (Row(c).con = Row(d).con \/ Row(c).place = Row(d).place) => Row(c) = Row(d)
             /\ Row(c).place < Row(d).place => Row(c).score >= Row(d).score
  <2>1. RankOf(c) = RankOf(d) => c = d
    BY <1>2, RankDistinct
  <2>2. RankOf(c) < RankOf(d) => CombinedScore(c) >= CombinedScore(d)
    <3> SUFFICES ASSUME RankOf(c) < RankOf(d) PROVE CombinedScore(c) >= CombinedScore(d)
      OBVIOUS
    <3>1. d \notin Ahead(c)
      <4>1. ~(RankOf(d) < RankOf(c))
        BY <1>2
      <4> QED BY <4>1, AheadIsBelow
    <3>2. CombinedScore(d) <= CombinedScore(c)
      BY <3>1, AheadIsOrder
    <3> QED BY <1>2, <3>2
  <2> QED BY <2>1, <2>2
<1>5. ASSUME NEW c \in First, NEW p \in 1..Row(c).place
      PROVE  \E d \in First : Row(d).place = p
  <2>1. PICK d \in Standing : RankOf(d) = p
    BY NoGaps
  <2>2. d \in First
    BY <1>2, <2>1
  <2> QED BY <2>1, <2>2
<1> HIDE DEF Row, First
<1> QED BY <1>1, <1>3, <1>4, <1>5 DEF Whole

(***************************************************************************)
(* The bottom of the ranking.                                              *)
(***************************************************************************)
LEMMA BottomIsNoBetter ==
  ASSUME TypeOK, NEW n, NEW c \in Bottom(n), NEW d \in Standing \ Bottom(n), n \in Nat
  PROVE  NoBetter(c, d)
<1> DEFINE Before(x) == {y \in Standing : FirstOut(y, x)}
<1>1. \A x \in Standing : /\ votes[x] \in Nat /\ engagement[x] \in Nat /\ since[x] \in Nat
  <2>1. MaxVotes \in Nat
    BY SeasonAssumption DEF SeasonAssumption
  <2> QED BY <2>1 DEF TypeOK, Standing
<1>2. c \in Standing /\ Cardinality(Before(c)) < n /\ ~(Cardinality(Before(d)) < n)
  BY DEF Bottom
<1>3. IsFiniteSet(Before(c)) /\ IsFiniteSet(Before(d))
  BY StandingFinite, FS_Subset
<1>4. Cardinality(Before(c)) \in Nat /\ Cardinality(Before(d)) \in Nat
  BY <1>3, FS_CardinalityType
<1>5. ~FirstOut(d, c)
  <2> SUFFICES ASSUME FirstOut(d, c) PROVE FALSE
    OBVIOUS
  <2>1. Before(d) \subseteq Before(c)
    BY <1>1, <1>2 DEF FirstOut
  <2> HIDE DEF Before
  <2>2. Cardinality(Before(d)) <= Cardinality(Before(c))
    BY <1>3, <2>1, FS_Subset
  <2> QED BY <1>2, <1>4, <2>2
<1> QED BY <1>1, <1>2, <1>5 DEF FirstOut, NoBetter

(***************************************************************************)
(* What a request knows: the statements that read.                         *)
(***************************************************************************)
LEMMA DoneKnows ==
  ASSUME NEW r \in Reqs, Done(r) PROVE Knows(r)'
<1>1. NoJob.ids = {}
  BY DEF NoJob
<1> QED BY <1>1 DEF Done, Knows, Answered

(* A reading statement leaves the others alone.                              *)
Quiet(r) ==
    /\ UNCHANGED <<workload, rows, removed, excused, unzeroed>>
    /\ \A q \in Reqs \ {r} :
         /\ pc'[q] = pc[q] /\ job'[q] = job[q]
         /\ pc[q] \notin Answered => missed[q] \subseteq missed'[q]

LEMMA LeavesQuiet ==
  ASSUME Typed, NEW r \in Reqs, NEW answer, Leave(r, answer) PROVE Quiet(r)
  BY DEF Leave, Goto, Publish, Quiet, Typed, history

LEMMA MovesQuiet ==
  ASSUME Typed, NEW r \in Reqs, NEW loc, NEW j, Move(r, loc, j) PROVE Quiet(r)
  BY DEF Move, Goto, Quiet, Typed, history

LEMMA BeginsQuiet ==
  ASSUME Typed, NEW r \in Reqs, Start(r) PROVE Quiet(r)
<1>1. PICK op, j, loc : Begin(r, op, j, loc)
  BY DEF Start, Seed, Reset, ResetVotes, DeclareWinners, RemoveStage, EliminateBottom,
         CreateStage, UpdateStage, Submit, Cast, RemoveFromPublic, UpdateStatus, Review
<1>2. UNCHANGED <<removed, excused, unzeroed>>
  BY DEF Start, Seed, Reset, ResetVotes, DeclareWinners, RemoveStage, EliminateBottom,
         CreateStage, UpdateStage, Submit, Cast, RemoveFromPublic, UpdateStatus, Review,
         history
<1> QED BY <1>1, <1>2 DEF Begin, Goto, Quiet, Typed

(* A request that leaves, or moves on to what it holds and knows.            *)
Reads(r) == Typed' /\ Holds' /\ Knows(r)' /\ Quiet(r)

LEMMA LeavesRead ==
  ASSUME Typed, Holds, NEW r \in Reqs, NEW answer \in Answered, Leave(r, answer)
  PROVE  Reads(r)
  BY LeavesTyped, LeavesQuiet, DoneKnows DEF Reads, Done

LEMMA MovesRead ==
  ASSUME Typed, Holds, NEW r \in Reqs, NEW loc \in Locs \ Answered, NEW j \in Job,
         Move(r, loc, j), pc'[r] = loc /\ job'[r] = j => HoldsAt(r)' /\ Knows(r)'
  PROVE  Reads(r)
  BY MovesTyped, MovesQuiet DEF Reads

(* What is read does not change in the step that reads it.                   *)
LEMMA MoveKeeps ==
  ASSUME NEW r \in Reqs, NEW loc, NEW j, Move(r, loc, j)
  PROVE  /\ UNCHANGED <<stage, standing, since, votes, engagement, missed>>
         /\ Standing' = Standing /\ Entered' = Entered
  BY DEF Move, rows, Standing, Entered

LEMMA RuleReads ==
  ASSUME Typed, Holds, NEW r \in Reqs, Knows(r), ActiveStageRule(r) PROVE Reads(r)
<1>1. CASE Leave(r, "idle")
  BY <1>1, LeavesRead DEF Answered
<1>2. CASE ~Leave(r, "idle")
  <2>1. /\ pc[r] = "rule" /\ Move(r, "write stage", job[r])
        /\ \A t \in Stages : stage[t] = "ACTIVE" => job[r].op # "create" /\ t = job[r].at
    BY <1>2 DEF ActiveStageRule
  <2>2. HoldsAt(r) /\ job[r] \in Job
    BY JobIs
  <2>3. ASSUME pc'[r] = "write stage", job'[r] = job[r] PROVE HoldsAt(r)' /\ Knows(r)'
    <3>1. job[r].ids \subseteq Entered'
      BY <2>1, MoveKeeps DEF Knows
    <3>2. \A t \in Stages : stage'[t] = "ACTIVE" => job[r].op = "update" /\ t = job[r].at
      BY <2>1, <2>2, MoveKeeps DEF HoldsAt
    <3> QED BY <2>1, <2>2, <2>3, <3>1, <3>2 DEF HoldsAt, Knows
  <2>4. "write stage" \in Locs \ Answered
    BY DEF Locs, Answered
  <2> QED BY <2>1, <2>2, <2>3, <2>4, MovesRead
<1> QED BY <1>1, <1>2

LEMMA FindReads ==
  ASSUME Typed, Holds, NEW r \in Reqs, Knows(r), FindContestant(r) PROVE Reads(r)
<1>1. CASE Leave(r, "idle")
  BY <1>1, LeavesRead DEF Answered
<1>2. CASE ~Leave(r, "idle")
  <2>1. pc[r] = "find contestant" /\ Move(r, "insert", job[r]) /\ job[r].con \in Standing
    BY <1>2 DEF FindContestant
  <2>2. HoldsAt(r) /\ job[r] \in Job
    BY JobIs
  <2>3. ASSUME pc'[r] = "insert", job'[r] = job[r] PROVE HoldsAt(r)' /\ Knows(r)'
    <3>1. job[r].ids \subseteq Entered' /\ job[r].con \in Standing'
      BY <2>1, MoveKeeps DEF Knows
    <3> QED BY <2>1, <2>2, <2>3, <3>1 DEF HoldsAt, Knows
  <2>4. "insert" \in Locs \ Answered
    BY DEF Locs, Answered
  <2> QED BY <2>1, <2>2, <2>3, <2>4, MovesRead
<1> QED BY <1>1, <1>2

LEMMA RejectReads ==
  ASSUME Typed, Holds, NEW r \in Reqs, Knows(r), RejectEntries(r) PROVE Reads(r)
<1> DEFINE j == [job[r] EXCEPT !.seen = {e \in Entries : job[r].con \in {None, e[1]}}]
<1>1. pc[r] = "reject entries" /\ Move(r, "put out", j)
  BY DEF RejectEntries
<1>2. job[r] \in Job
  BY JobIs
<1>3. j \in Job /\ j.seen \subseteq Contestants \X Stages /\ j.ids = job[r].ids
  BY <1>2 DEF Job, Entries
<1>4. "put out" \in Locs \ Answered
  BY DEF Locs, Answered
<1> HIDE DEF j
<1>5. ASSUME pc'[r] = "put out", job'[r] = j PROVE HoldsAt(r)' /\ Knows(r)'
  <2>1. job[r].ids \subseteq Entered'
    BY <1>1, MoveKeeps DEF Knows
  <2> QED BY <1>3, <1>5, <2>1 DEF HoldsAt, Knows
<1> QED BY <1>1, <1>3, <1>4, <1>5, MovesRead

LEMMA CheckReads ==
  ASSUME Typed, Holds, NEW r \in Reqs, Knows(r), CheckStage(r) PROVE Reads(r)
<1>1. CASE Leave(r, "idle")
  BY <1>1, LeavesRead DEF Answered
<1>2. CASE ~Leave(r, "idle")
  <2>1. pc[r] = "check stage" /\ Move(r, "cast", job[r])
    BY <1>2 DEF CheckStage
  <2>2. HoldsAt(r) /\ job[r] \in Job
    BY JobIs
  <2>3. ASSUME pc'[r] = "cast", job'[r] = job[r] PROVE HoldsAt(r)' /\ Knows(r)'
    <3>1. /\ job[r].ids \subseteq Entered' /\ job[r].con \in Entered'
          /\ job[r].con \in Standing' \/ <<"standing", job[r].con>> \in missed'[r]
      BY <2>1, MoveKeeps DEF Knows
    <3> QED BY <2>1, <2>2, <2>3, <3>1 DEF HoldsAt, Knows
  <2>4. "cast" \in Locs \ Answered
    BY DEF Locs, Answered
  <2> QED BY <2>1, <2>2, <2>3, <2>4, MovesRead
<1> QED BY <1>1, <1>2

LEMMA ZeroReads ==
  ASSUME Typed, Holds, NEW r \in Reqs, Knows(r), ZeroVotes(r) PROVE Reads(r)
<1> DEFINE j == [job[r] EXCEPT !.ids = Entered]
<1>1. Move(r, "delete votes", j)
  BY DEF ZeroVotes
<1>2. job[r] \in Job /\ Entered \subseteq Contestants
  BY JobIs DEF Entered
<1>3. j \in Job /\ j.ids = Entered
  BY <1>2 DEF Job
<1>4. "delete votes" \in Locs \ Answered
  BY DEF Locs, Answered
<1> HIDE DEF j
<1>5. ASSUME pc'[r] = "delete votes", job'[r] = j PROVE HoldsAt(r)' /\ Knows(r)'
  BY <1>1, <1>3, <1>5, MoveKeeps DEF HoldsAt, Knows
<1> QED BY <1>1, <1>3, <1>4, <1>5, MovesRead

LEMMA RankReads ==
  ASSUME Typed, Holds, NEW r \in Reqs, Knows(r), Rank(r) PROVE Reads(r)
<1> DEFINE count == (Cardinality(Standing) * job[r].num) \div 100
           j == [job[r] EXCEPT !.ids = Bottom(count)]
<1>1. CASE Leave(r, "idle")
  BY <1>1, LeavesRead DEF Answered
<1>2. CASE ~Leave(r, "idle")
  <2>1. Move(r, "eliminate", j)
    BY <1>2 DEF Rank
  <2>2. job[r] \in Job /\ Bottom(count) \subseteq Standing /\ Standing \subseteq Contestants
    BY JobIs DEF Bottom, Standing
  <2>3. count \in Nat
    <3>1. Cardinality(Standing) \in Nat /\ job[r].num \in Nat
      BY <2>2, StandingFinite, FS_CardinalityType DEF Job
    <3>2. \A a, b \in Nat : a * b \in Nat
      OBVIOUS
    <3>3. \A a \in Nat : a \div 100 \in Nat
      OBVIOUS
    <3> QED BY <3>1, <3>2, <3>3
  <2> HIDE DEF count
  <2>4. j \in Job /\ j.ids = Bottom(count)
    BY <2>2 DEF Job
  <2>5. "eliminate" \in Locs \ Answered
    BY DEF Locs, Answered
  <2> HIDE DEF j
  <2>6. ASSUME pc'[r] = "eliminate", job'[r] = j PROVE HoldsAt(r)' /\ Knows(r)'
    <3>1. Bottom(count) \subseteq Entered'
      BY <2>1, <2>2, MoveKeeps DEF Standing, Entered
    <3>2. \A c \in Bottom(count), d \in Standing' \ Bottom(count) : NoBetter(c, d)'
      <4>1. \A c \in Bottom(count), d \in Standing \ Bottom(count) : NoBetter(c, d)
        BY <2>3, BottomIsNoBetter DEF Typed
      <4> QED BY <2>1, <4>1, MoveKeeps DEF NoBetter
    <3> QED BY <2>4, <2>6, <3>1, <3>2 DEF HoldsAt, Knows
  <2> QED BY <2>1, <2>4, <2>5, <2>6, MovesRead
<1> QED BY <1>1, <1>2

LEMMA LeaderboardReads ==
  ASSUME Typed, Holds, SinceDistinct, NEW r \in Reqs, Knows(r), Leaderboard(r)
  PROVE  Reads(r)
<1> DEFINE j == [job[r] EXCEPT !.podium = TopThree(job[r].num)]
<1>1. CASE Leave(r, "idle")
  BY <1>1, LeavesRead DEF Answered
<1>2. CASE ~Leave(r, "idle")
  <2>1. pc[r] = "leaderboard" /\ Move(r, "delete winners", j)
    BY <1>2 DEF Leaderboard
  <2>2. job[r] \in Job /\ job[r].num \in 1..MaxEditions
    BY <2>1, JobIs DEF HoldsAt
  <2>3. TopThree(job[r].num) \subseteq Winner /\ Whole(TopThree(job[r].num))
    BY <2>2, TopThreeIsWhole DEF Typed
  <2>4. j \in Job /\ j.ids = job[r].ids /\ Whole(j.podium)
    BY <2>2, <2>3 DEF Job
  <2>5. "delete winners" \in Locs \ Answered
    BY DEF Locs, Answered
  <2> HIDE DEF j
  <2>6. ASSUME pc'[r] = "delete winners", job'[r] = j PROVE HoldsAt(r)' /\ Knows(r)'
    <3>1. job[r].ids \subseteq Entered'
      BY <2>1, MoveKeeps DEF Knows
    <3> QED BY <2>4, <2>6, <3>1 DEF HoldsAt, Knows
  <2> QED BY <2>1, <2>4, <2>5, <2>6, MovesRead
<1> QED BY <1>1, <1>2

LEMMA DeleteReads ==
  ASSUME Typed, Holds, NEW r \in Reqs, Knows(r), DeleteWinners(r) PROVE Reads(r)
<1> DEFINE j == [job[r] EXCEPT !.seen = winners]
<1>1. pc[r] = "delete winners" /\ Move(r, "place", j)
  BY DEF DeleteWinners
<1>2. job[r] \in Job /\ winners \subseteq Winner
  BY JobIs DEF Typed, TypeOK
<1>3. j \in Job /\ j.ids = job[r].ids /\ Whole(j.podium)
  <2>1. Whole(job[r].podium)
    <3>1. pc[r] \in {"delete winners", "place"}
      BY <1>1
    <3>2. pc[r] \in {"delete winners", "place"} => Whole(job[r].podium)
      BY Zenon DEF Knows
    <3> QED BY <3>1, <3>2
  <2>2. j \in Job /\ j.ids = job[r].ids /\ j.podium = job[r].podium
    BY <1>2 DEF Job
  <2> QED BY <2>1, <2>2
<1>4. "place" \in Locs \ Answered
  BY DEF Locs, Answered
<1> HIDE DEF j
<1>5. ASSUME pc'[r] = "place", job'[r] = j PROVE HoldsAt(r)' /\ Knows(r)'
  <2>1. job[r].ids \subseteq Entered'
    BY <1>1, MoveKeeps DEF Knows
  <2> QED BY <1>3, <1>5, <2>1 DEF HoldsAt, Knows
<1> QED BY <1>1, <1>3, <1>4, <1>5, MovesRead

(***************************************************************************)
(* What a request knows: the statements of the others.                     *)
(***************************************************************************)

(* q is where it was, and has missed what was written.                       *)
Notices(q) ==
    /\ pc'[q] = pc[q]
    /\ \/ job'[q] = job[q]
       \/ /\ job[q].op # "create" /\ stage'[job[q].at] = "ABSENT"
          /\ job'[q] = [job[q] EXCEPT !.at = None]
    /\ Entered \subseteq Entered'
    /\ pc[q] \notin Answered =>
         /\ missed[q] \subseteq missed'[q]
         /\ \A t \in Stages : stage'[t] = "ACTIVE" /\ stage[t] # "ACTIVE" =>
                <<"stage", t>> \in missed'[q]
         /\ \A c \in Contestants :
              /\ standing'[c] # standing[c] => <<"standing", c>> \in missed'[q]
              /\ c \in Entered' \ Entered => <<"joined", c>> \in missed'[q]
              /\ votes'[c] # votes[c] \/ engagement'[c] # engagement[c] =>
                   <<"votes", c>> \in missed'[q] \/ <<"standing", c>> \in missed'[q]

LEMMA KnowsOn ==
  ASSUME NEW q \in Reqs, job[q] \in Job, Knows(q), Notices(q) PROVE Knows(q)'
<1> USE DEF Notices
<1>1. /\ job'[q].op = job[q].op /\ job'[q].con = job[q].con /\ job'[q].what = job[q].what
      /\ job'[q].ids = job[q].ids /\ job'[q].podium = job[q].podium
      /\ job'[q].at = job[q].at \/ stage'[job[q].at] = "ABSENT"
  BY DEF Job
<1>2. job[q].ids \subseteq Contestants
  BY DEF Job
<1>3. CASE pc[q] \in Answered
  BY <1>1, <1>3 DEF Knows, Answered
<1>4. CASE pc[q] \notin Answered
  <2>1. ASSUME pc[q] = "write stage", job[q].what = "ACTIVE", NEW t \in Stages,
               stage'[t] = "ACTIVE"
        PROVE  (job'[q].op = "update" /\ t = job'[q].at) \/ <<"stage", t>> \in missed'[q]
    <3>1. stage[t] = "ACTIVE" =>
             (job[q].op = "update" /\ t = job[q].at) \/ <<"stage", t>> \in missed[q]
      BY <2>1 DEF Knows
    <3> QED BY <1>1, <1>4, <2>1, <3>1
  <2>2. ASSUME pc[q] \in {"insert", "check stage", "cast"}
        PROVE  job'[q].con \in Standing' \/ <<"standing", job'[q].con>> \in missed'[q]
    <3>1. job[q].con \in Standing \/ <<"standing", job[q].con>> \in missed[q]
      BY <2>2 DEF Knows
    <3> QED BY <1>1, <1>4, <3>1 DEF Standing
  <2>3. pc[q] \in {"set standing", "check stage", "cast"} => job'[q].con \in Entered'
    BY <1>1 DEF Knows
  <2>4. job'[q].ids \subseteq Entered'
    BY <1>1 DEF Knows
  <2>5. ASSUME pc[q] = "delete votes", NEW c \in Entered' \ job'[q].ids
        PROVE  <<"joined", c>> \in missed'[q]
    <3>1. c \in Contestants
      BY DEF Entered
    <3>2. c \in Entered => <<"joined", c>> \in missed[q]
      BY <1>1, <2>5 DEF Knows
    <3> QED BY <1>4, <3>1, <3>2
  <2>6. ASSUME pc[q] = "eliminate", NEW c \in job'[q].ids, NEW d \in Standing' \ job'[q].ids
        PROVE  Touched(q, c)' \/ Touched(q, d)' \/ NoBetter(c, d)'
    <3> SUFFICES ASSUME ~Touched(q, c)', ~Touched(q, d)' PROVE NoBetter(c, d)'
      OBVIOUS
    <3>1. c \in Contestants /\ d \in Contestants
      BY <1>1, <1>2 DEF Standing
    <3>2. /\ standing'[d] = standing[d]
          /\ votes'[c] = votes[c] /\ engagement'[c] = engagement[c]
          /\ votes'[d] = votes[d] /\ engagement'[d] = engagement[d]
      BY <1>4, <3>1, Zenon DEF Touched
    <3>3. c \in job[q].ids /\ d \in Standing \ job[q].ids
      BY <1>1, <2>6, <3>2 DEF Standing
    <3>4. ~Touched(q, c) /\ ~Touched(q, d)
      BY <1>4 DEF Touched
    <3>5. NoBetter(c, d)
      BY <2>6, <3>3, <3>4 DEF Knows
    <3> QED BY <3>2, <3>5 DEF NoBetter
  <2>7. pc[q] \in {"delete winners", "place"} => Whole(job'[q].podium)
    BY <1>1 DEF Knows
  <2>8. pc'[q] = pc[q] /\ job'[q].what = job[q].what
    BY <1>1
  <2> HIDE DEF Notices
  <2> QED BY <2>1, <2>2, <2>3, <2>4, <2>5, <2>6, <2>7, <2>8, Zenon DEF Knows
<1> QED BY <1>3, <1>4

LEMMA QuietNoticed ==
  ASSUME NEW r \in Reqs, Quiet(r), NEW q \in Reqs \ {r} PROVE Notices(q)
  BY DEF Quiet, Notices, rows, Entered

(* What the others have missed when r has written.                           *)
LEMMA WroteMissed ==
  ASSUME Typed, NEW r \in Reqs, NEW facts, Wrote(r, facts), NEW q \in Reqs \ {r}
  PROVE  /\ pc'[q] = pc[q] /\ job'[q] = job[q]
         /\ pc[q] \notin Answered => missed'[q] = missed[q] \cup facts
  BY DEF Wrote, Goto, Publish, Typed

LEMMA WriteStageNoticed ==
  ASSUME Typed, Holds, NEW r \in Reqs, WriteStage(r), NEW q \in Reqs \ {r} PROVE Notices(q)
<1>1. CASE Leave(r, "failed")
  BY <1>1, LeavesQuiet, QuietNoticed
<1>2. CASE ~Leave(r, "failed")
  <2>1. /\ stage' = [stage EXCEPT ![job[r].at] = job[r].what]
        /\ Wrote(r, {<<"stage", job[r].at>>})
        /\ UNCHANGED <<standing, votes, engagement>>
    BY <1>2 DEF WriteStage
  <2> QED BY <2>1, WroteMissed DEF Notices, Entered, Typed, TypeOK
<1> QED BY <1>1, <1>2

LEMMA DeleteStageNoticed ==
  ASSUME Typed, Holds, NEW r \in Reqs, DeleteStage(r), NEW q \in Reqs \ {r} PROVE Notices(q)
<1>1. CASE Leave(r, "failed")
  BY <1>1, LeavesQuiet, QuietNoticed
<1>2. CASE ~Leave(r, "failed")
  <2> DEFINE s == job[r].at
  <2>1. /\ s # None
        /\ stage' = [stage EXCEPT ![s] = "ABSENT"]
        /\ pc' = [pc EXCEPT ![r] = "idle"]
        /\ job' = [p \in Reqs |-> IF p = r THEN NoJob
                                  ELSE IF job[p].at = s /\ job[p].op # "create"
                                  THEN [job[p] EXCEPT !.at = None] ELSE job[p]]
        /\ Publish(r, {<<"stage", s>>})
        /\ UNCHANGED <<standing, votes, engagement>>
    BY <1>2 DEF DeleteStage
  <2>2. s \in Stages
    BY <2>1, JobIs DEF Job
  <2>3. pc'[q] = pc[q] /\ stage'[s] = "ABSENT"
    BY <2>1, <2>2 DEF Typed, TypeOK
  <2>4. \/ job'[q] = job[q]
        \/ job[q].op # "create" /\ job[q].at = s /\ job'[q] = [job[q] EXCEPT !.at = None]
    BY <2>1
  <2>5. pc[q] \notin Answered => missed[q] \subseteq missed'[q]
    BY <2>1 DEF Publish
  <2>6. \A t \in Stages : ~(stage'[t] = "ACTIVE" /\ stage[t] # "ACTIVE")
    BY <2>1, <2>2 DEF Typed, TypeOK
  <2> QED BY <2>1, <2>3, <2>4, <2>5, <2>6 DEF Notices, Entered
<1> QED BY <1>1, <1>2

LEMMA SeedStageNoticed ==
  ASSUME Typed, Holds, NEW r \in Reqs, SeedStage(r), NEW q \in Reqs \ {r} PROVE Notices(q)
<1> DEFINE s == SeedStages[job[r].num].stage
           x == SeedStages[job[r].num].status
<1>1. /\ stage' = [stage EXCEPT ![s] = x]
      /\ Publish(r, {<<"stage", s>>})
      /\ UNCHANGED <<standing, votes, engagement>>
  BY DEF SeedStage
<1>2. pc'[q] = pc[q] /\ job'[q] = job[q]
  BY DEF SeedStage, Goto, Typed
<1> HIDE DEF s, x
<1>3. \A t \in Stages : stage'[t] # stage[t] => t = s
  BY <1>1 DEF Typed, TypeOK
<1>4. pc[q] \notin Answered => missed'[q] = missed[q] \cup {<<"stage", s>>}
  BY <1>1 DEF Publish
<1>5. Entered' = Entered
  BY <1>1 DEF Entered
<1> QED BY <1>1, <1>2, <1>3, <1>4, <1>5 DEF Notices

LEMMA EntryNoticed ==
  ASSUME Typed, Holds, NEW r \in Reqs, InsertEntry(r) \/ WriteReview(r),
         NEW q \in Reqs \ {r}
  PROVE  Notices(q)
<1>1. CASE Leave(r, "failed")
  BY <1>1, LeavesQuiet, QuietNoticed
<1>2. CASE ~Leave(r, "failed")
  <2>1. /\ Wrote(r, {<<"entry", job[r].con>>})
        /\ UNCHANGED <<stage, standing, votes, engagement>>
    BY <1>2 DEF InsertEntry, WriteReview
  <2> QED BY <2>1, WroteMissed DEF Notices, Entered
<1> QED BY <1>1, <1>2

LEMMA RegisterNoticed ==
  ASSUME Typed, NEW c \in Contestants, Register(c), NEW q \in Reqs PROVE Notices(q)
  BY DEF Register, Notices, Entered, Typed, TypeOK

LEMMA SetStandingNoticed ==
  ASSUME Typed, Holds, NEW r \in Reqs, Knows(r), SetStanding(r), NEW q \in Reqs \ {r}
  PROVE  Notices(q)
<1> DEFINE c == job[r].con
           facts == {<<"standing", c>>}
<1>0. Wrote(r, facts)
  BY DEF SetStanding
<1>1. /\ standing' = [standing EXCEPT ![c] = job[r].what]
      /\ UNCHANGED <<stage, votes, engagement>> /\ pc[r] = "set standing"
  BY DEF SetStanding
<1>2. job[r].what \in ContestantStatus /\ c \in Entered
  BY <1>1, JobIs DEF HoldsAt, Knows
<1>3. Entered' = Entered
  BY <1>1, <1>2 DEF Entered, ContestantStatus, Typed, TypeOK
<1>4. \A d \in Contestants : standing'[d] # standing[d] => <<"standing", d>> \in facts
  BY <1>1 DEF Typed, TypeOK
<1> HIDE DEF facts
<1>5. UNCHANGED <<stage, votes, engagement>>
  BY <1>1
<1>6. /\ pc'[q] = pc[q] /\ job'[q] = job[q]
      /\ pc[q] \notin Answered => missed'[q] = missed[q] \cup facts
  BY <1>0, WroteMissed
<1> QED BY <1>3, <1>4, <1>5, <1>6 DEF Notices

(* Those put out or eliminated were entered.                                 *)
LEMMA SetEntered ==
  ASSUME Typed, NEW out, out \subseteq Entered, NEW x \in ContestantStatus,
         standing' = Set(standing, out, x)
  PROVE  /\ Entered' = Entered
         /\ \A c \in Contestants : standing'[c] = IF c \in out THEN x ELSE standing[c]
  BY DEF Set, Entered, ContestantStatus, Typed, TypeOK

LEMMA PutOutNoticed ==
  ASSUME Typed, Holds, NEW r \in Reqs, Knows(r), PutOut(r), NEW q \in Reqs \ {r}
  PROVE  Notices(q)
<1> DEFINE out == job[r].ids
           facts == {<<"standing", c>> : c \in out} \cup {<<"winners", None>>}
<1>1. /\ standing' = Set(standing, out, "REJECTED")
      /\ votes' = Set(votes, out, 0) /\ engagement' = Set(engagement, out, 0)
      /\ Wrote(r, facts) /\ stage' = stage
  BY DEF PutOut
<1>2. out \subseteq Entered
  BY DEF Knows
<1>3. /\ Entered' = Entered
      /\ \A c \in Contestants : standing'[c] # standing[c] => c \in out
  BY <1>1, <1>2, SetEntered DEF ContestantStatus
<1>4. \A c \in Contestants :
         votes'[c] # votes[c] \/ engagement'[c] # engagement[c] => c \in out
  BY <1>1 DEF Set, Typed, TypeOK
<1>5. \A c \in out : <<"standing", c>> \in facts
  OBVIOUS
<1> HIDE DEF facts
<1> QED BY <1>1, <1>3, <1>4, <1>5, WroteMissed DEF Notices

LEMMA EliminateNoticed ==
  ASSUME Typed, Holds, NEW r \in Reqs, Knows(r), Eliminate(r), NEW q \in Reqs \ {r}
  PROVE  Notices(q)
<1> DEFINE out == job[r].ids
           facts == {<<"standing", c>> : c \in out}
<1>1. /\ standing' = Set(standing, out, "ELIMINATED")
      /\ Wrote(r, facts) /\ UNCHANGED <<stage, votes, engagement>>
  BY DEF Eliminate
<1>2. out \subseteq Entered
  BY DEF Knows
<1>3. /\ Entered' = Entered
      /\ \A c \in Contestants : standing'[c] # standing[c] => c \in out
  BY <1>1, <1>2, SetEntered DEF ContestantStatus
<1>4. \A c \in out : <<"standing", c>> \in facts
  OBVIOUS
<1> HIDE DEF facts
<1> QED BY <1>1, <1>3, <1>4, WroteMissed DEF Notices

LEMMA CastVoteNoticed ==
  ASSUME Typed, Holds, NEW r \in Reqs, CastVote(r), NEW q \in Reqs \ {r} PROVE Notices(q)
<1>1. CASE Leave(r, "failed")
  BY <1>1, LeavesQuiet, QuietNoticed
<1>2. CASE ~Leave(r, "failed")
  <2>1. /\ votes' = [votes EXCEPT ![job[r].con] = @ + 1]
        /\ Wrote(r, {<<"votes", job[r].con>>})
        /\ UNCHANGED <<stage, standing, engagement>>
    BY <1>2 DEF CastVote
  <2>2. \A c \in Contestants : votes'[c] # votes[c] => c = job[r].con
    BY <2>1 DEF Typed, TypeOK
  <2>3. Entered' = Entered
    BY <2>1 DEF Entered
  <2> QED BY <2>1, <2>2, <2>3, WroteMissed DEF Notices
<1> QED BY <1>1, <1>2

LEMMA DeleteVotesNoticed ==
  ASSUME Typed, Holds, NEW r \in Reqs, DeleteVotes(r), NEW q \in Reqs \ {r} PROVE Notices(q)
<1> DEFINE facts == {<<"votes", c>> : c \in Contestants}
<1>1. Wrote(r, facts) /\ UNCHANGED <<stage, standing, engagement>>
  BY DEF DeleteVotes
<1>2. \A c \in Contestants : <<"votes", c>> \in facts
  OBVIOUS
<1>3. Entered' = Entered
  BY <1>1 DEF Entered
<1> HIDE DEF facts
<1> QED BY <1>1, <1>2, <1>3, WroteMissed DEF Notices

LEMMA PlaceNoticed ==
  ASSUME Typed, Holds, NEW r \in Reqs, PlaceWinners(r), NEW q \in Reqs \ {r} PROVE Notices(q)
<1>1. CASE Leave(r, "failed")
  BY <1>1, LeavesQuiet, QuietNoticed
<1>2. CASE ~Leave(r, "failed")
  <2>1. Wrote(r, {<<"winners", None>>}) /\ UNCHANGED <<stage, standing, votes, engagement>>
    BY <1>2 DEF PlaceWinners, Podium
  <2> QED BY <2>1, WroteMissed DEF Notices, Entered
<1> QED BY <1>1, <1>2

(***************************************************************************)
(* What holds of the rows.                                                 *)
(***************************************************************************)
VotesOfEntered == \A c \in Contestants : c \notin Entered => votes[c] = 0

RemovedRejected == \A c \in removed : standing[c] = "REJECTED"

Globals ==
    SinceDistinct /\ VotesOfEntered /\ RemovedRejected /\ RemovedAreHidden
    /\ CounterBacked /\ Whole(winners)

LEMMA SinceKept ==
  ASSUME SinceDistinct, Entered' = Entered, since' = since PROVE SinceDistinct'
  BY DEF SinceDistinct

LEMMA QuietGlobals ==
  ASSUME Globals, NEW r \in Reqs, Quiet(r) PROVE Globals'
<1>1. UNCHANGED <<standing, since, votes, ballots, entry, winners, removed, excused, unzeroed>>
  BY DEF Quiet, rows
<1>2. Entered' = Entered
  BY <1>1 DEF Entered
<1>3. SinceDistinct'
  BY <1>1, <1>2, SinceKept DEF Globals
<1> QED BY <1>1, <1>2, <1>3
     DEF Globals, VotesOfEntered, RemovedRejected, RemovedAreHidden, CounterBacked, Whole

(* Statements that write stages, entries or winners.                         *)
LEMMA StageGlobals ==
  ASSUME Typed, Globals, NEW r \in Reqs, WriteStage(r) \/ SeedStage(r) PROVE Globals'
<1>1. CASE Leave(r, "failed")
  BY <1>1, LeavesQuiet, QuietGlobals
<1>2. CASE ~Leave(r, "failed")
  <2>1. UNCHANGED <<standing, since, votes, ballots, entry, winners, removed, excused,
                    unzeroed>>
    BY <1>2 DEF WriteStage, SeedStage, history
  <2>2. Entered' = Entered
    BY <2>1 DEF Entered
  <2>3. SinceDistinct'
    BY <2>1, <2>2, SinceKept DEF Globals
  <2> QED BY <2>1, <2>2, <2>3
       DEF Globals, VotesOfEntered, RemovedRejected, RemovedAreHidden, CounterBacked, Whole
<1> QED BY <1>1, <1>2

LEMMA DeleteStageGlobals ==
  ASSUME Typed, Holds, Globals, NEW r \in Reqs, DeleteStage(r) PROVE Globals'
<1>1. CASE Leave(r, "failed")
  BY <1>1, LeavesQuiet, QuietGlobals
<1>2. CASE ~Leave(r, "failed")
  <2> DEFINE s == job[r].at
  <2>1. /\ UNCHANGED <<standing, since, votes, ballots, winners, removed, unzeroed>>
        /\ entry' = [c \in Contestants |-> [entry[c] EXCEPT ![s] = "ABSENT"]]
        /\ excused' = excused \ (Contestants \X {s})
    BY <1>2 DEF DeleteStage
  <2>2. Entered' = Entered
    BY <2>1 DEF Entered
  <2>3. SinceDistinct'
    BY <2>1, <2>2, SinceKept DEF Globals
  <2>4. RemovedAreHidden'
    <3> SUFFICES ASSUME NEW c \in removed', NEW t \in Stages,
                        entry'[c][t] \notin {"ABSENT", "REJECTED"}
                 PROVE  <<c, t>> \in excused'
      BY DEF RemovedAreHidden
    <3>1. c \in removed /\ c \in Contestants
      BY <2>1 DEF Typed, TypeOK
    <3>2. t # s /\ entry'[c][t] = entry[c][t]
      BY <2>1, <3>1 DEF Typed, TypeOK
    <3>3. <<c, t>> \in excused
      BY <3>1, <3>2 DEF Globals, RemovedAreHidden
    <3> QED BY <2>1, <3>2, <3>3
  <2> QED BY <2>1, <2>2, <2>3, <2>4
       DEF Globals, VotesOfEntered, RemovedRejected, CounterBacked, Whole
<1> QED BY <1>1, <1>2

LEMMA EntryGlobals ==
  ASSUME Typed, Holds, Globals, NEW r \in Reqs, Knows(r), InsertEntry(r) \/ WriteReview(r)
  PROVE  Globals'
<1>1. CASE Leave(r, "failed")
  BY <1>1, LeavesQuiet, QuietGlobals
<1>2. CASE ~Leave(r, "failed")
  <2> DEFINE c == job[r].con
             s == job[r].at
  <2>1. UNCHANGED <<standing, since, votes, ballots, winners, removed, unzeroed>>
    BY <1>2 DEF InsertEntry, WriteReview
  <2>2. Entered' = Entered
    BY <2>1 DEF Entered
  <2>3. SinceDistinct'
    BY <2>1, <2>2, SinceKept DEF Globals
  <2>4. PICK x : entry' = [entry EXCEPT ![c][s] = x]
    BY <1>2 DEF InsertEntry, WriteReview, WriteEntry
  <2>5. excused \subseteq excused'
    BY <1>2 DEF InsertEntry, WriteReview
  <2>6. c \in removed => <<c, s>> \in excused'
    <3>1. CASE WriteReview(r)
      BY <1>2, <3>1 DEF WriteReview
    <3>2. CASE InsertEntry(r)
      <4>1. pc[r] = "insert" /\ (<<"standing", c>> \in missed[r] => <<c, s>> \in excused')
        BY <1>2, <3>2 DEF InsertEntry
      <4>2. c \in Standing \/ <<"standing", c>> \in missed[r]
        BY <4>1 DEF Knows
      <4>3. c \in removed => c \notin Standing
        BY DEF Globals, RemovedRejected, Standing
      <4> QED BY <4>1, <4>2, <4>3
    <3> QED BY <3>1, <3>2
  <2>7. RemovedAreHidden'
    <3> SUFFICES ASSUME NEW d \in removed', NEW t \in Stages,
                        entry'[d][t] \notin {"ABSENT", "REJECTED"}
                 PROVE  <<d, t>> \in excused'
      BY DEF RemovedAreHidden
    <3>1. d \in removed /\ d \in Contestants
      BY <2>1 DEF Typed, TypeOK
    <3>2. CASE d = c /\ t = s
      BY <2>6, <3>1, <3>2
    <3>3. CASE ~(d = c /\ t = s)
      <4>1. entry'[d][t] = entry[d][t]
        BY <2>4, <3>1, <3>3 DEF Typed, TypeOK
      <4> QED BY <2>5, <3>1, <4>1 DEF Globals, RemovedAreHidden
    <3> QED BY <3>2, <3>3
  <2> QED BY <2>1, <2>2, <2>3, <2>7
       DEF Globals, VotesOfEntered, RemovedRejected, CounterBacked, Whole
<1> QED BY <1>1, <1>2

LEMMA PlaceGlobals ==
  ASSUME Typed, Holds, Globals, NEW r \in Reqs, Knows(r), PlaceWinners(r) PROVE Globals'
<1>1. CASE Leave(r, "failed")
  BY <1>1, LeavesQuiet, QuietGlobals
<1>2. CASE ~Leave(r, "failed")
  <2>1. /\ winners' = job[r].podium /\ pc[r] = "place"
        /\ UNCHANGED <<standing, since, votes, ballots, entry, removed, excused, unzeroed>>
    BY <1>2 DEF PlaceWinners, Podium, history
  <2>2. Entered' = Entered
    BY <2>1 DEF Entered
  <2>3. SinceDistinct'
    BY <2>1, <2>2, SinceKept DEF Globals
  <2>4. Whole(job[r].podium)
    <3>1. pc[r] \in {"delete winners", "place"}
      BY <2>1
    <3>2. pc[r] \in {"delete winners", "place"} => Whole(job[r].podium)
      BY Zenon DEF Knows
    <3> QED BY <3>1, <3>2
  <2>5. Whole(winners)'
    BY <2>1, <2>4 DEF Whole
  <2> QED BY <2>1, <2>2, <2>3, <2>5
       DEF Globals, VotesOfEntered, RemovedRejected, RemovedAreHidden, CounterBacked
<1> QED BY <1>1, <1>2

(* Statements that write the standing or the votes of contestants.           *)
LEMMA RegisterGlobals ==
  ASSUME Typed, Globals, NEW c \in Contestants, Register(c) PROVE Globals'
<1>1. /\ c \notin Entered
      /\ standing' = [standing EXCEPT ![c] = "IN"]
      /\ since' = [since EXCEPT ![c] = 1 + Cardinality(Entered)]
      /\ UNCHANGED <<votes, ballots, entry, winners, removed, excused, unzeroed>>
  BY DEF Register, history
<1>2. Entered' = Entered \cup {c}
  BY <1>1 DEF Entered, Typed, TypeOK
<1>3. /\ Cardinality(Entered) \in Nat
      /\ Cardinality(Entered') = Cardinality(Entered) + 1
  BY <1>1, <1>2, StandingFinite, FS_AddElement, FS_CardinalityType
<1>4. SinceDistinct'
  <2> SUFFICES ASSUME NEW d \in Entered', NEW e \in Entered'
               PROVE  /\ since'[d] <= Cardinality(Entered')
                      /\ since'[d] = since'[e] => d = e
    BY DEF SinceDistinct
  <2>0. \A x \in Entered : /\ x \in Contestants /\ since[x] \in Nat /\ x # c
                           /\ since'[x] = since[x] /\ since[x] <= Cardinality(Entered)
    BY <1>1 DEF Entered, Typed, TypeOK, Globals, SinceDistinct
  <2>1. since'[c] = Cardinality(Entered) + 1
    BY <1>1, <1>3 DEF Typed, TypeOK
  <2>2. d \in Entered \/ d = c
    BY <1>2
  <2>3. e \in Entered \/ e = c
    BY <1>2
  <2>4. CASE d \in Entered /\ e \in Entered
    BY <1>3, <2>0, <2>4 DEF Globals, SinceDistinct
  <2>5. CASE d = c \/ e = c
    BY <1>3, <2>0, <2>1, <2>2, <2>3, <2>5
  <2> QED BY <2>2, <2>3, <2>4, <2>5
<1>5. VotesOfEntered'
  BY <1>1, <1>2 DEF Globals, VotesOfEntered
<1>6. c \notin removed
  BY <1>1 DEF Globals, RemovedRejected, Entered
<1>7. RemovedRejected'
  BY <1>1, <1>6 DEF Globals, RemovedRejected, Typed, TypeOK
<1> QED BY <1>1, <1>4, <1>5, <1>7 DEF Globals, RemovedAreHidden, CounterBacked, Whole

LEMMA SetStandingGlobals ==
  ASSUME Typed, Holds, Globals, NEW r \in Reqs, Knows(r), SetStanding(r) PROVE Globals'
<1> DEFINE c == job[r].con
<1>1. /\ standing' = [standing EXCEPT ![c] = job[r].what]
      /\ removed' = removed \ {c} /\ pc[r] = "set standing"
      /\ UNCHANGED <<since, votes, ballots, entry, winners, excused, unzeroed>>
  BY DEF SetStanding
<1>2. job[r].what \in ContestantStatus /\ c \in Entered
  BY <1>1, JobIs DEF HoldsAt, Knows
<1>3. Entered' = Entered
  BY <1>1, <1>2 DEF Entered, ContestantStatus, Typed, TypeOK
<1>4. SinceDistinct'
  BY <1>1, <1>3, SinceKept DEF Globals
<1>5. RemovedRejected'
  BY <1>1 DEF Globals, RemovedRejected, Typed, TypeOK
<1> QED BY <1>1, <1>3, <1>4, <1>5
     DEF Globals, VotesOfEntered, RemovedAreHidden, CounterBacked, Whole

LEMMA EliminateGlobals ==
  ASSUME Typed, Holds, Globals, NEW r \in Reqs, Knows(r), Eliminate(r) PROVE Globals'
<1> DEFINE out == job[r].ids
<1>1. /\ standing' = Set(standing, out, "ELIMINATED") /\ removed' = removed \ out
      /\ UNCHANGED <<since, votes, ballots, entry, winners, excused, unzeroed>>
  BY DEF Eliminate
<1>2. out \subseteq Entered
  BY DEF Knows
<1>3. /\ Entered' = Entered
      /\ \A c \in Contestants \ out : standing'[c] = standing[c]
  BY <1>1, <1>2, SetEntered DEF ContestantStatus
<1>4. SinceDistinct'
  BY <1>1, <1>3, SinceKept DEF Globals
<1>5. RemovedRejected'
  BY <1>1, <1>3 DEF Globals, RemovedRejected, Typed, TypeOK
<1> QED BY <1>1, <1>3, <1>4, <1>5
     DEF Globals, VotesOfEntered, RemovedAreHidden, CounterBacked, Whole

LEMMA PutOutGlobals ==
  ASSUME Typed, Holds, Globals, NEW r \in Reqs, Knows(r), PutOut(r) PROVE Globals'
<1> DEFINE out == job[r].ids
<1>1. /\ standing' = Set(standing, out, "REJECTED") /\ votes' = Set(votes, out, 0)
      /\ removed' = removed \cup out
      /\ winners' = IF job[r].con = None THEN {} ELSE winners
      /\ UNCHANGED <<since, ballots, unzeroed>>
  BY DEF PutOut
<1>2. out \subseteq Entered /\ out \subseteq Contestants
  BY DEF Knows, Entered
<1>3. /\ Entered' = Entered
      /\ \A c \in Contestants :
            standing'[c] = IF c \in out THEN "REJECTED" ELSE standing[c]
  BY <1>1, <1>2, SetEntered DEF ContestantStatus
<1>4. \A c \in Contestants : votes'[c] = IF c \in out THEN 0 ELSE votes[c]
  BY <1>1 DEF Set, Typed, TypeOK
<1>5. SinceDistinct'
  BY <1>1, <1>3, SinceKept DEF Globals
<1>6. RemovedRejected'
  BY <1>1, <1>2, <1>3 DEF Globals, RemovedRejected, Typed, TypeOK
<1>7. VotesOfEntered'
  BY <1>3, <1>4 DEF Globals, VotesOfEntered
<1>8. CounterBacked'
  <2>1. \A c \in Contestants : ballots[c] \in Nat
    <3>1. MaxVotes \in Nat
      BY SeasonAssumption DEF SeasonAssumption
    <3> QED BY <3>1 DEF Typed, TypeOK
  <2> QED BY <1>1, <1>4, <2>1 DEF Globals, CounterBacked
<1>9. RemovedAreHidden'
  <2> SUFFICES ASSUME NEW c \in removed', NEW s \in Stages,
                      entry'[c][s] \notin {"ABSENT", "REJECTED"}
               PROVE  <<c, s>> \in excused'
    BY DEF RemovedAreHidden
  <2>1. c \in Contestants
    BY <1>1, <1>2 DEF Typed, TypeOK
  <2>2. <<c, s>> \notin job[r].seen /\ entry'[c][s] = entry[c][s]
    BY <2>1 DEF PutOut, Rejected
  <2>3. excused' = (excused \cup {e \in Entries : e[1] \in out}) \ job[r].seen
    BY DEF PutOut
  <2>4. CASE c \in out
    <3>1. <<c, s>> \in Entries
      BY <2>1, <2>2 DEF Entries
    <3> QED BY <2>2, <2>3, <2>4, <3>1
  <2>5. CASE c \notin out
    <3>1. <<c, s>> \in excused
      BY <1>1, <2>2, <2>5 DEF Globals, RemovedAreHidden
    <3> QED BY <2>2, <2>3, <3>1
  <2> QED BY <2>4, <2>5
<1>10. Whole(winners)'
  BY <1>1 DEF Globals, Whole
<1> QED BY <1>5, <1>6, <1>7, <1>8, <1>9, <1>10 DEF Globals

LEMMA CastVoteGlobals ==
  ASSUME Typed, Holds, Globals, NEW r \in Reqs, Knows(r), CastVote(r) PROVE Globals'
<1>1. CASE Leave(r, "failed")
  BY <1>1, LeavesQuiet, QuietGlobals
<1>2. CASE ~Leave(r, "failed")
  <2> DEFINE c == job[r].con
  <2>1. /\ pc[r] = "cast"
        /\ votes' = [votes EXCEPT ![c] = @ + 1] /\ ballots' = [ballots EXCEPT ![c] = @ + 1]
        /\ UNCHANGED <<standing, since, entry, winners, removed, excused, unzeroed>>
    BY <1>2 DEF CastVote, history
  <2>2. Entered' = Entered
    BY <2>1 DEF Entered
  <2>3. SinceDistinct'
    BY <2>1, <2>2, SinceKept DEF Globals
  <2>4. c \in Entered
    BY <2>1 DEF Knows
  <2>5. \A d \in Contestants :
          /\ votes[d] \in Nat /\ ballots[d] \in Nat
          /\ votes'[d] = (IF d = c THEN votes[d] + 1 ELSE votes[d])
          /\ ballots'[d] = (IF d = c THEN ballots[d] + 1 ELSE ballots[d])
    <3>1. MaxVotes \in Nat
      BY SeasonAssumption DEF SeasonAssumption
    <3> QED BY <2>1, <3>1 DEF Typed, TypeOK
  <2>6. VotesOfEntered'
    BY <2>2, <2>4, <2>5 DEF Globals, VotesOfEntered
  <2>7. CounterBacked'
    BY <2>1, <2>5 DEF Globals, CounterBacked
  <2>8. RemovedRejected' /\ RemovedAreHidden' /\ Whole(winners)'
    BY <2>1 DEF Globals, RemovedRejected, RemovedAreHidden, Whole
  <2> QED BY <2>3, <2>6, <2>7, <2>8 DEF Globals
<1> QED BY <1>1, <1>2

LEMMA DeleteVotesGlobals ==
  ASSUME Typed, Holds, Globals, NEW r \in Reqs, Knows(r), DeleteVotes(r) PROVE Globals'
<1> DEFINE out == job[r].ids
<1>1. /\ pc[r] = "delete votes"
      /\ votes' = Set(votes, out, 0) /\ ballots' = [c \in Contestants |-> 0]
      /\ unzeroed' = unzeroed \cup {c \in Contestants : <<"joined", c>> \in missed[r]}
      /\ UNCHANGED <<standing, since, entry, winners, removed, excused>>
  BY DEF DeleteVotes
<1>2. Entered' = Entered
  BY <1>1 DEF Entered
<1>3. SinceDistinct'
  BY <1>1, <1>2, SinceKept DEF Globals
<1>4. \A c \in Contestants : votes'[c] = IF c \in out THEN 0 ELSE votes[c]
  BY <1>1 DEF Set, Typed, TypeOK
<1>5. VotesOfEntered'
  BY <1>2, <1>4 DEF Globals, VotesOfEntered
<1>6. CounterBacked'
  <2> SUFFICES ASSUME NEW c \in Contestants, votes'[c] > ballots'[c] PROVE c \in unzeroed'
    BY DEF CounterBacked
  <2>1. c \notin out /\ votes[c] # 0
    <3>1. ballots'[c] = 0
      BY <1>1
    <3>2. ~(0 > 0)
      OBVIOUS
    <3>3. votes'[c] # 0
      BY <3>1, <3>2, Zenon
    <3> QED BY <1>4, <3>3
  <2>2. c \in Entered
    BY <2>1 DEF Globals, VotesOfEntered
  <2>3. <<"joined", c>> \in missed[r]
    BY <1>1, <2>1, <2>2 DEF Knows
  <2> QED BY <1>1, <2>3
<1>7. RemovedRejected' /\ RemovedAreHidden' /\ Whole(winners)'
  BY <1>1 DEF Globals, RemovedRejected, RemovedAreHidden, Whole
<1> QED BY <1>3, <1>5, <1>6, <1>7 DEF Globals

(***************************************************************************)
(* The inductive invariant.                                                *)
(***************************************************************************)
IInv == Typed /\ Holds /\ (\A r \in Reqs : Knows(r)) /\ Globals

LEMMA InitIInv == Init => IInv
<1> SUFFICES ASSUME Init PROVE IInv
  OBVIOUS
<1>1. Typed /\ Holds
  BY InitTyped
<1>2. NoJob.ids = {} /\ \A r \in Reqs : pc[r] = "idle" /\ job[r] = NoJob
  BY DEF Init, NoJob
<1>3. \A r \in Reqs : Knows(r)
  BY <1>2 DEF Knows
<1>4. /\ Entered = {c \in Contestants : Created[c] # 0} /\ since = Created
      /\ removed = {} /\ winners = {}
      /\ \A c \in Contestants : votes[c] = 0 /\ ballots[c] = 0
  BY DEF Init, Entered
<1>5. SinceDistinct
  BY <1>4, SeasonAssumption DEF SeasonAssumption, SinceDistinct
<1>6. Globals
  BY <1>4, <1>5 DEF Globals, VotesOfEntered, RemovedRejected, RemovedAreHidden,
                    CounterBacked, Whole
<1> QED BY <1>1, <1>3, <1>6 DEF IInv

(* What a step of r leaves behind.                                           *)
Kept(r) ==
    Typed' /\ Holds' /\ Knows(r)' /\ Globals' /\ (\A q \in Reqs \ {r} : Notices(q))

LEMMA KeptIsIInv ==
  ASSUME IInv, NEW r \in Reqs, Kept(r) PROVE IInv'
<1>1. ASSUME NEW q \in Reqs PROVE Knows(q)'
  <2>1. CASE q = r
    BY <2>1 DEF Kept
  <2>2. CASE q # r
    <3>1. job[q] \in Job /\ Knows(q)
      BY DEF IInv, Typed
    <3> QED BY <2>2, <3>1, KnowsOn DEF Kept
  <2> QED BY <2>1, <2>2
<1> QED BY <1>1 DEF Kept, IInv

LEMMA ReadsKept ==
  ASSUME IInv, NEW r \in Reqs, Reads(r) PROVE Kept(r)
  BY QuietGlobals, QuietNoticed DEF Reads, Kept, IInv

LEMMA DoneKept ==
  ASSUME NEW r \in Reqs, Typed', Holds', Done(r), Globals',
         \A q \in Reqs \ {r} : Notices(q)
  PROVE  Kept(r)
  BY DoneKnows DEF Kept

LEMMA SeedKept ==
  ASSUME IInv, NEW r \in Reqs, SeedStage(r) PROVE Kept(r)
<1>1. Typed /\ Holds /\ Globals /\ Knows(r)
  BY DEF IInv
<1>2. Typed' /\ Holds' /\ (Done(r) \/ (pc'[r] = "seed" /\ job'[r].ids = job[r].ids))
  BY <1>1, SeedStageTyped
<1>3. Globals' /\ \A q \in Reqs \ {r} : Notices(q)
  BY <1>1, StageGlobals, SeedStageNoticed
<1>4. CASE Done(r)
  BY <1>2, <1>3, <1>4, DoneKept
<1>5. CASE pc'[r] = "seed" /\ job'[r].ids = job[r].ids
  <2>1. Entered' = Entered
    BY DEF SeedStage, Entered
  <2>2. Knows(r)'
    BY <1>1, <1>5, <2>1 DEF Knows
  <2> QED BY <1>2, <1>3, <2>2 DEF Kept
<1> QED BY <1>2, <1>4, <1>5

LEMMA StepKept ==
  ASSUME IInv, NEW r \in Reqs, Start(r) \/ Proceed(r) \/ Abort(r) PROVE Kept(r)
<1>0. Typed /\ Holds /\ Globals /\ Knows(r) /\ SinceDistinct
  BY DEF IInv, Globals
<1>1. CASE Start(r)
  BY <1>0, <1>1, Starts, BeginsQuiet, ReadsKept DEF Begun, Reads
<1>2. CASE Abort(r)
  BY <1>0, <1>2, LeavesRead, ReadsKept DEF Abort, Answered
<1>3. CASE Proceed(r)
  <2>1. CASE ActiveStageRule(r)
    BY <1>0, <2>1, RuleReads, ReadsKept
  <2>2. CASE WriteStage(r)
    BY <1>0, <2>2, WriteStageTyped, WriteStageNoticed, StageGlobals, DoneKept
  <2>3. CASE DeleteStage(r)
    BY <1>0, <2>3, DeleteStageTyped, DeleteStageNoticed, DeleteStageGlobals, DoneKept
  <2>4. CASE SeedStage(r)
    BY <2>4, SeedKept
  <2>5. CASE FindContestant(r)
    BY <1>0, <2>5, FindReads, ReadsKept
  <2>6. CASE InsertEntry(r) \/ WriteReview(r)
    BY <1>0, <2>6, EntryTyped, EntryNoticed, EntryGlobals, DoneKept
  <2>7. CASE SetStanding(r)
    BY <1>0, <2>7, SetStandingTyped, SetStandingNoticed, SetStandingGlobals, DoneKept
  <2>8. CASE RejectEntries(r)
    BY <1>0, <2>8, RejectReads, ReadsKept
  <2>9. CASE PutOut(r)
    BY <1>0, <2>9, PutOutTyped, PutOutNoticed, PutOutGlobals, DoneKept
  <2>10. CASE CheckStage(r)
    BY <1>0, <2>10, CheckReads, ReadsKept
  <2>11. CASE CastVote(r)
    BY <1>0, <2>11, CastVoteTyped, CastVoteNoticed, CastVoteGlobals, DoneKept
  <2>12. CASE ZeroVotes(r)
    BY <1>0, <2>12, ZeroReads, ReadsKept
  <2>13. CASE DeleteVotes(r)
    BY <1>0, <2>13, DeleteVotesTyped, DeleteVotesNoticed, DeleteVotesGlobals, DoneKept
  <2>14. CASE Rank(r)
    BY <1>0, <2>14, RankReads, ReadsKept
  <2>15. CASE Eliminate(r)
    BY <1>0, <2>15, EliminateTyped, EliminateNoticed, EliminateGlobals, DoneKept
  <2>16. CASE Leaderboard(r)
    BY <1>0, <2>16, LeaderboardReads, ReadsKept
  <2>17. CASE DeleteWinners(r)
    BY <1>0, <2>17, DeleteReads, ReadsKept
  <2>18. CASE PlaceWinners(r)
    BY <1>0, <2>18, PlaceWinnersTyped, PlaceNoticed, PlaceGlobals, DoneKept
  <2> QED BY <1>3, <2>1, <2>2, <2>3, <2>4, <2>5, <2>6, <2>7, <2>8, <2>9, <2>10, <2>11, <2>12,
             <2>13, <2>14, <2>15, <2>16, <2>17, <2>18 DEF Proceed
<1> QED BY <1>1, <1>2, <1>3

LEMMA RegisterKept ==
  ASSUME IInv, NEW c \in Contestants, Register(c) PROVE IInv'
<1>1. Typed' /\ Holds' /\ Globals'
  BY RegisterTyped, RegisterGlobals DEF IInv
<1>2. ASSUME NEW q \in Reqs PROVE Knows(q)'
  BY RegisterNoticed, KnowsOn DEF IInv, Typed
<1> QED BY <1>1, <1>2 DEF IInv

LEMMA StutterKept ==
  ASSUME IInv, UNCHANGED vars PROVE IInv'
<1>1. UNCHANGED <<workload, stage, standing, since, votes, engagement, ballots, entry,
                  winners, editions, removed, excused, unzeroed, missed, pc, job>>
  BY DEF vars, rows, history
<1>2. Typed' /\ Holds'
  BY <1>1 DEF IInv, Typed, TypeOK, Holds, HoldsAt
<1>3. Entered' = Entered
  BY <1>1 DEF Entered
<1>4. SinceDistinct'
  BY <1>1, <1>3, SinceKept DEF IInv, Globals
<1>5. Globals'
  BY <1>1, <1>3, <1>4 DEF IInv, Globals, VotesOfEntered, RemovedRejected,
                          RemovedAreHidden, CounterBacked, Whole
<1>6. ASSUME NEW q \in Reqs PROVE Knows(q)'
  <2>1. Notices(q)
    BY <1>1, <1>3 DEF Notices
  <2> QED BY <2>1, KnowsOn DEF IInv, Typed
<1> QED BY <1>2, <1>5, <1>6 DEF IInv

LEMMA NextIInv == IInv /\ [Next]_vars => IInv'
<1> SUFFICES ASSUME IInv, [Next]_vars PROVE IInv'
  OBVIOUS
<1> QED BY StepKept, KeptIsIInv, RegisterKept, StutterKept DEF Next

LEMMA SpecIInv == Spec => []IInv
  BY InitIInv, NextIInv, PTL DEF Spec

(* Every variable keeps its type, whatever requests overlap.                 *)
THEOREM TypesHold == Spec => []TypeOK
<1>1. IInv => TypeOK
  BY DEF IInv, Typed
<1> QED BY <1>1, SpecIInv, PTL

(* Entries of contestants who were removed, or put out by a reset, stay      *)
(* hidden: but for those reviewed since, or submitted by a request that had  *)
(* found the contestant in good standing.                                    *)
THEOREM RemovedStayHidden == Spec => []RemovedAreHidden
<1>1. IInv => RemovedAreHidden
  BY DEF IInv, Globals
<1> QED BY <1>1, SpecIInv, PTL

(* Casting, resets and registrations in any order leave no counter above the *)
(* rows of its votes, unless its contestant registered during a reset.       *)
THEOREM CountersAreBacked == Spec => []CounterBacked
<1>1. IInv => CounterBacked
  BY DEF IInv, Globals
<1> QED BY <1>1, SpecIInv, PTL

(* However declarations and resets overlap, the winners are those of one     *)
(* declaration, without gaps, ties of places or better scores below.         *)
THEOREM PodiumIsWhole == Spec => []PodiumOK
<1>1. IInv => PodiumOK
  BY DEF IInv, Globals, Whole, PodiumOK
<1> QED BY <1>1, SpecIInv, PTL

(***************************************************************************)
(* What a step may never do.                                               *)
(***************************************************************************)
LEMMA AnswerIsWrite ==
  ASSUME IInv, NEW r \in Reqs, [Next]_vars, pc[r] = "write stage", pc'[r] = "idle"
  PROVE  /\ WriteStage(r)
         /\ stage' = [stage EXCEPT ![job[r].at] = job[r].what]
<1>1. pc' # pc /\ pc'[r] # pc[r]
  BY DEF IInv, Typed
<1>2. \A c \in Contestants : ~Register(c)
  BY <1>1 DEF Register
<1>3. PICK q \in Reqs : Start(q) \/ Proceed(q) \/ Abort(q)
  BY <1>1, <1>2 DEF Next, vars
<1>4. q = r
  <2>1. q # r => Notices(r)
    BY <1>3, StepKept DEF Kept
  <2> QED BY <1>1, <2>1 DEF Notices
<1>5. ~Leave(r, "failed")
  <2> SUFFICES ASSUME Leave(r, "failed") PROVE FALSE
    OBVIOUS
  <2>1. pc'[r] = "failed"
    BY DEF Leave, Goto, IInv, Typed
  <2> QED BY <2>1
<1>6. ~Start(r)
  <2> SUFFICES ASSUME Start(r) PROVE FALSE
    OBVIOUS
  <2>1. PICK op, j, loc : Begin(r, op, j, loc)
    BY DEF Start, Seed, Reset, ResetVotes, DeclareWinners, RemoveStage, EliminateBottom,
           CreateStage, UpdateStage, Submit, Cast, RemoveFromPublic, UpdateStatus, Review
  <2> QED BY <2>1 DEF Begin, Answered
<1>7. Proceed(r)
  BY <1>3, <1>4, <1>5, <1>6 DEF Abort
<1>8. WriteStage(r)
  BY <1>7 DEF Proceed, ActiveStageRule, DeleteStage, SeedStage, FindContestant,
              InsertEntry, WriteReview, SetStanding, RejectEntries, PutOut, CheckStage,
              CastVote, ZeroVotes, DeleteVotes, Rank, Eliminate, Leaderboard,
              DeleteWinners, PlaceWinners
<1> QED BY <1>5, <1>8 DEF WriteStage

(* A request makes a stage ACTIVE next to another only if the other was      *)
(* written between the check of the rule and the write.                      *)
THEOREM OneActiveStage == Spec => OneActive
<1>1. ASSUME IInv, [Next]_vars, NEW r \in Reqs, NEW s \in Stages, NEW t \in Stages,
             pc[r] = "write stage", pc'[r] = "idle",
             stage[s] # "ACTIVE", stage'[s] = "ACTIVE", s # t, stage[t] = "ACTIVE"
      PROVE  <<"stage", t>> \in missed[r]
  <2>1. stage' = [stage EXCEPT ![job[r].at] = job[r].what]
    BY <1>1, AnswerIsWrite
  <2>2. s = job[r].at /\ job[r].what = "ACTIVE"
    BY <1>1, <2>1 DEF IInv, Typed, TypeOK
  <2>3. Knows(r)
    BY <1>1 DEF IInv
  <2> QED BY <1>1, <2>2, <2>3 DEF Knows
<1> DEFINE A == \A r \in Reqs : \A s, t \in Stages :
                  /\ pc[r] = "write stage" /\ pc'[r] = "idle"
                  /\ stage[s] # "ACTIVE" /\ stage'[s] = "ACTIVE" /\ s # t /\ stage[t] = "ACTIVE"
                  => <<"stage", t>> \in missed[r]
<1>2. IInv /\ [Next]_vars => [A]_vars
  BY <1>1
<1>3. Spec => [][A]_vars
  BY <1>2, SpecIInv, PTL DEF Spec
<1> QED BY <1>3 DEF OneActive

(* The only statement that adds to the votes.                                *)
LEMMA OnlyCastAdds ==
  ASSUME IInv, NEW r \in Reqs, Proceed(r), NEW c \in Contestants, votes'[c] > votes[c]
  PROVE  pc[r] = "cast" /\ job[r].con = c
<1>1. votes[c] \in Nat
  <2>1. MaxVotes \in Nat
    BY SeasonAssumption DEF SeasonAssumption
  <2> QED BY <2>1 DEF IInv, Typed, TypeOK
<1>2. votes'[c] # votes[c] /\ votes'[c] # 0
  BY <1>1
<1>3. votes' # votes
  BY <1>2
<1>4. ~PutOut(r) /\ ~DeleteVotes(r)
  <2>1. \A out : votes' = Set(votes, out, 0) => votes'[c] \in {0, votes[c]}
    BY DEF Set, IInv, Typed, TypeOK
  <2> QED BY <1>2, <2>1 DEF PutOut, DeleteVotes
<1>5. ~Leave(r, "idle") /\ ~Leave(r, "failed") /\ \A loc, j : ~Move(r, loc, j)
  BY <1>3 DEF Leave, Move, rows
<1>6. CastVote(r)
  BY <1>3, <1>4, <1>5 DEF Proceed, ActiveStageRule, WriteStage, DeleteStage, SeedStage,
       FindContestant, InsertEntry, WriteReview, SetStanding, RejectEntries, CheckStage,
       ZeroVotes, Rank, Eliminate, Leaderboard, DeleteWinners, PlaceWinners, Podium
<1>7. pc[r] = "cast" /\ votes' = [votes EXCEPT ![job[r].con] = @ + 1]
  BY <1>5, <1>6 DEF CastVote
<1> QED BY <1>2, <1>7 DEF IInv, Typed, TypeOK

(* Votes are gained by contestants in good standing, or by those put out     *)
(* after the vote was checked.                                               *)
THEOREM VotesForThoseStanding == Spec => VotesForStanding
<1> DEFINE A == \A c \in Contestants : votes'[c] > votes[c] =>
                  \/ c \in Standing
                  \/ \E r \in Reqs : pc[r] = "cast" /\ job[r].con = c
                                     /\ <<"standing", c>> \in missed[r]
<1>1. ASSUME IInv, Next, NEW c \in Contestants, votes'[c] > votes[c], c \notin Standing
      PROVE  \E r \in Reqs : pc[r] = "cast" /\ job[r].con = c
                             /\ <<"standing", c>> \in missed[r]
  <2>1. votes' # votes
    <3>1. MaxVotes \in Nat
      BY SeasonAssumption DEF SeasonAssumption
    <3>2. votes[c] \in Nat
      BY <1>1, <3>1 DEF IInv, Typed, TypeOK
    <3> QED BY <1>1, <3>2
  <2>2. \A d \in Contestants : ~Register(d)
    BY <2>1 DEF Register
  <2>3. PICK r \in Reqs : Start(r) \/ Proceed(r) \/ Abort(r)
    BY <1>1, <2>2 DEF Next
  <2>4. ~Start(r)
    <3> SUFFICES ASSUME Start(r) PROVE FALSE
      OBVIOUS
    <3>1. Quiet(r)
      BY <1>1, BeginsQuiet DEF IInv
    <3> QED BY <2>1, <3>1 DEF Quiet, rows
  <2>5. ~Abort(r)
    BY <2>1 DEF Abort, Leave, rows
  <2>6. pc[r] = "cast" /\ job[r].con = c
    BY <1>1, <2>3, <2>4, <2>5, OnlyCastAdds
  <2>7. Knows(r)
    BY <1>1 DEF IInv
  <2>8. <<"standing", c>> \in missed[r]
    BY <1>1, <2>6, <2>7 DEF Knows
  <2> QED BY <2>6, <2>8
<1>2. IInv /\ [Next]_vars => [A]_vars
  BY <1>1
<1>3. Spec => [][A]_vars
  BY <1>2, SpecIInv, PTL DEF Spec
<1> QED BY <1>3 DEF VotesForStanding

(* Whoever is eliminated is no better than anybody who stays, unless votes   *)
(* or statuses of the two changed after the ranking was read.                *)
THEOREM EliminationIsFair == Spec => FairElimination
<1> DEFINE Fair(r) ==
             \A c \in job[r].ids, d \in Standing \ job[r].ids :
               \/ \E x \in {c, d} : {<<"votes", x>>, <<"standing", x>>} \cap missed[r] # {}
               \/ /\ votes[c] <= votes[d]
                  /\ votes[c] = votes[d] => engagement[c] <= engagement[d]
<1>1. ASSUME IInv, NEW r \in Reqs, pc[r] = "eliminate" PROVE Fair(r)
  <2> SUFFICES ASSUME NEW c \in job[r].ids, NEW d \in Standing \ job[r].ids,
                      ~NoBetter(c, d)
               PROVE  \E x \in {c, d} : {<<"votes", x>>, <<"standing", x>>}
                                          \cap missed[r] # {}
    BY DEF NoBetter
  <2>0. Knows(r)
    BY <1>1 DEF IInv
  <2>1. Touched(r, c) \/ Touched(r, d)
    BY <1>1, <2>0, Zenon DEF Knows
  <2>2. \A x : Touched(r, x) => {<<"votes", x>>, <<"standing", x>>} \cap missed[r] # {}
    BY DEF Touched
  <2> QED BY <2>1, <2>2
<1> DEFINE A == \A r \in Reqs : pc[r] = "eliminate" /\ pc'[r] = "idle" => Fair(r)
<1>2. IInv /\ [Next]_vars => [A]_vars
  <2> HIDE DEF Fair
  <2> QED BY <1>1
<1>3. Spec => [][A]_vars
  <2> HIDE DEF A
  <2> QED BY <1>2, SpecIInv, PTL DEF Spec
<1> QED BY <1>3 DEF FairElimination

(* The public never sees an entry of somebody who is removed or reset.       *)
THEOREM RemovedAreOut == Spec => [](\A s \in Stages : removed \cap PublicEntries(s) = {})
<1>1. IInv => \A s \in Stages : removed \cap PublicEntries(s) = {}
  BY DEF IInv, Globals, RemovedRejected, PublicEntries, Standing
<1> QED BY <1>1, SpecIInv, PTL

(* The orders that the code writes out separately agree: who is eliminated   *)
(* first is last on the profile, the board of votes has the profile's order  *)
(* but for equal votes, and the board of engagement has it among those.      *)
THEOREM RankingsAgree ==
  ASSUME TypeOK, NEW c \in Contestants, NEW d \in Contestants
  PROVE  /\ AheadOnProfile(c, d) <=> FirstOut(d, c)
         /\ votes[c] # votes[d] => (AheadByVotes(c, d) <=> AheadOnProfile(c, d))
         /\ votes[c] = votes[d] => (AheadByEngagement(c, d) <=> AheadOnProfile(c, d))
<1>1. \A x \in {c, d} : votes[x] \in Nat /\ engagement[x] \in Nat /\ since[x] \in Nat
  <2>1. MaxVotes \in Nat
    BY SeasonAssumption DEF SeasonAssumption
  <2> QED BY <2>1 DEF TypeOK
<1> QED BY <1>1 DEF AheadOnProfile, FirstOut, AheadByVotes, AheadByEngagement

(***************************************************************************)
(* The winners at the commit.                                              *)
(***************************************************************************)

(* W is what the leaderboard would give now.                                 *)
Board(W) ==
    /\ \A w \in W : w.con \in Standing /\ w.score = CombinedScore(w.con)
    /\ \A c \in Standing : \/ \E w \in W : w.con = c
                          \/ /\ \E w \in W : w.place = 3
                             /\ \A w \in W : w.score >= CombinedScore(c)

Scored(r) == \E c \in Contestants : Touched(r, c)

LEMMA OneLess ==
  ASSUME NEW S, IsFiniteSet(S), NEW x \in S, NEW k \in Nat, Cardinality(S) >= k + 1
  PROVE  IsFiniteSet(S \ {x}) /\ Cardinality(S \ {x}) >= k
<1>1. Cardinality(S) \in Nat
  BY FS_CardinalityType
<1>2. IsFiniteSet(S \ {x}) /\ Cardinality(S \ {x}) = Cardinality(S) - 1
  BY FS_RemoveElement
<1> QED BY <1>1, <1>2

(* Of those behind the third, the first has three ahead: one is the third.   *)
LEMMA ThirdPlace ==
  ASSUME TypeOK, SinceDistinct, NEW c \in Standing, ~(RankOf(c) <= 3)
  PROVE  \E d \in Standing : RankOf(d) = 3
<1> DEFINE Beyond == {d \in Standing : ~(RankOf(d) <= 3)}
           T == {Ahead(d) : d \in Beyond}
<1>1. T \subseteq FiniteSubsetsOf(Standing) /\ T # {}
  <2>1. \A d \in Beyond : Ahead(d) \in SUBSET Standing /\ IsFiniteSet(Ahead(d))
    BY Ranked DEF Ahead
  <2>2. c \in Beyond
    OBVIOUS
  <2> HIDE DEF Beyond
  <2> QED BY <2>1, <2>2 DEF FiniteSubsetsOf
<1>2. IsWellFoundedOn(StrictSubsetOrdering(Standing), FiniteSubsetsOf(Standing))
  BY StandingFinite, FS_StrictSubsetOrderingWellFounded
<1>3. PICK S \in T : \A U \in T : ~ (<<U, S>> \in StrictSubsetOrdering(Standing))
  <2> HIDE DEF T
  <2> QED BY <1>1, <1>2, WFMin
<1>4. PICK d \in Beyond : S = Ahead(d)
  OBVIOUS
<1>5. d \in Standing /\ Cardinality(Ahead(d)) \in Nat /\ Cardinality(Ahead(d)) >= 3
      /\ IsFiniteSet(Ahead(d)) /\ Ahead(d) \subseteq Standing
  BY Ranked DEF Ahead
<1>6. ASSUME NEW x \in Ahead(d) PROVE RankOf(x) \in 1..3
  <2>1. x \in Standing /\ Ahead(x) \subseteq Ahead(d) /\ x \notin Ahead(x)
    BY <1>5, AheadIsOrder
  <2>2. <<Ahead(x), Ahead(d)>> \in StrictSubsetOrdering(Standing)
    BY <1>5, <2>1 DEF StrictSubsetOrdering
  <2>3. x \notin Beyond
    BY <1>3, <1>4, <2>2
  <2> QED BY <2>1, <2>3, Ranked
<1>7. PICK x \in Ahead(d) : TRUE
  BY <1>5, FS_EmptySet
<1>8. IsFiniteSet(Ahead(d) \ {x}) /\ Cardinality(Ahead(d) \ {x}) >= 2
  <2>1. Cardinality(Ahead(d)) >= 2 + 1
    BY <1>5
  <2> QED BY <1>5, <1>7, <2>1, OneLess
<1>9. PICK y \in Ahead(d) \ {x} : TRUE
  BY <1>8, FS_EmptySet
<1>10. /\ IsFiniteSet((Ahead(d) \ {x}) \ {y})
       /\ Cardinality((Ahead(d) \ {x}) \ {y}) >= 1
  <2>1. Cardinality(Ahead(d) \ {x}) >= 1 + 1
    <3>1. Cardinality(Ahead(d) \ {x}) \in Nat
      BY <1>8, FS_CardinalityType
    <3> QED BY <1>8, <3>1
  <2> QED BY <1>8, <1>9, <2>1, OneLess
<1>11. PICK z \in (Ahead(d) \ {x}) \ {y} : TRUE
  BY <1>10, FS_EmptySet
<1>12. /\ x \in Standing /\ y \in Standing /\ z \in Standing
       /\ RankOf(x) \in 1..3 /\ RankOf(y) \in 1..3 /\ RankOf(z) \in 1..3
  BY <1>5, <1>6, <1>7, <1>9, <1>11
<1>13. RankOf(x) # RankOf(y) /\ RankOf(x) # RankOf(z) /\ RankOf(y) # RankOf(z)
  BY <1>9, <1>11, <1>12, RankDistinct
<1>14. RankOf(x) = 3 \/ RankOf(y) = 3 \/ RankOf(z) = 3
  BY <1>12, <1>13
<1> QED BY <1>12, <1>14

LEMMA TopThreeIsBoard ==
  ASSUME TypeOK, SinceDistinct, NEW e PROVE Board(TopThree(e))
<1> DEFINE Row(c) == [place |-> RankOf(c), con |-> c, score |-> CombinedScore(c),
                      edition |-> e]
           First == {d \in Standing : RankOf(d) <= 3}
<1>1. TopThree(e) = {Row(c) : c \in First}
  BY DEF TopThree
<1>2. \A c \in First : Row(c).con \in Standing /\ Row(c).score = CombinedScore(Row(c).con)
  OBVIOUS
<1>3. ASSUME NEW c \in Standing, c \notin First
      PROVE  /\ \E d \in First : Row(d).place = 3
             /\ \A d \in First : Row(d).score >= CombinedScore(c)
  <2>1. PICK d \in Standing : RankOf(d) = 3
    BY <1>3, ThirdPlace
  <2>2. d \in First /\ Row(d).place = 3
    BY <2>1
  <2>3. ASSUME NEW x \in First PROVE Row(x).score >= CombinedScore(c)
    <3>1. x \in Standing /\ RankOf(x) \in Nat /\ RankOf(c) \in Nat
          /\ RankOf(x) <= 3 /\ ~(RankOf(c) <= 3)
      BY <1>3, Ranked
    <3>2. ~(RankOf(c) < RankOf(x))
      BY <3>1
    <3>3. c \notin Ahead(x)
      BY <3>1, <3>2, AheadIsBelow
    <3>4. CombinedScore(c) <= CombinedScore(x)
      BY <3>1, <3>3, AheadIsOrder
    <3>5. CombinedScore(c) \in Nat /\ CombinedScore(x) \in Nat
      BY <3>1, ScoreTyped DEF Standing
    <3> QED BY <3>4, <3>5
  <2> QED BY <2>2, <2>3
<1>4. \A c \in First : Row(c).con = c
  OBVIOUS
<1> HIDE DEF Row, First
<1> QED BY <1>1, <1>2, <1>3, <1>4 DEF Board

(* The winners that a declaration has read are those it would read now,      *)
(* unless votes or statuses have changed.                                    *)
Ranks(r) == pc[r] \in {"delete winners", "place"} => Scored(r) \/ Board(job[r].podium)

LEMMA SameScores ==
  ASSUME TypeOK, TypeOK',
         \A c \in Contestants : /\ standing'[c] = standing[c]
                               /\ votes'[c] = votes[c] /\ engagement'[c] = engagement[c]
  PROVE  UNCHANGED <<standing, votes, engagement>>
<1>1. ASSUME standing \in [Contestants -> ContestantStatus \cup {"ABSENT"}],
             standing' \in [Contestants -> ContestantStatus \cup {"ABSENT"}]
      PROVE  standing' = standing
  BY <1>1
<1>2. ASSUME votes \in [Contestants -> 0..MaxVotes], votes' \in [Contestants -> 0..MaxVotes]
      PROVE  votes' = votes
  BY <1>2
<1>3. ASSUME engagement \in [Contestants -> Nat], engagement' \in [Contestants -> Nat]
      PROVE  engagement' = engagement
  BY <1>3
<1> QED BY <1>1, <1>2, <1>3 DEF TypeOK

LEMMA BoardKept ==
  ASSUME NEW W, UNCHANGED <<standing, votes, engagement>>, Board(W) PROVE Board(W)'
<1>1. Standing' = Standing
  BY DEF Standing
<1>2. Top(votes)' = Top(votes) /\ Top(engagement)' = Top(engagement)
  BY <1>1 DEF Top
<1>3. \A c : CombinedScore(c)' = CombinedScore(c)
  BY <1>2 DEF CombinedScore
<1> QED BY <1>1, <1>3 DEF Board

LEMMA RanksOn ==
  ASSUME Typed, Typed', NEW q \in Reqs, Ranks(q), Notices(q) PROVE Ranks(q)'
<1> SUFFICES ASSUME pc'[q] \in {"delete winners", "place"}, ~Scored(q)'
             PROVE  Board(job[q].podium)'
  BY DEF Ranks
<1>1. pc[q] \in {"delete winners", "place"} /\ pc[q] \notin Answered
  BY DEF Notices, Answered
<1>2. ASSUME NEW c \in Contestants
      PROVE  /\ standing'[c] = standing[c]
             /\ votes'[c] = votes[c] /\ engagement'[c] = engagement[c]
             /\ ~Touched(q, c)
  <2>1. ~Touched(q, c)'
    BY DEF Scored
  <2>2. /\ missed[q] \subseteq missed'[q]
        /\ standing'[c] # standing[c] => <<"standing", c>> \in missed'[q]
        /\ votes'[c] # votes[c] \/ engagement'[c] # engagement[c] => Touched(q, c)'
    BY <1>1, Zenon DEF Notices, Touched
  <2> QED BY <2>1, <2>2, Zenon DEF Touched
<1>3. UNCHANGED <<standing, votes, engagement>>
  BY <1>2, SameScores DEF Typed
<1>4. ~Scored(q)
  BY <1>2 DEF Scored
<1>5. Board(job[q].podium)
  BY <1>1, <1>4 DEF Ranks
<1>6. job'[q].podium = job[q].podium
  <2>1. job[q] \in Job
    BY DEF Typed
  <2> QED BY <2>1 DEF Notices, Job
<1>7. PICK W : W = job[q].podium
  OBVIOUS
<1>8. Board(W)'
  BY <1>3, <1>5, <1>7, BoardKept
<1> QED BY <1>6, <1>7, <1>8 DEF Board

(* Only these two statements lead on to the writing of the winners.          *)
LEMMA WaysToPlace ==
  ASSUME Typed, NEW r \in Reqs, Start(r) \/ Proceed(r) \/ Abort(r),
         pc'[r] \in {"delete winners", "place"}
  PROVE  Leaderboard(r) \/ DeleteWinners(r)
<1>1. \A loc, j : Goto(r, loc, j) => pc'[r] = loc
  BY DEF Goto, Typed
<1>2. ~Abort(r)
  BY <1>1 DEF Abort, Leave
<1>3. ~Start(r)
  BY <1>1 DEF Start, Seed, Reset, ResetVotes, DeclareWinners, RemoveStage,
     EliminateBottom, CreateStage, UpdateStage, WriteOrRule, Submit, Cast,
     RemoveFromPublic, UpdateStatus, Review, Begin
<1>4. \A answer : Leave(r, answer) => pc'[r] = answer
  BY <1>1 DEF Leave
<1>5. \A loc, j : Move(r, loc, j) => pc'[r] = loc
  BY <1>1 DEF Move
<1>6. \A facts : Wrote(r, facts) => pc'[r] = "idle"
  BY <1>1 DEF Wrote
<1>7. ~DeleteStage(r) /\ ~SeedStage(r)
  BY <1>1, <1>4 DEF DeleteStage, SeedStage, Typed
<1>8. /\ ~ActiveStageRule(r) /\ ~WriteStage(r) /\ ~FindContestant(r) /\ ~InsertEntry(r)
      /\ ~WriteReview(r) /\ ~SetStanding(r) /\ ~RejectEntries(r) /\ ~PutOut(r)
  BY <1>4, <1>5, <1>6, Zenon DEF ActiveStageRule, WriteStage, FindContestant, InsertEntry,
     WriteReview, SetStanding, RejectEntries, PutOut
<1>9. /\ ~CheckStage(r) /\ ~CastVote(r) /\ ~ZeroVotes(r) /\ ~DeleteVotes(r)
      /\ ~Rank(r) /\ ~Eliminate(r) /\ ~PlaceWinners(r)
  BY <1>4, <1>5, <1>6, Zenon DEF CheckStage, CastVote, ZeroVotes, DeleteVotes, Rank,
     Eliminate, PlaceWinners, Podium
<1> QED BY <1>2, <1>3, <1>7, <1>8, <1>9 DEF Proceed

LEMMA RanksRead ==
  ASSUME IInv, NEW r \in Reqs, Ranks(r), Start(r) \/ Proceed(r) \/ Abort(r)
  PROVE  Ranks(r)'
<1> SUFFICES ASSUME pc'[r] \in {"delete winners", "place"}
             PROVE  Scored(r)' \/ Board(job[r].podium)'
  BY DEF Ranks
<1>0. Typed /\ TypeOK /\ SinceDistinct /\ job[r] \in Job
  BY DEF IInv, Globals, Typed
<1>1. ASSUME NEW loc, NEW j, Move(r, loc, j), loc \notin Answered
      PROVE  /\ job'[r] = j /\ missed' = missed
             /\ UNCHANGED <<standing, votes, engagement>>
  BY <1>0, <1>1 DEF Move, Goto, rows, Typed
<1>2. \A answer : Leave(r, answer) => pc'[r] = answer
  BY <1>0 DEF Leave, Goto, Typed
<1>3. CASE Leaderboard(r)
  <2> DEFINE j == [job[r] EXCEPT !.podium = TopThree(job[r].num)]
  <2>1. Move(r, "delete winners", j)
    BY <1>2, <1>3 DEF Leaderboard
  <2>2. j.podium = TopThree(job[r].num)
    BY <1>0 DEF Job
  <2> HIDE DEF j
  <2>3. job'[r].podium = TopThree(job[r].num) /\ UNCHANGED <<standing, votes, engagement>>
    <3>1. job'[r] = j /\ UNCHANGED <<standing, votes, engagement>>
      BY <1>1, <2>1 DEF Answered
    <3> QED BY <2>2, <3>1
  <2> DEFINE W == TopThree(job[r].num)
  <2>4. Board(W)
    BY <1>0, TopThreeIsBoard
  <2> HIDE DEF W
  <2>5. PICK V : V = W
    OBVIOUS
  <2>6. Board(V)'
    BY <2>3, <2>4, <2>5, BoardKept
  <2> QED BY <2>3, <2>5, <2>6 DEF W, Board
<1>4. CASE DeleteWinners(r)
  <2> DEFINE j == [job[r] EXCEPT !.seen = winners]
  <2>1. pc[r] = "delete winners" /\ Move(r, "place", j)
    BY <1>4 DEF DeleteWinners
  <2>2. j.podium = job[r].podium
    BY <1>0 DEF Job
  <2> HIDE DEF j
  <2>3. /\ job'[r].podium = job[r].podium /\ missed' = missed
        /\ UNCHANGED <<standing, votes, engagement>>
    BY <1>1, <2>1, <2>2 DEF Answered
  <2>4. Scored(r) \/ Board(job[r].podium)
    BY <2>1 DEF Ranks
  <2>5. Scored(r) => Scored(r)'
    BY <2>3 DEF Scored, Touched
  <2>6. PICK V : V = job[r].podium
    OBVIOUS
  <2>7. Board(V) => Board(V)'
    BY <2>3, BoardKept
  <2> QED BY <2>3, <2>4, <2>5, <2>6, <2>7 DEF Board
<1> QED BY <1>0, <1>3, <1>4, WaysToPlace

RanksAll == \A r \in Reqs : Ranks(r)

LEMMA NextRanks == IInv /\ RanksAll /\ [Next]_vars => RanksAll'
<1> SUFFICES ASSUME IInv, RanksAll, [Next]_vars, NEW q \in Reqs PROVE Ranks(q)'
  BY DEF RanksAll
<1>1. Typed /\ Typed' /\ Ranks(q)
  BY NextIInv DEF IInv, RanksAll
<1>2. CASE UNCHANGED vars
  <2>1. Notices(q)
    BY <1>2 DEF vars, rows, Notices, Entered
  <2> QED BY <1>1, <2>1, RanksOn
<1>3. ASSUME NEW c \in Contestants, Register(c) PROVE Ranks(q)'
  BY <1>1, <1>3, RegisterNoticed, RanksOn
<1>4. ASSUME NEW r \in Reqs, Start(r) \/ Proceed(r) \/ Abort(r) PROVE Ranks(q)'
  <2>1. CASE q = r
    BY <1>1, <1>4, <2>1, RanksRead
  <2>2. CASE q # r
    BY <1>1, <1>4, <2>2, StepKept, RanksOn DEF Kept
  <2> QED BY <2>1, <2>2
<1> QED BY <1>2, <1>3, <1>4 DEF Next

LEMMA AnswerIsPlace ==
  ASSUME IInv, NEW r \in Reqs, [Next]_vars, pc[r] = "place", pc'[r] = "idle"
  PROVE  winners' = job[r].podium
<1>1. pc' # pc /\ pc'[r] # pc[r]
  BY DEF IInv, Typed
<1>2. \A c \in Contestants : ~Register(c)
  BY <1>1 DEF Register
<1>3. PICK q \in Reqs : Start(q) \/ Proceed(q) \/ Abort(q)
  BY <1>1, <1>2 DEF Next, vars
<1>4. q = r
  <2>1. q # r => Notices(r)
    BY <1>3, StepKept DEF Kept
  <2> QED BY <1>1, <2>1 DEF Notices
<1>5. ~Leave(r, "failed")
  <2> SUFFICES ASSUME Leave(r, "failed") PROVE FALSE
    OBVIOUS
  <2>1. pc'[r] = "failed"
    BY DEF Leave, Goto, IInv, Typed
  <2> QED BY <2>1
<1>6. ~Start(r)
  <2> SUFFICES ASSUME Start(r) PROVE FALSE
    OBVIOUS
  <2>1. PICK op, j, loc : Begin(r, op, j, loc)
    BY DEF Start, Seed, Reset, ResetVotes, DeclareWinners, RemoveStage, EliminateBottom,
           CreateStage, UpdateStage, Submit, Cast, RemoveFromPublic, UpdateStatus, Review
  <2> QED BY <2>1 DEF Begin, Answered
<1>7. Proceed(r)
  BY <1>3, <1>4, <1>5, <1>6 DEF Abort
<1>8. PlaceWinners(r)
  BY <1>7 DEF Proceed, ActiveStageRule, WriteStage, DeleteStage, SeedStage, FindContestant,
              InsertEntry, WriteReview, SetStanding, RejectEntries, PutOut, CheckStage,
              CastVote, ZeroVotes, DeleteVotes, Rank, Eliminate, Leaderboard, DeleteWinners
<1> QED BY <1>5, <1>8 DEF PlaceWinners, Podium

(* The winners that are written stand, have the scores written for them and  *)
(* leave nobody better behind, unless votes or statuses changed after the    *)
(* leaderboard was read.                                                     *)
THEOREM DeclaredAreCurrent == Spec => PodiumIsCurrent
<1> DEFINE Current(r) ==
             \/ \E c \in Contestants : {<<"votes", c>>, <<"standing", c>>} \cap missed[r] # {}
             \/ /\ \A w \in winners' : w.con \in Standing /\ w.score = CombinedScore(w.con)
                /\ \A c \in Standing :
                     \/ \E w \in winners' : w.con = c
                     \/ /\ \E w \in winners' : w.place = 3
                        /\ \A w \in winners' : w.score >= CombinedScore(c)
           A == \A r \in Reqs : pc[r] = "place" /\ pc'[r] = "idle" => Current(r)
<1>1. ASSUME IInv, RanksAll, [Next]_vars, NEW r \in Reqs, pc[r] = "place", pc'[r] = "idle"
      PROVE  Current(r)
  <2>1. winners' = job[r].podium
    BY <1>1, AnswerIsPlace
  <2>2. Scored(r) \/ Board(job[r].podium)
    BY <1>1 DEF RanksAll, Ranks
  <2>3. \A c : Touched(r, c) => {<<"votes", c>>, <<"standing", c>>} \cap missed[r] # {}
    BY DEF Touched
  <2>4. CASE Scored(r)
    BY <2>3, <2>4 DEF Scored
  <2>5. CASE Board(job[r].podium)
    BY <2>1, <2>5 DEF Board
  <2> QED BY <2>2, <2>4, <2>5
<1>2. Init => RanksAll
  BY DEF Init, RanksAll, Ranks
<1>3. IInv /\ RanksAll /\ [Next]_vars => [A]_vars
  <2> HIDE DEF Current
  <2> QED BY <1>1
<1>4. Spec => [][A]_vars
  <2> HIDE DEF A
  <2> QED BY <1>2, <1>3, NextRanks, SpecIInv, PTL DEF Spec
<1> QED BY <1>4 DEF PodiumIsCurrent
=============================================================================
