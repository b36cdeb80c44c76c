------------------------------ MODULE ManualVotes ------------------------------
(***************************************************************************)
(* Bank-transfer ("manual") voting: a voter opens a payment intent, attaches *)
(* a proof image, submits it; an administrator confirms it, which credits    *)
(* the contestant, or rejects it.  Competition-wide resets and contestant    *)
(* moderation write the same rows at the same time.                          *)
(*                                                                           *)
(* Every HTTP request in flight is a process of Reqs that takes one step per *)
(* database statement other requests can observe or wait for.  The database  *)
(* is PostgreSQL as Prisma drives it:                                        *)
(*  - a row written by an open transaction is locked until it ends; another  *)
(*    writer of that row waits.  Nobody can change a locked row, so the      *)
(*    writes of a transaction are applied here when it commits;              *)
(*  - submit, confirm and reject run SERIALIZABLE: their reads come from the *)
(*    snapshot of the first one, and updating a row another transaction has  *)
(*    committed since then ends in a serialization failure (stale[r]);       *)
(*  - every other transaction runs READ COMMITTED: each statement sees the   *)
(*    rows committed when it starts (todo[r]) and locks them one by one.     *)
(***************************************************************************)
EXTENDS Integers, FiniteSets

CONSTANTS
    Payments,      \* identities a ManualVotePayment row may get
    Contestants,   \* identities a Contestant row may get, in one competition
    Founders,      \* the contestants registered before the behaviour starts
    Reqs,          \* requests the server can have in flight at once
    Proofs,        \* uploaded proof images
    None,          \* no row, no proof, no lock holder
    MaxAttach      \* bound: no proof upload starts beyond this many per payment

ASSUME IdentityAssumption ==
    /\ Founders \subseteq Contestants
    /\ Payments \cap Contestants = {}
    /\ None \notin Reqs \cup Payments \cup Contestants \cup Proofs
    /\ MaxAttach \in Nat

Rows == Payments \cup Contestants

VARIABLES
    cstatus,     \* Contestant.status: "ELIGIBLE" is PENDING or APPROVED,
                 \* "BLOCKED" is REJECTED or ELIMINATED, "ABSENT" has no row yet
    votingOpen,  \* getVotingWindowStatus(competition).votingOpen
    status,      \* ManualVotePayment.status; "ABSENT" has no row yet
    owner,       \* ManualVotePayment.contestantId
    proof,       \* ManualVotePayment.proofPublicId and proofImageUrl
    credits,     \* payments with a ManualVoteCredit row (unique per payment)
    tally,       \* how many times the payment's voteQuantity is part of its
                 \* contestant's totalVotes
    events,      \* number of ManualVotePaymentEvent rows by payment and type
    audit,       \* AdminAuditLog rows: <<action, entity>>
    pc,          \* where each request is
    arg,         \* the payment (createIntent: the contestant) it works on
    todo,        \* rows its current updateMany has matched and not yet locked
    stale,       \* rows committed by others since its snapshot
    lock         \* holder of the row lock

table == <<cstatus, votingOpen, status, owner, proof, credits, tally, events, audit>>
vars == <<table, pc, arg, todo, stale, lock>>

PaymentStatus == {"ABSENT", "INTENT_CREATED", "SUBMITTED", "CONFIRMED", "REJECTED"}
EventType == {"INTENT_CREATED", "PROOF_ATTACHED", "TRANSFER_SUBMITTED",
              "CONFIRMED", "REJECTED"}
AuditRow ==
    ({"MANUAL_VOTE_PAYMENT_CONFIRMED", "MANUAL_VOTE_PAYMENT_REJECTED"} \X Payments)
    \cup ({"CONTESTANT_REMOVE"} \X Contestants)
    \cup ({"COMPETITION_RESET", "COMPETITION_VOTES_RESET"} \X {None})

(* A request that has been answered: normally, with 409 (the claim of a row  *)
(* matched nothing), or with an unhandled database error.                    *)
Answered == {"idle", "conflict", "failed"}

(* Serializable transactions: before the claim of the payment row, after it, *)
(* and, for confirm, after the contestant's counter is incremented too.      *)
Claiming == {"submit", "confirm", "reject"}
Claimed == {"submit_claimed", "confirm_claimed", "reject_claimed", "confirm_counted"}
Serializable == Claiming \cup Claimed

(* resetVotes updates contestants, then payments; reset only contestants.    *)
Locking == {"votes_contestants", "votes_payments", "reset"}

Exists(p) == status[p] # "ABSENT"
Registered == {c \in Contestants : cstatus[c] # "ABSENT"}
Held(r) == {x \in Rows : lock[x] = r}
Record(p, type) == [events EXCEPT ![p][type] = @ + 1]
(* Mutant: a reset that takes votes off the counter instead of zeroing it.   *)
ZeroedByDecrement(C) ==
    [p \in Payments |-> IF owner[p] \in C THEN tally[p] - 1 ELSE tally[p]]

Zeroed(C) == [p \in Payments |-> IF owner[p] \in C THEN 0 ELSE tally[p]]

(***************************************************************************)
(* Transactions.                                                           *)
(***************************************************************************)
Begin(r, op, x, rows) ==
    /\ pc[r] \in Answered
    /\ pc' = [pc EXCEPT ![r] = op]
    /\ arg' = [arg EXCEPT ![r] = x]
    /\ todo' = [todo EXCEPT ![r] = rows]
    /\ UNCHANGED <<table, stale, lock>>

(* Mutant: submit, confirm and reject run READ COMMITTED.                    *)
OutdateNothing(r, W) == stale' = [q \in Reqs |-> {}]

(* Rows of W get a new committed version: the snapshots still open are old.  *)
Outdate(r, W) ==
    stale' = [q \in Reqs |-> IF q # r /\ pc[q] \in Serializable
                             THEN stale[q] \cup W ELSE {}]

Release(r, answer) ==
    /\ pc' = [pc EXCEPT ![r] = answer]
    /\ arg' = [arg EXCEPT ![r] = None]
    /\ todo' = [todo EXCEPT ![r] = {}]
    /\ lock' = [x \in Rows |-> IF lock[x] = r THEN None ELSE lock[x]]

Commit(r, W) == Release(r, "idle") /\ Outdate(r, W)

(* Mutant: the increment of confirm is not part of the transaction.          *)
RollbackButCounter(r, answer) ==
    /\ Release(r, answer)
    /\ Outdate(r, {})
    /\ tally' = IF pc[r] = "confirm_counted" THEN [tally EXCEPT ![arg[r]] = @ + 1] ELSE tally
    /\ UNCHANGED <<cstatus, votingOpen, status, owner, proof, credits, events, audit>>

Rollback(r, answer) == Release(r, answer) /\ Outdate(r, {}) /\ UNCHANGED table

Init ==
    /\ cstatus \in [Contestants -> {"ABSENT", "ELIGIBLE"}]
    /\ \A c \in Contestants : cstatus[c] = "ELIGIBLE" <=> c \in Founders
    /\ votingOpen = TRUE
    /\ status = [p \in Payments |-> "ABSENT"]
    /\ owner = [p \in Payments |-> None]
    /\ proof = [p \in Payments |-> None]
    /\ credits = {}
    /\ tally = [p \in Payments |-> 0]
    /\ events = [p \in Payments |-> [t \in EventType |-> 0]]
    /\ audit = {}
    /\ pc = [r \in Reqs |-> "idle"]
    /\ arg = [r \in Reqs |-> None]
    /\ todo = [r \in Reqs |-> {}]
    /\ stale = [r \in Reqs |-> {}]
    /\ lock = [x \in Rows |-> None]

(***************************************************************************)
(* createIntent: the eligibility checks, then the insert.                  *)
(***************************************************************************)
CreateIntent(r, c) ==
    /\ cstatus[c] = "ELIGIBLE"
    /\ votingOpen
    /\ Begin(r, "create", c, {})

InsertIntent(r, p) ==
    /\ pc[r] = "create"
    /\ ~Exists(p)
    /\ status' = [status EXCEPT ![p] = "INTENT_CREATED"]
    /\ owner' = [owner EXCEPT ![p] = arg[r]]
    /\ events' = Record(p, "INTENT_CREATED")
    /\ Commit(r, {})
    /\ UNCHANGED <<cstatus, votingOpen, proof, credits, tally, audit>>

(* A generated reference that is taken is tried again; the fifth one throws. *)
ReferencesCollide(r) ==
    /\ pc[r] = "create"
    /\ \E p \in Payments : Exists(p)
    /\ Rollback(r, "failed")

(***************************************************************************)
(* attachProof: the status is read before the transaction, and the update  *)
(* in it is by id alone.                                                   *)
(***************************************************************************)
AttachProof(r, p) ==
    /\ status[p] = "INTENT_CREATED"
    /\ events[p]["PROOF_ATTACHED"] < MaxAttach
    /\ Begin(r, "attach", p, {})

StoreProof(r, x) ==
    LET p == arg[r] IN
    /\ pc[r] = "attach"
    /\ lock[p] = None
    /\ proof' = [proof EXCEPT ![p] = x]
    /\ events' = Record(p, "PROOF_ATTACHED")
    /\ Commit(r, {p})
    /\ UNCHANGED <<cstatus, votingOpen, status, owner, credits, tally, audit>>

(***************************************************************************)
(* submit, confirm and reject: find the payment (the snapshot), claim it   *)
(* with an updateMany on its status, write, commit.  A request the checks  *)
(* refuse, or that finds its work done, changes nothing.                   *)
(***************************************************************************)
(* Mutant: submit does not look for a proof.                                 *)
SubmitWithoutProof(r, p) ==
    /\ status[p] = "INTENT_CREATED"
    /\ Begin(r, "submit", p, {})

Submit(r, p) ==
    /\ status[p] = "INTENT_CREATED"
    /\ proof[p] # None
    /\ Begin(r, "submit", p, {})

Confirm(r, p) ==
    /\ status[p] = "SUBMITTED"
    /\ Begin(r, "confirm", p, {})

Reject(r, p) ==
    /\ status[p] = "SUBMITTED"
    /\ Begin(r, "reject", p, {})

ClaimsFrom(op) == IF op = "submit" THEN "INTENT_CREATED" ELSE "SUBMITTED"
ClaimedBy(op) == CASE op = "submit" -> "submit_claimed"
                   [] op = "confirm" -> "confirm_claimed"
                   [] op = "reject" -> "reject_claimed"

(* Mutant: the payment is claimed by id alone.                               *)
ClaimById(r) ==
    /\ pc[r] \in Claiming
    /\ lock[arg[r]] = None
    /\ lock' = [lock EXCEPT ![arg[r]] = r]
    /\ pc' = [pc EXCEPT ![r] = ClaimedBy(pc[r])]
    /\ UNCHANGED <<table, arg, todo, stale>>

(* Mutant: the claim is repeated in the transaction until it succeeds.       *)
ClaimUntilWon(r) ==
    LET p == arg[r] IN
    /\ pc[r] \in Claiming
    /\ lock[p] = None
    /\ p \notin stale[r]
    /\ status[p] = ClaimsFrom(pc[r])
    /\ lock' = [lock EXCEPT ![p] = r]
    /\ pc' = [pc EXCEPT ![r] = ClaimedBy(pc[r])]
    /\ UNCHANGED <<table, arg, todo, stale>>

Claim(r) ==
    LET p == arg[r] IN
    /\ pc[r] \in Claiming
    /\ lock[p] = None
    /\ IF p \in stale[r] THEN Rollback(r, "failed")
       ELSE IF status[p] # ClaimsFrom(pc[r]) THEN Rollback(r, "conflict")
       ELSE /\ lock' = [lock EXCEPT ![p] = r]
            /\ pc' = [pc EXCEPT ![r] = ClaimedBy(pc[r])]
            /\ UNCHANGED <<table, arg, todo, stale>>

SubmitCommit(r) ==
    LET p == arg[r] IN
    /\ pc[r] = "submit_claimed"
    /\ status' = [status EXCEPT ![p] = "SUBMITTED"]
    /\ events' = Record(p, "TRANSFER_SUBMITTED")
    /\ Commit(r, {p})
    /\ UNCHANGED <<cstatus, votingOpen, owner, proof, credits, tally, audit>>

(* confirm inserts the credit, unique per payment, and increments the        *)
(* contestant's counter, whose row it has to wait for.                       *)
Increment(r) ==
    LET c == owner[arg[r]] IN
    /\ pc[r] = "confirm_claimed"
    /\ lock[c] = None
    /\ IF c \in stale[r] \/ arg[r] \in credits THEN Rollback(r, "failed")
       ELSE /\ lock' = [lock EXCEPT ![c] = r]
            /\ pc' = [pc EXCEPT ![r] = "confirm_counted"]
            /\ UNCHANGED <<table, arg, todo, stale>>

ConfirmCommit(r) ==
    LET p == arg[r] IN
    /\ pc[r] = "confirm_counted"
    /\ status' = [status EXCEPT ![p] = "CONFIRMED"]
    /\ credits' = credits \cup {p}
    /\ tally' = [tally EXCEPT ![p] = @ + 1]
    /\ events' = Record(p, "CONFIRMED")
    /\ audit' = audit \cup {<<"MANUAL_VOTE_PAYMENT_CONFIRMED", p>>}
    /\ Commit(r, {p, owner[p]})
    /\ UNCHANGED <<cstatus, votingOpen, owner, proof>>

RejectCommit(r) ==
    LET p == arg[r] IN
    /\ pc[r] = "reject_claimed"
    /\ status' = [status EXCEPT ![p] = "REJECTED"]
    /\ events' = Record(p, "REJECTED")
    /\ audit' = audit \cup {<<"MANUAL_VOTE_PAYMENT_REJECTED", p>>}
    /\ Commit(r, {p})
    /\ UNCHANGED <<cstatus, votingOpen, owner, proof, credits, tally>>

(***************************************************************************)
(* resetVotes and reset.  Their updateMany statements lock the rows they   *)
(* match one at a time.  reset also rejects submissions and deletes the    *)
(* winners, rows that no action here reads.                                *)
(***************************************************************************)
(* Mutant: only the contestants still in the race are zeroed.                *)
ResetVotesOfEligible(r) ==
    Begin(r, "votes_contestants", None, {c \in Contestants : cstatus[c] = "ELIGIBLE"})

ResetVotes(r) == Begin(r, "votes_contestants", None, Registered)

Reset(r) == Begin(r, "reset", None, Registered)

LockRow(r, x) ==
    /\ pc[r] \in Locking
    /\ x \in todo[r]
    /\ lock[x] = None
    /\ lock' = [lock EXCEPT ![x] = r]
    /\ todo' = [todo EXCEPT ![r] = @ \ {x}]
    /\ UNCHANGED <<table, pc, arg, stale>>

(* Mutant: only payments still waiting for review are archived.              *)
ResetVotesOfSubmitted(r) ==
    /\ pc[r] = "votes_contestants"
    /\ todo[r] = {}
    /\ pc' = [pc EXCEPT ![r] = "votes_payments"]
    /\ todo' = [todo EXCEPT ![r] = {p \in Payments : status[p] = "SUBMITTED"}]
    /\ UNCHANGED <<table, arg, stale, lock>>

ResetVotesPayments(r) ==
    /\ pc[r] = "votes_contestants"
    /\ todo[r] = {}
    /\ pc' = [pc EXCEPT ![r] = "votes_payments"]
    /\ todo' = [todo EXCEPT ![r] = {p \in Payments : Exists(p)}]
    /\ UNCHANGED <<table, arg, stale, lock>>

ResetVotesCommit(r) ==
    /\ pc[r] = "votes_payments"
    /\ todo[r] = {}
    /\ tally' = Zeroed(Held(r))
    /\ status' = [p \in Payments |-> IF lock[p] = r THEN "REJECTED" ELSE status[p]]
    /\ audit' = audit \cup {<<"COMPETITION_VOTES_RESET", None>>}
    /\ Commit(r, Held(r))
    /\ UNCHANGED <<cstatus, votingOpen, owner, proof, credits, events>>

ResetCommit(r) ==
    /\ pc[r] = "reset"
    /\ todo[r] = {}
    /\ tally' = Zeroed(Held(r))
    /\ cstatus' = [c \in Contestants |-> IF lock[c] = r THEN "BLOCKED" ELSE cstatus[c]]
    /\ audit' = audit \cup {<<"COMPETITION_RESET", None>>}
    /\ Commit(r, Held(r))
    /\ UNCHANGED <<votingOpen, status, owner, proof, credits, events>>

(***************************************************************************)
(* A transaction may end early: Prisma's 5 s limit, a lost connection, a   *)
(* crash.  PostgreSQL itself ends one member of a cycle of waiting         *)
(* transactions.                                                           *)
(***************************************************************************)
Abort(r) == pc[r] \notin Answered /\ Rollback(r, "idle")

(* The rows the next statement of r can be waiting for.                      *)
Wants(r) ==
    CASE pc[r] \in Claiming \cup {"attach"} -> {arg[r]}
      [] pc[r] = "confirm_claimed" -> {owner[arg[r]]}
      [] pc[r] \in Locking -> todo[r]
      [] OTHER -> {}

Blocked(r, S) == Wants(r) # {} /\ \A x \in Wants(r) : lock[x] \in S

DeadlockDetected(r) ==
    /\ Held(r) # {}
    /\ \E S \in SUBSET Reqs : r \in S /\ \A q \in S : Blocked(q, S)
    /\ Rollback(r, "failed")

(***************************************************************************)
(* The single-row transactions of contestant moderation and registration.  *)
(***************************************************************************)
AdminWrite(W) ==
    /\ \A x \in W : lock[x] = None
    /\ stale' = [q \in Reqs |-> IF pc[q] \in Serializable THEN stale[q] \cup W ELSE {}]
    /\ UNCHANGED <<pc, arg, todo, lock>>

(* contestants.updateStatus.                                                 *)
UpdateStatus(c, s) ==
    /\ c \in Registered
    /\ cstatus' = [cstatus EXCEPT ![c] = s]
    /\ AdminWrite({c})
    /\ UNCHANGED <<votingOpen, status, owner, proof, credits, tally, events, audit>>

RemoveFromPublic(c) ==
    /\ c \in Registered
    /\ cstatus' = [cstatus EXCEPT ![c] = "BLOCKED"]
    /\ tally' = Zeroed({c})
    /\ audit' = audit \cup {<<"CONTESTANT_REMOVE", c>>}
    /\ AdminWrite({c})
    /\ UNCHANGED <<votingOpen, status, owner, proof, credits, events>>

(* contestants.register: a new row nobody holds or has read.                 *)
Register(c) ==
    /\ cstatus[c] = "ABSENT"
    /\ cstatus' = [cstatus EXCEPT ![c] = "ELIGIBLE"]
    /\ AdminWrite({})
    /\ UNCHANGED <<votingOpen, status, owner, proof, credits, tally, events, audit>>

(* The competition's switches and dates, as time passes and admins edit them. *)
SetVoting ==
    /\ votingOpen' = ~votingOpen
    /\ AdminWrite({})
    /\ UNCHANGED <<cstatus, status, owner, proof, credits, tally, events, audit>>

(***************************************************************************)
(* The specification.                                                      *)
(***************************************************************************)
Start(r) ==
    \/ \E c \in Contestants : CreateIntent(r, c)
    \/ \E p \in Payments : AttachProof(r, p)
    \/ \E p \in Payments : Submit(r, p)
    \/ \E p \in Payments : Confirm(r, p)
    \/ \E p \in Payments : Reject(r, p)
    \/ ResetVotes(r)
    \/ Reset(r)

Proceed(r) ==
    \/ \E p \in Payments : InsertIntent(r, p)
    \/ ReferencesCollide(r)
    \/ \E x \in Proofs : StoreProof(r, x)
    \/ Claim(r)
    \/ SubmitCommit(r)
    \/ Increment(r)
    \/ ConfirmCommit(r)
    \/ RejectCommit(r)
    \/ \E x \in Rows : LockRow(r, x)
    \/ ResetVotesPayments(r)
    \/ ResetVotesCommit(r)
    \/ ResetCommit(r)

Moderate ==
    \/ \E c \in Contestants, s \in {"ELIGIBLE", "BLOCKED"} : UpdateStatus(c, s)
    \/ \E c \in Contestants : RemoveFromPublic(c)
    \/ \E c \in Contestants : Register(c)
    \/ SetVoting

Next ==
    \/ \E r \in Reqs : Start(r) \/ Proceed(r) \/ Abort(r) \/ DeadlockDetected(r)
    \/ Moderate

Spec == Init /\ [][Next]_vars

(* Liveness adds: a request that can repeatedly take its step takes it        *)
(* (PostgreSQL queues waiters for a row lock in order of arrival), and a      *)
(* deadlock is detected.  Timeouts and crashes are never relied upon.         *)
Fairness ==
    \A r \in Reqs : SF_vars(Proceed(r)) /\ WF_vars(DeadlockDetected(r))

FairSpec == Spec /\ Fairness

(***************************************************************************)
(* Properties.                                                             *)
(***************************************************************************)
Location == Answered \cup Serializable \cup Locking \cup {"create", "attach"}

(* Every variable stays in its domain; event counters never go negative.     *)
TypeOK ==
    /\ cstatus \in [Contestants -> {"ABSENT", "ELIGIBLE", "BLOCKED"}]
    /\ votingOpen \in BOOLEAN
    /\ status \in [Payments -> PaymentStatus]
    /\ owner \in [Payments -> Contestants \cup {None}]
    /\ proof \in [Payments -> Proofs \cup {None}]
    /\ credits \subseteq Payments
    /\ tally \in [Payments -> Nat]
    /\ events \in [Payments -> [EventType -> Nat]]
    /\ audit \subseteq AuditRow
    /\ pc \in [Reqs -> Location]
    /\ arg \in [Reqs -> Rows \cup {None}]
    /\ todo \in [Reqs -> SUBSET Rows]
    /\ stale \in [Reqs -> SUBSET Rows]
    /\ lock \in [Rows -> Reqs \cup {None}]

(* However confirms, rejects, resets and aborted transactions interleave, a  *)
(* payment's votes enter its contestant's total at most once, and only with  *)
(* a credit row to account for them (confirm).                               *)
CountedOnce ==
    \A p \in Payments : tally[p] > 0 => tally[p] = 1 /\ p \in credits

(* Two administrators deciding the same payment: exactly one decision is     *)
(* recorded, and it is the confirmation if and only if the payment was       *)
(* credited (confirm, reject).                                               *)
DecidedOnce ==
    \A p \in Payments :
        /\ events[p]["CONFIRMED"] + events[p]["REJECTED"] <= 1
        /\ events[p]["CONFIRMED"] = 1 <=> p \in credits
        /\ status[p] = "CONFIRMED" => p \in credits

(* Votes that count are backed by a confirmed payment, for contestants that  *)
(* were there all along: resetVotes zeroes the counters before it archives   *)
(* the payments, and a confirm between the two statements must not leave     *)
(* votes behind.                                                             *)
BackedVotes ==
    \A p \in Payments :
        tally[p] > 0 /\ owner[p] \in Founders => status[p] = "CONFIRMED"

(* A confirmed payment whose votes no longer count was wiped by an audited   *)
(* reset or removal; a payment rejected without a rejection event was        *)
(* archived by an audited resetVotes.  No other interleaving loses votes.    *)
LossesAudited ==
    \A p \in Payments :
        /\ status[p] = "CONFIRMED" /\ tally[p] = 0 =>
               \/ <<"COMPETITION_RESET", None>> \in audit
               \/ <<"CONTESTANT_REMOVE", owner[p]>> \in audit
        /\ status[p] = "REJECTED" /\ events[p]["REJECTED"] = 0 =>
               <<"COMPETITION_VOTES_RESET", None>> \in audit

(* Nothing reaches an administrator, or is credited, without a proof image   *)
(* (submit's check, and no path around it).                                  *)
ProofBeforeReview ==
    \A p \in Payments :
        status[p] \in {"SUBMITTED", "CONFIRMED"} =>
            proof[p] # None /\ events[p]["TRANSFER_SUBMITTED"] = 1

(* The claims of submit, confirm and reject find the row as their snapshot   *)
(* showed it or fail to serialize: "count !== 1" and its 409 never happen,   *)
(* and the credit never collides with an existing one.                       *)
ClaimNeverMisses ==
    \A r \in Reqs :
        /\ pc[r] # "conflict"
        /\ pc[r] \in Claimed \ {"submit_claimed"} => arg[r] \notin credits

(* Decisions are final: a credit row is never deleted, a rejected payment is *)
(* never reopened, a confirmed one leaves that status only in a step that    *)
(* takes its votes out of the total as well (resetVotes).                    *)
DecisionsFinal ==
    [][\A p \in Payments :
          /\ p \in credits => p \in credits'
          /\ status[p] = "REJECTED" => status'[p] = "REJECTED"
          /\ status[p] = "CONFIRMED" /\ status'[p] # "CONFIRMED" /\ owner[p] \in Founders
                => status'[p] = "REJECTED" /\ tally'[p] = 0]_vars

(* Every request is answered: whatever waits for a row lock gets it, or is   *)
(* the victim of a detected deadlock (confirm locks payment then contestant, *)
(* resetVotes contestants then payments).                                    *)
RequestsAnswered ==
    \A r \in Reqs : pc[r] \notin Answered ~> pc[r] \in Answered

(* Requests that can all only wait for each other include a resetVotes past  *)
(* its first statement, or two resets whose updateMany statements lock the   *)
(* same contestants in different orders.  Voters and administrators deciding *)
(* payments never block each other for good, however many there are.         *)
DeadlockNeedsReset ==
    \A S \in SUBSET Reqs : S # {} /\ (\A q \in S : Blocked(q, S)) =>
        \/ \E q \in S : pc[q] = "votes_payments"
        \/ \E q, r \in S : q # r /\ pc[q] \in Locking /\ pc[r] \in Locking

(* What the documentation says of uploads: a proof can only be attached to   *)
(* an unsubmitted intent (attachProof).  The code checks before it writes.   *)
ProofFrozen ==
    [][\A p \in Payments :
          status[p] \notin {"ABSENT", "INTENT_CREATED"} => proof'[p] = proof[p]]_vars

(* What the note resetVotes leaves on each payment says: a payment archived  *)
(* by it is excluded from the totals.                                        *)
ArchivedExcluded ==
    \A p \in Payments : status[p] = "REJECTED" => tally[p] = 0

(* The requests, with all their interleavings and failures, implement the    *)
(* atomic ledger: every commit is one of its decisions.                      *)
Counted == {p \in Payments : tally[p] # 0}
Ledger == INSTANCE VoteLedger WITH counted <- Counted
ImplementsLedger == Ledger!Spec
================================================================================
