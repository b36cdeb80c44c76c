# Verification of the Novo Riviera backend

The repository is the backend of a talent-competition platform: a NestJS
application over PostgreSQL (through Prisma). Members of the public vote for
contestants by bank transfer, proved with an uploaded image and confirmed by an
administrator; an older path sells coins through Paystack and spends them on
votes. This directory holds TLA+ specifications of it, TLC
configurations that check them, and TLAPS proofs.

Paths below are relative to the repository root.

## 1. Inventory

The application is stateless between requests, with one exception (the rate
limiter's map): all state is in PostgreSQL rows. Requests run concurrently, each a
sequence of statements, some of them inside a transaction. What is hard is
therefore the same everywhere: **rows read by one statement and written by a
later one while other requests commit in between**, transactions that die
halfway, and administrators' bulk operations running through the middle of it.

| Component | State it keeps | Operations that change it | What is hard / what makes it correct | Modelled |
|---|---|---|---|---|
| Manual voting, `src/public-votes/` | `ManualVotePayment`, `ManualVoteCredit`, `ManualVotePaymentEvent`; `Contestant.totalVotes` | `createIntent`, `attachProof`, `submit`, `confirm`, `reject` | Two decisions on one payment, confirm against resets, snapshots, deadlocks. Each payment is decided once, counted once, and only after a proof | `ManualVotes` |
| Competition resets, `src/competitions/` | counters and statuses of contestants, payments, submissions, winners | `reset`, `resetVotes` | Two or three bulk statements, not serializable. No votes without a confirmed payment; nothing lost without an audit row | `ManualVotes`, `Season` |
| Competitions, leaderboard, winners, `src/competitions/` | `Competition`, `CompetitionWinner` | `create`, `update`, `remove`, `declareWinners` | Ranking read outside the transaction that replaces the winners. Winners are the first three of one ranking | `Accounts` (create, update, remove), `Season` |
| Contestants, `src/contestants/` | `Contestant` | `register`, `updateMyPhoto`, `updateStatus`, engagement, `removeFromPublic` | Write the rows voting counts on; one profile per user and competition, unique codes | `ManualVotes`, `Accounts`, `Season`; not `updateMyPhoto` |
| Voting window, `voting-window.util.ts` | none | pure | Boundaries of the dates | as a switch |
| Paystack payments, `src/payments/` | `Payment` | `initCoinPurchase`, `verifyForUser`, webhook | Repeated and late answers. Paid exactly once credited | `CoinLedger` |
| Coin wallets, `src/wallet/` | `CoinWallet`, `CoinTransaction` | `ensureWallet`, `adjustWallet` | Absolute writes of old balances. Balance = sum of its transactions | `CoinLedger` |
| Coin votes, `src/votes/` | `Vote`, wallet, `totalVotes` | `cast` | As above; cannot spend more than there is | `CoinLedger`, `Season` |
| Coin packages | `CoinPackage` | `create`, `update`, `remove` | single rows | `BackOffice`; constant `Coins` of `CoinLedger` |
| Rate limit, `public-vote-rate-limit.guard.ts` | in-memory map of times per key | `canActivate` | Sliding window: never more than 12 in 60 s under one key | `Intake` |
| Stages, `src/stages/` | `Stage`, statuses of contestants | `create`, `update`, `remove`, `eliminateBottom` | Check then write, no transaction. At most one ACTIVE stage; each stage eliminates once | `Season` |
| Submissions, `src/submissions/` | `Submission` | `create`, `updateStatus`, `updateYoutube`, `remove` | Insert races the removal of the contestant | `Season`; not `updateYoutube` |
| Auth and users, `src/auth/`, `src/users/` | `User` | `register`, `changePassword` | User and contestant together or not at all; last reset wins | `Accounts`; not the profile updates |
| Administration, `src/admin/` | `AdminAuditLog`, users | audit rows, status, password reset | Some audit rows are written after the change, in a statement of their own | `ManualVotes`, `Accounts`, `BackOffice` |
| Ads, CMS, `src/ads/`, `src/cms/` | `SponsoredAd`, singletons, sponsors | CRUD, counters, get-or-create | Partial updates; two first readers | `BackOffice` |
| Uploads, `src/uploads/` | Cloudinary | uploads, `payment-proof` | Orphaned files; the call of `attachProof` is the one with state | `Intake`, and `Proofs` of `ManualVotes` |
| Wiring, configuration, schema | migrations, switches | start-up | unique keys and enums | keys and cascades where operations rely on them; the seed in `Accounts`, `Season` and `BackOffice`; start-up not |

Interactions: `uploads` calls `attachProof`; `admin.controller` calls the
services of every other component; manual voting, coin votes, resets,
elimination and moderation all write `Contestant` rows; `payments`, `votes` and
`wallet` all write `CoinWallet` rows. There are no in-process callbacks or
queues: components meet in rows. The hazards are listed one by one, at their
lines, in `PROJECT.json`.

## 2. Modules

| Module | What it is |
|---|---|
| `ManualVotes` | Manual voting, resets and moderation as concurrent requests over PostgreSQL |
| `VoteLedger` | What manual voting promises: one atomic decision at a time, no requests or locks |
| `MCManualVotes` | TLC instances of `ManualVotes` (symmetry) |
| `ManualVotesProofs` | The inductive invariant and the safety theorems of `ManualVotes` |
| `ManualVotesRefinement` | `ManualVotes` implements `VoteLedger`; finality of decisions; what every ledger promises |
| `CoinBank` | What coins promise: atomic purchases, credits, adjustments and votes; no requests or locks |
| `CoinLedger` | Paystack payments, wallets, adjustments and coin votes as concurrent requests |
| `MCCoinLedger` | TLC instances of `CoinLedger` |
| `CoinLedgerProofs` | The inductive invariant and the safety theorems of `CoinLedger`; it implements `CoinBank` |
| `Season` | One competition: stages, submissions, moderation, resets, coin votes, elimination, leaderboard, winners |
| `Accounts` | Users, passwords, tokens, competitions and the profiles that join them |
| `BackOffice` | Rows administrators edit, their audit log, counters of ads, CMS singletons, the seed |
| `Intake` | What the process itself keeps: the rate limiter's map and uploads under way |
| `MCSeason`, `MCAccounts`, `MCBackOffice`, `MCIntake` | Their TLC instances |
| `SeasonProofs`, `AccountsProofs`, `BackOfficeProofs`, `IntakeProofs` | Their inductive invariants and safety theorems |

The modules cut the system by the rows that operations share, not by source
directory. An operation that writes rows of two modules is in both, each time
with the rows of that module: `cast` spends coins in `CoinLedger` and counts
the vote in `Season`; `reset` and `resetVotes` end payments in `ManualVotes` and
clear submissions, winners and `Vote` rows in `Season`; `register` is one step of
the modules that only need a contestant to appear, and every statement of it is in
`Accounts`.

A definition whose comment begins with *Mutant* (`SignUpAnyway`, `CreateAnyway`,
`ValidateBeforeTry`, ...) is not part of the specification. It is what a
plausible bug would make of the action after it, and `PROJECT.json` names the
property that then fails.

### How the database is modelled

A request in flight is an element of `Reqs`; `pc[r]` says which statement it
executes next, `"idle"` that it is free to take another request. The rules the
modules over the database share:

- **Rows.** A row written by an open transaction is locked (`lock`) and nobody
  else can change it before the transaction ends. Since only the holder may
  change it, the writes of a transaction are applied when it commits; a
  rollback releases the locks and leaves the tables alone.
- **READ COMMITTED** (the default, used everywhere but in three transactions):
  each statement reads what is committed when it starts. Reads and
  the later writes based on them are separate actions.
- **SERIALIZABLE** (`submit`, `confirm`, `reject`): reads come from the snapshot
  of the first statement. `stale[r]` collects the rows others committed since;
  updating one of them is a serialization failure. Failures PostgreSQL may add (its
  read-write dependency checks) are covered by `Abort`.
- **updateMany** of the resets locks the rows it matched one at a time, in any
  order, and waits for locked ones (`todo`, `LockRow`).
- **Deadlock.** A request in a set that waits only for rows held inside the set can be
  ended by `DeadlockDetected`.
- **Abort** is Prisma's five-second limit, a lost connection or a crash of the
  process, possible before any statement.

`Season` and `Accounts` collect in a variable per request (`missed[r]`,
`changed[r]`) what others have committed since the request began: no code reads it, it
is what the properties use to say "unless it was changed after the check".

Statements on rows no property reads, and several statements that nobody
can observe apart, are one action.

### ManualVotes

| Code | Actions |
|---|---|
| `createIntent` | `CreateIntent` (checks) -> `InsertIntent` \| `ReferencesCollide` |
| `attachProof` | `AttachProof` (status read, outside the transaction) -> `StoreProof` (update by id) |
| `submit` | `Submit` (snapshot, checks) -> `Claim` -> `SubmitCommit` |
| `confirm` | `Confirm` -> `Claim` -> `Increment` (unique credit, contestant's lock) -> `ConfirmCommit` |
| `reject` | `Reject` -> `Claim` -> `RejectCommit` |
| `resetVotes` | `ResetVotes` -> `LockRow`... -> `ResetVotesPayments` -> `LockRow`... -> `ResetVotesCommit` |
| `reset` | `Reset` -> `LockRow`... -> `ResetCommit` |
| `updateStatus`, `removeFromPublic`, `register` | `UpdateStatus`, `RemoveFromPublic`, `Register`, one step each |
| switches and dates of the competition | `SetVoting` |

Abstractions: `tally[p]` is how many times payment `p`'s `voteQuantity` is part of
its contestant's `totalVotes`, which keeps apart what a sum would mix (a reset
sets it to 0 for the contestant's payments). `cstatus` joins PENDING with
APPROVED and REJECTED with ELIMINATED: voting only asks which. Any other
writer of a contestant row (photo, engagement, a coin vote) is, to the requests here, an
`UpdateStatus` that leaves the status as it was. Reads are not actions, except where a
later write depends on them.

### CoinLedger

| Code | Actions |
|---|---|
| `initCoinPurchase` | `InitCoinPurchase` (PENDING row) -> `InitializePaystack` |
| Paystack (external) | `CustomerPays`; `HandlePaystackWebhook` may happen at any time, any number of times, once paid |
| `verifyForUser` | `VerifyForUser` (Paystack's answer now) -> the two paths below |
| `processSuccessfulPayment` | `FindPaid` -> `ClaimPayment` -> `FindWallet` -> `IncrementBalance` \| `CreateWallet` -> `RecordCredit` |
| `markPaymentFailed` | `FindUnpaid` -> `MarkPaymentFailed` |
| `cast` | `Cast` (checks, balance read) -> `OverwriteBalance` -> `RecordMovement` |
| `adjustWallet` | `AdjustWallet` -> `OverwriteBalance` \| `CreateWallet` -> `RecordMovement` |
| `findMine` and the other callers of `ensureWallet` | `FindMine` -> `CreateWallet` -> `CommitWallet` |

`booked[u]` is the sum of the wallet's `CoinTransaction` rows, which the code
never compares with `balance[u]`. `fresh` and `lost` are history variables:
whose read of a balance is still the committed one, and of which users an old
balance was written back.

### Season

| Code | Actions |
|---|---|
| `create`, `update` of a stage | `CreateStage`, `UpdateStage` -> `ActiveStageRule` -> `WriteStage` |
| `remove` of a stage, with the cascade | `RemoveStage` -> `DeleteStage` |
| `create` of a submission | `Submit` -> `FindContestant` -> `InsertEntry` |
| `updateStatus`, `remove` of a submission | `Review` -> `WriteReview` |
| `updateStatus` of a contestant | `UpdateStatus` -> `SetStanding` |
| `removeFromPublic`, `reset` | `RemoveFromPublic`, `Reset` -> `RejectEntries` -> `PutOut` |
| `cast` | `Cast` -> `CheckStage` -> `CastVote` |
| `resetVotes` | `ResetVotes` -> `ZeroVotes` -> `DeleteVotes` |
| `eliminateBottom` | `EliminateBottom` -> `Rank` -> `Eliminate` |
| `declareWinners` | `DeclareWinners` -> `Leaderboard` -> `DeleteWinners` -> `PlaceWinners` |
| stages of the seed | `Seed` -> `SeedStage`... |
| a contestant registers; a transaction fails | `Register`; `Abort` |

Pure parts: the orders of the leaderboard in its three modes, `Rank` of the public profile,
the order of elimination and `PublicEntries` (`findByStage`). Abstractions: one competition; a
stage keeps its number, and updates that do not set a status are left out; dates and windows only refuse a request at
its start; PENDING and APPROVED contestants are both `"IN"`, since every reader
modelled here treats them alike; one vote is one unit; scores are exact where the code uses
floating point. The writes of a transaction are applied at its commit, the rows it
holds until then are `Locked` and `Held`. Which of two overlapping declarations commits first is left open.

### Accounts

| Code | Actions |
|---|---|
| `register` (account and profile, one transaction) | `Register` -> `FindActive` -> `FindPublished` -> `InsertUser` -> `DrawCode`... -> `SignUp` |
| `register` of a contestant profile by a user | `RegisterContestant` -> `DrawCode`... -> `Join` |
| `login` | `Login` -> `IssueToken` |
| JWT strategy, roles guard | `JwtGuard`, `RolesGuard`, in the first step (`Enter`) of every operation with a token |
| `changePassword`; reset by an administrator | `ChangePassword` -> `VerifyPassword` -> `WritePassword`; `ResetUserPassword` -> `WritePassword` |
| `updateUserStatus` | `SetUserStatus` -> `UpdateUserStatus` |
| `create`, `update`, `remove` of a competition | `Create`, `Update`, `Remove` -> `CreateRow`, `UpdateRow`, `RemoveRow` (cascades to profiles) |
| administrator and competition of the seed | `Seed` -> `SeedAdmin` -> `SeedCompetition` |

A user is identified with its e-mail address, a hash with its password, a token with the
user it names. An insert of a key that an open transaction has inserted waits for that
transaction to end, as PostgreSQL does.

### BackOffice

| Code | Actions |
|---|---|
| create of a FAQ, sponsor, ad, package; a contact message | `Insert` (-> `Audit`) |
| update, delete of one | `Ensure` (`findUnique`, 404) -> `UpdateRow`, `DeleteRow` -> `Audit` |
| `trackClick`, `trackImpression` | `Track` -> `Increment` |
| get of a CMS singleton; its update | `GetOrCreate` -> `CreateSingle`; then `UpdateSingle` -> `Audit` |
| the seed | `Seed` -> `SeedSingle`... -> (`SeedFind` -> `SeedUpdate` \| `SeedCreate`)... |
| the process dies, or the database refuses | `Fail`, before any statement |

Pure parts: `resolveDestination`, `mapCreateAdData`, `mapUpdateAdData`, with every
field of the dto sent, null or left out. A destination is a text with what the code asks of it: its trimmed form,
whether it starts with `http://` or `https://`, whether `IsUrl` accepts it, and the `wa.me` link of its digits, if it has any. Another text is reduced to the name the seed
looks for, or to who wrote it.

### Intake

| Code | Actions |
|---|---|
| `PublicVoteRateLimitGuard.canActivate` | `KeyOf`, then `Admit` (synchronous, so one step; a refused request changes nothing) |
| upload endpoints: multer, its filters and limits | `UploadVideo` -> `ReceiveVideo` \| `VideoTooLarge`; `UploadImage`; `UploadRegistrationImage`; `UploadPaymentProof` |
| validation, Cloudinary, clean-up | `Validate` -> `StreamStored` \| `StreamFailed` -> `Clean` |
| answers, `attachProof` | `AnswerRegistrationImage`; `AnswerPaymentProof` -> `Attach` -> `StoreProof` \| `StoreFails` |
| time, the end of the process, payments decided elsewhere | `Tick`, `Restart`, `CloseIntent` |

A request of the voting routes is the address of its connection (`request.ip`, None if it is unknown) and what its
`x-forwarded-for` header names first (None if nothing); `Senders` are the pairs that occur.
The last write of `attachProof` and its answer are one step (`StoreProof`), as are an ad's increment and its
answer (`Counted` of `BackOffice`): a connection lost between them loses only the answer.
A file is its type, extension and size class. Cloudinary is external: it stores, fails, or answers without a URL.

## 3. Runs

| Run | Instance | Result and what it shows |
|---|---|---|
| `manual_votes` | 2 payments, 1 contestant, 2 requests, 1 image, 1 upload per payment (957 000 states, symmetry) | passes: the safety properties and the refinement below |
| `manual_votes_live` | 1 payment, a contestant who registers, 2 requests (110 000 states) | passes: `RequestsAnswered` |
| `proof_frozen` | 1 payment, 2 images | violated, section 5 |
| `archived_excluded` | 1 payment, a contestant who registers | violated, section 5 |
| `coin_ledger` | 1 user, 2 payments, 2 requests, 10 coins per payment, adjustments of -10, 0 and 10, offers of 5 and 10 (1.3 million states, symmetry) | passes |
| `coin_ledger_live` | 1 user, 1 payment, 2 requests (66 000 states) | passes: `PaidIsCredited`, `RequestsAnswered` |
| `enough_coins`, `credited_is_success` | as `coin_ledger` | violated, section 5 |
| `season` | 3 contestants, one of whom registers late, 2 stages, 2 requests, 2 votes, 3 declarations, 15 workloads (1.1 million states, symmetry) | passes |
| `accounts` | a newcomer, a user, an administrator, 2 competitions, 2 codes, 2 passwords, 2 requests, 10 workloads (195 000 states) | passes, `RequestsAnswered` included |
| `back_office` | 7 rows, 7 forms of an ad's dto, a seed of 2 rows, 2 requests at a time and 4 in all, 6 workloads (229 000 states, symmetry) | passes |
| `intake` | 2 addresses and a connection without one, 3 keys, one of them common to both, 2 uploads, 2 payments, 2 assets, 2 requests per 2 time units, one restart (1 340 000 states, symmetry) | passes |

What the properties say, each stated in full at its definition:

- `ManualVotes`: `CountedOnce`, `DecidedOnce`, `BackedVotes`
  (through the gap between the statements of `resetVotes`), `LossesAudited`,
  `ProofBeforeReview`, `ClaimNeverMisses` and `ImplementsLedger` (refinement:
  `counted` is mapped to the payments with a non-zero tally). `DecisionsFinal` and
  `DeadlockNeedsReset` are theorems (section 4); the first is contained in `ImplementsLedger`.
- `CoinLedger`: `CreditedOnce`, `ImplementsBank`, `PaidIsCredited`,
  `RequestsAnswered`; its `TypeOK` includes that no balance is
  negative, which depends on the checks of `cast` and `adjustWallet`. `ImplementsBank`
  maps `funded` to the payments Paystack holds as paid and `credited` to those with a
  credit row; the other variables of `CoinBank` are those of `CoinLedger`. It contains
  `LossNeedsOverlap` (a balance differs from the sum of its transactions only for a user of whom an old
  balance was written back), and says besides that each commit is one whole movement of one user.
- `Season`: `OneActive` (a second stage becomes ACTIVE only next to one written
  after the check), `RemovedAreHidden` (entries of the removed stay rejected,
  but for reviews and for submissions checked before the removal),
  `CounterBacked` (a vote counter exceeds its `Vote` rows only for somebody who
  registered during a `resetVotes`), `VotesForStanding`, `FairElimination`
  (nobody is eliminated before somebody worse, but by what changed after the ranking),
  `PodiumOK` (the winners are one whole declaration, in order) and `PodiumIsCurrent` (they are
  those the ranking has at the commit, but for what changed after it was read).
- `Accounts`: `AccountsAreWhole` (contestants have profiles, profiles have
  contestants or administrators, through cascades and failures), `CodesUnique`,
  `JoinsTheActive`, `OwnerKnewPassword`, `ActsAuthorised`, `RequestsAnswered`.
- `BackOffice`: `AuditsFollow` (each change has one audit row, but for requests between
  the two statements or dead there), `CountsExact`, `TargetFollowsValue` (an
  ad's target is that of its destination, through partial updates, when every type can read it),
  `SeededOnce`, `EditsSurvive` (a first reader's defaults never replace an edit).
- `Intake`: `RateBounded` (per key, and per address for each key it has), `TemporaryFilesRemoved`, `ProofsAccounted` (a stored proof image is a payment's proof,
  replaced by a later one, or belongs to an upload that failed), `ProofsAsTold`.

Several say *unless it changed meanwhile*. That is the point: the code
checks, then writes, under READ COMMITTED, so the unconditional statements are false
(section 5). The properties state exactly how much of each survives, and
the mutants in `PROJECT.json` show that dropping the check breaks what is left.

**Bounds.** Two requests are enough for every race the code has between two
operations on the same rows, and for the deadlock of `confirm` and
`resetVotes`; a third party comes in as the one-step moderation actions, which need
no request. One contestant is enough because no operation relates the
votes of two; two payments let one request's reset see a payment another
request has just confirmed next to one still open. `MaxAttach` bounds the
uploads, `MaxCoins` and `MaxVotes` the adjustments and votes started; all
three only stop new requests from starting. The theorems of section 4 have no such bounds on the
number of payments, contestants or requests (`MaxAttach` is any natural number).

In the four other modules a behaviour first chooses a workload (`Workloads`; `Traffic` in `Intake`), the
set of operations that occur in it. A workload holds operations that
touch common rows; those that share none need not run
together, and a run of all at once would only multiply independent steps. `Choices`, `Statuses`
and `Dtos` bound the values requests carry, `MaxVotes`, `MaxEditions`, `MaxRequests`, `MaxAttempts`,
`MaxNow`, `MaxSpilled` and `MaxRestarts` how often something happens. Two competitions let one be
PUBLISHED and the other become ACTIVE during a registration; two codes make
draws collide; three contestants give the elimination and the podium somebody to get wrong and
one who registers between two statements; four requests let a seed, an edit, a deletion and a
second seed follow one another. The theorems hold for every value of these bounds and every set of workloads.

**Fairness.** A request whose next step is possible again and again takes it
(strong fairness of `Proceed(r)`): Node.js runs every ready continuation, and
PostgreSQL queues the waiters of a row lock in order of arrival. PostgreSQL's
deadlock detector runs (weak fairness). Timeouts, crashes and administrators'
actions are never assumed to happen. `PaidIsCredited` also assumes what
Paystack does: it repeats a webhook until it is answered 2xx, here until the
payment is credited (`Deliver`), and it is conditional on requests not being aborted for ever.

`Accounts` assumes the same strong fairness of `Proceed(r)`, for the same reasons: the insert of an
address another transaction has inserted waits until that one ends, and is possible
again each time one does. `Season`, `BackOffice` and `Intake` state safety only and assume no fairness.

Deadlock checking is on except in three runs. In `accounts` the only administrator may deactivate its own
account, after which there is nothing left to do; in `back_office` and `intake` the
bounds on requests, time and assets end behaviours. In `accounts`, `RequestsAnswered` says more than the absence of deadlock would.

## 4. Proofs

`ManualVotesProofs` proves `TypeOK`, `CountedOnce`, `DecidedOnce`,
`BackedVotes`, `LossesAudited`, `ProofBeforeReview` and `ClaimNeverMisses` of
`Spec`, for any finite or infinite sets of payments, contestants, founders,
requests and images. The only assumption is `IdentityAssumption`: founders are
contestants, payments are not contestants, and `None` is neither, nor a
request or an image.

None of these is inductive. That a claimed payment still has the status its
request read follows from the lock, or from a snapshot nobody has
outdated; so the invariant `IndInv` adds

- `RequestsOK`: what a request works on exists and is of the right kind;
- `LocksOK`: a claimed payment, and a contestant about to be credited, is locked by its request;
- `SnapshotsOK`: a payment not in `stale[r]` is as `r` read it, and so is a
  claimed one. This is where SERIALIZABLE is used, and why `conflict` is
  never reached;
- `PaymentsOK`: how status, credit and event counts of one payment agree;
- `ResetsOK`: `resetVotes`, between its statements, holds every founder, and
  has matched or locked every confirmed payment of the contestants it
  holds: no confirm can have slipped in. This is what makes `BackedVotes` true;
- `CountedOnce`, `BackedVotes` and `LossesAudited` themselves.

There is one lemma per action that changes the tables, and one for all the steps
that only move requests and locks. `ManualVotesRefinement` shows, from the same
invariant, that each commit is one decision of `VoteLedger` and every other step
a stutter (`ImplementsLedger`), and `DecisionsFinal`. `LedgerPromises` then forgets the
service: anything that implements the ledger keeps `BackedVotes` and `DecisionsFinal`. The
abstract specification is thus strong enough to stand for both.

`OnlyResetsDeadlock` says who can wait for whom (`DeadlockNeedsReset`): in a set of
requests none of which can go on without another of the set, one is a `resetVotes` past its first
statement, or two are bulk updates over contestants. It rests on a small invariant of its own, `LocksHeld`:
a lock is held only by a request at a statement that can hold it. Submissions, confirmations and
rejections lock a payment, then a contestant, and wait for nothing while they hold the second.

`CoinLedgerProofs` proves `TypeOK` (with it, that no balance is negative),
`CreditedOnce` and `LossNeedsOverlap` of `CoinLedger`, under `CoinAssumption`:
coins, offers and adjustments are numbers, and the identities are distinct. Its
strengthening is smaller than the one of `ManualVotes`, and says where the safety
of payments comes from:

- `PurchasesOK`: only the request that created a payment takes it to Paystack,
  once, so a paid payment never looks unpaid again;
- `RequestsOK`: a request crediting a payment has seen it paid, and the
  balance a request is about to write is not negative;
- `FreshOK`: a read no commit has overtaken is the committed balance.

`BankRefinement` shows that every step is one of `CoinBank` or a stutter. Seen from the bank are
only the new purchase, the customer's payment, and commits: of a wallet (`OpenWallet`), of
`RecordCredit` (`Credit`) and of `RecordMovement` (`Adjust` or `Spend`, with
`Exactly` when the balance it read is still `fresh` and `FromOld` otherwise). It needs
`LinksOK` beyond the invariant above: a request that credits a payment works on the wallet of its
buyer, and what a request is about to move is an adjustment, or the price of votes of a user who has a wallet. `BankKeepsBooks` derives `LossNeedsOverlap` from
`ImplementsBank` alone. `NeverDeadlocked` (`NoDeadlock`) has an invariant of locks as well:
payment rows are held only by requests past their claim, wallets only by requests with nothing
left to wait for, so that waiting never closes a circle.

No part of the safety of credits speaks of locks: that a payment is credited once rests on the unique
`CoinTransaction.reference`, checked in `RecordCredit` in the same transaction as the increment,
not on the claim of the payment row, which `markPaymentFailed` can undo.

`SeasonProofs`, `AccountsProofs` and `BackOfficeProofs` prove every safety property of
their runs, and so does `IntakeProofs`. The first two follow one pattern. The tables satisfy
global conjuncts; a request holds what its next statement needs (`Holds`); and it *knows* what it checked (`Knows(r)`):
**what a request has read still holds, but for what `missed[r]` (`changed[r]`) says others wrote**. A
step of a request shows the property from its own `Knows`; a step
of another keeps it, since what it writes is noted there. The lemmas are
accordingly of two kinds, per action: it keeps the tables right, and it keeps the knowledge of everybody else.

- `Season`: the conjuncts are that registration times are distinct, that nobody has votes before registering,
  that the removed are REJECTED, that a declaration is whole, and the two invariants
  themselves. `FairElimination` also needs that the set ranked last is closed downwards, whatever
  its size (`Cardinality` facts of the library). `RankingsAgree` compares
  the orders: elimination is the reverse of the public rank, and the
  boards agree with it up to ties. `RemovedAreOut` follows for the public lists. For
  `PodiumIsCurrent` a declaration knows that the winners it carries are those it would read now
  (`Ranks`), unless votes or statuses were written since; that there is a third place whenever somebody is
  left out is shown by well-foundedness, on the sets of those ahead.
- `Accounts`: `AccountsAreWhole` and `CodesUnique` with the accounting of
  uncommitted keys; that the newest open competition exists is shown by
  well-foundedness of the order in which they were created, not by choosing from a finite instance.
  `AddressesReleased`, proved and not a property of a run, adds that only a registration past its insert holds
  an address, and the one it inserted (`Reserved`): no two requests wait for each other.
- `BackOffice`: a conjunct per kind of row (`RowOK`), audit rows in step with changes (`AuditsFollow`), and, for
  the seed, that there is one seeder at a time unless two overlapped (`SeedsOK`), the exception `SeededOnce` makes.
- `Intake`: the recent requests kept are all those within the window
  (`RecentComplete`) and are those let through (`RecentPassed`), from which
  the bound of each key follows by counting, and that of an address by an injection of its requests into its keys
  times the places of a window; uploads under way hold the asset they stored (`UploadsHold`).
  `TemporaryFilesRemoved` and `ProofsAccounted` count what is in flight: each step of an upload
  moves one file or image from one place to another, which are `Cardinality` facts
  about sets that gain or lose one element (`KindsOK` and `ProofsPlaced` say which request may hold
  which). They use that uploads in flight are finitely many.

Assumptions are the named `ASSUME` of each module: constants have their types, `None` is nobody's identity, what is
counted is finite, and, in `Season`, those registered at the start have distinct times. TLC evaluates them in the runs.

Every invariant and action property of the runs is a theorem. TLC alone checks liveness, which is
outside the prover's reach (`RequestsAnswered` of three modules, and `PaidIsCredited`); the
deadlock theorems, and `AddressesReleased` in `Accounts`, give the part of `RequestsAnswered` that is safety.

## 5. Disagreements with the documentation

Four runs expect a violation, and each trace is short enough to read:

1. `ProofFrozen`: an upload under way replaces the proof of a payment that was submitted or decided meanwhile
   (`attachProof` checks, then updates by id).
2. `ArchivedExcluded`: `resetVotes` under READ COMMITTED archives the payment
   of a contestant it did not zero, one who registered between its statements. For contestants
   already there `BackedVotes` is proved.
3. `EnoughCoins`: two coin votes at once spend the same balance.
4. `CreditedIsSuccess`: a late `markPaymentFailed` overwrites SUCCESS.

Found while modelling, without a run of their own; where a property has an exception for
it, the theorem shows that nothing else breaks the promise:

- The documented 409 answers to concurrent submissions and decisions cannot occur
  (`ClaimsNeverMiss`); the database error that occurs instead is not translated. The documented 409
  after five colliding references is a rethrown database error as well, and `resetVotes` makes
  status transitions the documentation rules out.
- Two stages can become ACTIVE: the check and the write are two statements (`OneActive`).
- A contestant eliminated or removed after `cast` has looked receives the vote (`VotesForStanding`).
- Two unforced `declareWinners` that overlap both find no winners, and the
  second replaces the first's. What is left is always one whole declaration (`PodiumOK`).
- An ad's link sent as null is not cleared, and the destination's type becomes WEBSITE:
  the resolved destination, where null counts as not sent, is spread over the dto. Likewise a change of type away from
  WHATSAPP or a social network leaves the old `whatsappUrl` or `socialUrl`, and `{targetUrl: A, whatsappUrl: B}` stores
  A as the WhatsApp link.
- A destination that is blank, or a WhatsApp destination that is no URL and has no digit, resolves to nothing: a creation
  leaves the target empty, and an update stores it beside the old target. `TargetFollowsValue` speaks of the others.
- The documented limit is per IP; the guard's key is the first element of `x-forwarded-for`, and the address only
  without one. An address has a limit for each key its requests name, and those who share a key share a limit (`RateBounded`).
- The seed is idempotent when its runs do not overlap (`SeededOnce`); two that do can both create a
  package, FAQ or sponsor. A rerun sets stages back to their initial status and CMS texts to their defaults.

Worth knowing, though nothing documents otherwise: the leaderboard by votes ignores engagement where
the rank of the profile breaks ties by it, and no code ever writes engagement but to zero it; a
contestant set to REJECTED by `updateStatus` keeps APPROVED submissions, which `findByStage` hides only while
the status lasts; if the administrator's address was registered before the first seed, the
seed promotes nobody; the only administrator can deactivate itself; the rate limiter's map is per
process and lost at a restart.

## 6. Not modelled, and why

- Amounts, texts, metadata, pagination, exports, analytics, placements and dates of ads: no property
  depends on them, and they are written in the same statements as what is modelled.
- `updateMyPhoto`, `updateProfile`, `updateYoutube`: one row, one statement, read by nothing modelled.
- The dates of the voting window and of stages: they are the switch `votingOpen`, and refusals at
  the start of a request.
- Token signing and expiry, hashing, webhook signatures, the bytes of files: library calls.
- Migrations and start-up: they run before the first request.
- Floating point: the leaderboard's scores are exact in `Season`.
- Several processes: each would have a rate limiter of its own; the other
  modules already treat requests as concurrent to the statement, so for them
  processes make no difference.

## 7. Plan

In this order: an atomic specification of the podium and of standings that `Season` implements; the voting window as
pure operators checked against a reference definition at its boundaries; the liveness of `Season` and
`BackOffice`.
